---------------------------- MODULE MCWriteOnce ----------------------------
EXTENDS WriteOnce, TLC

CONSTANTS w1, w2, w3

MCWriters == {w1, w2, w3}
MCStores == DOMAIN Publish
============================================================================
