-------------------------- MODULE MCApplicationLogin --------------------------
(* TLC instances of ApplicationLogin: the tabs of one browser.             *)
EXTENDS ApplicationLogin

CONSTANTS t1, t2, b1, b2, MaxStarts

MCStarts == 1..MaxStarts
MCTabBrowser == [t \in Tabs |-> b1]
=============================================================================
