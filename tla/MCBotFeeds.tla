------------------------------ MODULE MCBotFeeds ------------------------------
(* An instance of BotFeeds: two pairs that may share a feed, and rows that  *)
(* fit the budget alone but not always together.                            *)
EXTENDS BotFeeds, TLC

CONSTANTS p1, p2, f1, f2

MCOrder == <<p1, p2>>
MCRows  == {[feed |-> f1, cost |-> 1], [feed |-> f2, cost |-> 1], [feed |-> f1, cost |-> 2]}
================================================================================
