--------------------------- MODULE MCKeeperIndex ---------------------------
(* Small instances of KeeperIndex for TLC: a head rule that feeds a tail.     *)
EXTENDS KeeperIndex, TLC

CONSTANTS head, tail, acct, feed

\* The head watches an account and one of its token accounts, the tail the
\* feed the head's second key stands for.
ChainLink == head :> tail
ChainKeys == (head :> {acct, feed}) @@ (tail :> {feed})
HeadTwice == (head :> 2) @@ (tail :> 1)
HeadOnce == (head :> 1) @@ (tail :> 1)

=============================================================================
