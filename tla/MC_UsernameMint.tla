--------------------------- MODULE MC_UsernameMint ---------------------------
(* UsernameMint on a small instance: two names of an odd price, so that    *)
(* the shares are rounded, and scenes of what is lost and flushed.         *)
EXTENDS UsernameMint

CONSTANTS alice, ali
MCNames == {alice, ali}
OddPrice == [n \in MCNames |-> 3]

MCScenes ==
    { \* payments, some of the wrong amount; acknowledgements of the items and
      \* of the registry get lost, and users reuse their query ids at once
      [lossy |-> {"deployed", "noteAck"}, fresh |-> FALSE, flushes |-> {},
       amounts |-> {2, 3}],
      \* what mints bring in is flushed, and the answers may get lost
      [lossy |-> {"done"}, fresh |-> TRUE, flushes |-> Kinds,
       amounts |-> {3}],
      \* the items' acknowledgements get lost and are resent
      [lossy |-> {"deployed"}, fresh |-> TRUE, flushes |-> {"burn"},
       amounts |-> {3}] }

=============================================================================
