------------------------------ MODULE MCServer ------------------------------
(***************************************************************************)
(* Two clients of a process that may be restarted once: one pipelines a    *)
(* command and a hello, one sends a message of an unknown opcode.  The     *)
(* catalog has two statements, the least number that can be cut in the     *)
(* middle.                                                                 *)
(***************************************************************************)
EXTENDS Server, TLC

CONSTANTS alice, bob

MCRequests ==
  alice :> << [id |-> 7, body |-> "msg", usesStore |-> TRUE],
              [id |-> 9, body |-> "query", usesStore |-> FALSE] >>
  @@ bob :> << [id |-> 7, body |-> "other", usesStore |-> FALSE] >>

\* /ready answers yes only while the port it stands for accepts connections:
\* "ReadyCheck verifies whether the server can accept traffic"
\* (status/server.go:9).
ReadyMeansAccepting ==
  [][server.ready # "yes" /\ server'.ready = "yes" => server.listener = "open"]_vars
=============================================================================
