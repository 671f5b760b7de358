--------------------------- MODULE MCFileIngress ---------------------------
(***************************************************************************)
(* Instance of FileIngress: an allowed host, another host and one written  *)
(* as an address; a port that only the exact-host check accepts; public,   *)
(* private and mapped addresses; a deadline of two operations.             *)
(***************************************************************************)
EXTENDS FileIngress

CONSTANTS allowed, other, literal

MCUrl ==
  {[host |-> allowed, port |-> 443, plain |-> TRUE],
   [host |-> other, port |-> 443, plain |-> TRUE],
   [host |-> allowed, port |-> 8443, plain |-> TRUE],
   [host |-> literal, port |-> 443, plain |-> TRUE],
   [host |-> allowed, port |-> 443, plain |-> FALSE]}

MCAddress ==
  {[class |-> "global", mapped |-> None],
   [class |-> "private", mapped |-> None],
   [class |-> "global", mapped |-> "loopback"]}

MCPolicy == {[mode |-> "exact_host", bind |-> FALSE, hosts |-> {allowed}]}

MCDeclaredLength == {None, -1, 1, MaxBytes + 1}

=============================================================================
