----------------------------- MODULE HeaderLog -----------------------------
(***************************************************************************)
(* What a family of header constructors promises, stated on field values  *)
(* and with no bytes in it (spec.md sections 3, 4.3 and 8): the sample     *)
(* generator appends headers to its packet list, and every header it       *)
(* appends, read back field by field, is one the family allows for the     *)
(* variant built: the variant's discriminator and constants, zero in every *)
(* reserved field, and in every other field the caller's argument of the   *)
(* same name.  A detailed family module implements this specification     *)
(* under the refinement mapping that decodes each packet's bytes.          *)
(***************************************************************************)
EXTENDS Naturals, Sequences

CONSTANTS
  Kinds,        (* the variants of the family                              *)
  Headers(_),   (* Headers(k): the field-value records allowed for variant k *)
  MaxLog        (* bound on the number of headers appended                 *)

VARIABLE log    (* the headers appended so far, oldest first               *)

Init == log = <<>>

(* The generator builds one header of some variant and appends it.        *)
Append1 == /\ Len(log) < MaxLog
           /\ log' \in {Append(log, h) : h \in UNION {Headers(k) : k \in Kinds}}

Next == Append1

Spec == Init /\ [][Next]_log
=============================================================================
