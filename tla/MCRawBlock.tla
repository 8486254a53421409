----------------------------- MODULE MCRawBlock -----------------------------
(* Two chunks for one slot, a manifest after every write, and one crash. *)
EXTENDS RawBlock

MCBlockKeys == {"a", "b"}
MCBlockSetups == {[slots |-> 1, interval |-> 1, restarts |-> 1]}
=============================================================================
