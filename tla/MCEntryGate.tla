----------------------------- MODULE MCEntryGate -----------------------------
(* A setup that enters and a management-only setup on one symbol; a position *)
(* bought by hand may be on that symbol or on one without a setup.           *)
EXTENDS EntryGate, TLC

EnterX  == "ex" :> "x"
ManageX == "mx" :> "x"
=============================================================================
