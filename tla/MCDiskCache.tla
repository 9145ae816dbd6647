---------------------------- MODULE MCDiskCache ----------------------------
(* A host disk; a lost volume and an encrypted one on it, neither aligned  *)
(* to units; and on the encrypted one a lost volume and a second encrypted *)
(* one, which gets the id of the first.                                    *)
EXTENDS DiskCache

MCKind == <<"host", "lost", "crypt", "lost", "crypt">>
MCParent == <<0, 1, 1, 3, 3>>
MCStart == <<0, 1, 1, 1, 0>>
MCSize == <<5, 3, 3, 2, 3>>
MCBadSets == {{}, {<<1, 2>>}}
MCIdMod == [host |-> 10, lost |-> 10, crypt |-> 1]
=============================================================================
