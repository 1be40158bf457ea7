----------------------------- MODULE MCDriveSync -----------------------------
(* Small instances of DriveSync for TLC. *)
EXTENDS DriveSync

CONSTANTS f1, f2
TwoFiles == {f1, f2}

(* The second file is blank in its second version, and outgrows the limit   *)
(* of chunks with its third.                                                *)
BlankNext == {<<f2, 2>>}
LongAtLast == {<<f2, 3>>}

(* There are two edits at most, the first file's one alone; and two only    *)
(* where there is no mishap.                                                *)
Edits == drive[f1].version + drive[f2].version - 2

FewEdits == drive[f1].version < 3 /\ Edits < (IF mishaps = 0 THEN 3 ELSE 2)
=============================================================================
