---------------------------- MODULE MCFileTransfer ----------------------------
(* The values TLC gives to the constants of FileTransfer. *)
EXTENDS FileTransfer

CONSTANTS x, y, t1, t2

File(n, s) == [name |-> n, size |-> s, regular |-> TRUE]
Folder(n) == [name |-> n, size |-> 0, regular |-> FALSE]

\* Two files and a directory between them; one file; only a directory; two
\* files of the same name.
MCRequests == {<<File(x, 1), Folder(y), File(y, 2)>>, <<File(x, 1)>>,
               <<Folder(x)>>, <<File(y, 1), File(y, 1)>>}
\* A regular file of no bytes.
EmptyRequests == {<<File(x, 1), File(y, 0)>>}
MCExisting == {<<x, 1>>}
=============================================================================
