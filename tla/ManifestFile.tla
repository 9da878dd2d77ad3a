---------------------------- MODULE ManifestFile -----------------------------
(***************************************************************************)
(* save_manifest and load_manifest of scripts/psx_ingest.py at the level   *)
(* of the file system: manifest.json.tmp is opened for writing, which      *)
(* truncates it if it is there, written piece by piece, closed, and        *)
(* renamed over manifest.json; a load opens manifest.json and reads it     *)
(* piece by piece.  A file that is open stays readable and writable        *)
(* through its descriptor when its name is given to another file.          *)
(*                                                                         *)
(* A manifest is a value; piece i of a file holds the value whose i-th     *)
(* piece was written there, or Hole.                                       *)
(***************************************************************************)
EXTENDS Integers

CONSTANTS
    Procs,    \* processes that load the manifest
    Writers,  \* those of them that save it too
    Values,   \* manifests
    Inodes,   \* files, whatever their name
    NoInode,  \* a name that no file has
    Hole,     \* a piece that was not written
    Torn,     \* what a file that is not one whole manifest holds
    Size      \* pieces of a manifest, one write each

ASSUME SizeAssumption == Size \in Nat \ {0}
ASSUME NamesAssumption ==
    /\ Writers \subseteq Procs
    /\ NoInode \notin Inodes
    /\ Hole \notin Values
    /\ Torn \notin Values

VARIABLES
    manifest,  \* the file named manifest.json
    tmp,       \* the file named manifest.json.tmp
    data,      \* data[i]: what file i holds
    io         \* io[p]: the save or load process p is in the middle of

vars == <<manifest, tmp, data, io>>

Pieces == 1 .. Size
Content == [Pieces -> Values \cup {Hole}]
Empty == [i \in Pieces |-> Hole]

\* val: the manifest being saved; at: pieces written or read so far; got: the
\* pieces read.
IO == [pc : {"idle", "write", "rename", "read"}, val : Values \cup {Hole},
       file : Inodes \cup {NoInode}, at : 0 .. Size, got : Content]
NoIO == [pc |-> "idle", val |-> Hole, file |-> NoInode, at |-> 0, got |-> Empty]

Whole(c, v) == \A i \in Pieces : c[i] = v

\* json.load: the manifest a content is, or Torn, on which it raises.
Decode(c) == IF \E v \in Values : Whole(c, v)
             THEN CHOOSE v \in Values : Whole(c, v)
             ELSE Torn

TypeOK ==
    /\ manifest \in Inodes \cup {NoInode}
    /\ tmp \in Inodes \cup {NoInode}
    /\ data \in [Inodes -> Content]
    /\ io \in [Procs -> IO]

Init ==
    /\ manifest = NoInode
    /\ tmp = NoInode
    /\ data = [i \in Inodes |-> Empty]
    /\ io = [p \in Procs |-> NoIO]

-----------------------------------------------------------------------------
(* save_manifest *)

\* A file that has no name and that nobody has open.
Fresh(i) == i \notin {manifest, tmp} /\ \A p \in Procs : io[p].file # i

\* Mutant: manifest.json itself is opened for writing.
OpenInPlace(p, v) ==
    /\ io[p].pc = "idle"
    /\ \E i \in Inodes :
         /\ IF manifest = NoInode THEN Fresh(i) ELSE i = manifest
         /\ manifest' = i
         /\ data' = [data EXCEPT ![i] = Empty]
         /\ io' = [io EXCEPT ![p] =
                     [NoIO EXCEPT !.pc = "write", !.val = v, !.file = i]]
    /\ UNCHANGED tmp

\* open(tmp, "w")
OpenTmp(p, v) ==
    /\ io[p].pc = "idle"
    /\ \E i \in Inodes :
         /\ IF tmp = NoInode THEN Fresh(i) ELSE i = tmp
         /\ tmp' = i
         /\ data' = [data EXCEPT ![i] = Empty]
         /\ io' = [io EXCEPT ![p] =
                     [NoIO EXCEPT !.pc = "write", !.val = v, !.file = i]]
    /\ UNCHANGED manifest

\* One write of json.dump, of those the file gets before it is renamed.
WritePieceOf(p, pieces) ==
    /\ io[p].pc = "write"
    /\ data' = [data EXCEPT ![io[p].file][io[p].at + 1] = io[p].val]
    /\ io' = [io EXCEPT ![p].at = @ + 1,
                        ![p].pc = IF io[p].at + 1 = pieces THEN "rename" ELSE @]
    /\ UNCHANGED <<manifest, tmp>>

\* Mutant: the rename comes before the file is closed.
WritePieceUnclosed(p) == WritePieceOf(p, Size - 1)

\* Mutant: one piece too many.
WritePieceBeyond(p) == WritePieceOf(p, Size + 1)

\* json.dump's writes reach the file before it is closed, hence before the
\* rename: all pieces of the manifest, and none beyond.
WritePiece(p) == WritePieceOf(p, Size)

\* The rename moves whatever file has the name by now; without one it raises
\* FileNotFoundError.
Rename(p) ==
    /\ io[p].pc = "rename"
    /\ IF tmp = NoInode THEN UNCHANGED <<manifest, tmp>>
       ELSE manifest' = tmp /\ tmp' = NoInode
    /\ io' = [io EXCEPT ![p] = NoIO]
    /\ UNCHANGED data

-----------------------------------------------------------------------------
(* load_manifest *)

\* A manifest that does not exist is returned as {} at once.
OpenManifest(p) ==
    /\ io[p].pc = "idle"
    /\ manifest # NoInode
    /\ io' = [io EXCEPT ![p] = [NoIO EXCEPT !.pc = "read", !.file = manifest]]
    /\ UNCHANGED <<manifest, tmp, data>>

ReadPiece(p) ==
    /\ io[p].pc = "read"
    /\ io[p].at < Size
    /\ io' = [io EXCEPT ![p].at = @ + 1,
                        ![p].got[io[p].at + 1] = data[io[p].file][io[p].at + 1]]
    /\ UNCHANGED <<manifest, tmp, data>>

\* json.load returns, or raises.
EndLoad(p) ==
    /\ io[p].pc = "read"
    /\ io[p].at = Size
    /\ io' = [io EXCEPT ![p] = NoIO]
    /\ UNCHANGED <<manifest, tmp, data>>

-----------------------------------------------------------------------------

\* The process is killed: its descriptor is closed, the files stay.
Crash(p) ==
    /\ io[p].pc # "idle"
    /\ io' = [io EXCEPT ![p] = NoIO]
    /\ UNCHANGED <<manifest, tmp, data>>

Step(p) ==
    \/ p \in Writers /\ \E v \in Values : OpenTmp(p, v)
    \/ WritePiece(p)
    \/ Rename(p)
    \/ OpenManifest(p)
    \/ ReadPiece(p)
    \/ EndLoad(p)
    \/ Crash(p)

Next == \E p \in Procs : Step(p)

Spec == Init /\ [][Next]_vars

-----------------------------------------------------------------------------
(* Properties *)

(***************************************************************************)
(* A load that has read to the end has read one whole manifest, never      *)
(* pieces of two or a file that was still being written: json.load in      *)
(* load_manifest does not raise, whatever is saved or killed meanwhile.    *)
(***************************************************************************)
LoadNotTorn ==
    \A p \in Procs : io[p].pc = "read" /\ io[p].at = Size =>
        Decode(io[p].got) # Torn

\* Hole stands for the register's Absent.
Register == INSTANCE ManifestRegister WITH
    Absent <- Hole,
    value <- IF manifest = NoInode THEN Hole ELSE Decode(data[manifest]),
    view <- [p \in Procs |-> IF io[p].pc = "read"
                             THEN Decode(data[io[p].file]) ELSE Hole]

(***************************************************************************)
(* With one writer the two files behave as one register that is replaced   *)
(* at once, and a load in progress keeps the value it was opened on.       *)
(***************************************************************************)
ImplementsRegister == Register!RegisterSpec

=============================================================================
