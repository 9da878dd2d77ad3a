-------------------------- MODULE ManifestFileProofs --------------------------
(***************************************************************************)
(* LoadNotTorn, and the refinement of ManifestRegister, for one writer and *)
(* any number of readers, manifests, files and writes per manifest.        *)
(***************************************************************************)
EXTENDS ManifestFile, TLAPS

OneWriter == \A p, q \in Writers : p = q

HoldsManifest(i) == \E v \in Values : Whole(data[i], v)

\* The file that has the name is complete, and is not the one being written.
NamedWhole ==
    /\ manifest # NoInode => HoldsManifest(manifest)
    /\ tmp # NoInode => tmp # manifest

\* A save in progress is the writer's, in manifest.json.tmp, in order.
SaveUnderWay ==
    \A p \in Procs : io[p].pc \in {"write", "rename"} =>
        /\ p \in Writers
        /\ tmp # NoInode /\ io[p].file = tmp
        /\ io[p].val \in Values
        /\ \A i \in 1 .. io[p].at : data[tmp][i] = io[p].val
        /\ io[p].pc = "write" => io[p].at < Size
        /\ io[p].pc = "rename" => io[p].at = Size

\* A load keeps the complete file it has opened, whatever its name is by now.
LoadUnderWay ==
    \A p \in Procs : io[p].pc = "read" =>
        /\ io[p].file # NoInode /\ io[p].file # tmp
        /\ HoldsManifest(io[p].file)
        /\ \A i \in 1 .. io[p].at : io[p].got[i] = data[io[p].file][i]

FileInv == TypeOK /\ NamedWhole /\ SaveUnderWay /\ LoadUnderWay

-----------------------------------------------------------------------------
(* What is decoded of a complete file is a manifest.                           *)
LEMMA WholeDecodes ==
    ASSUME NEW c, \E v \in Values : Whole(c, v)
    PROVE  Decode(c) \in Values /\ Decode(c) # Torn /\ Decode(c) # Hole
BY NamesAssumption DEF Decode

LEMMA FileInitially == Init => FileInv
BY SizeAssumption
   DEF Init, NoIO, Empty, FileInv, TypeOK, IO, Content, Pieces, NamedWhole, SaveUnderWay,
       LoadUnderWay

(* A process begins a save.                                                    *)
LEMMA NewSave ==
    ASSUME NEW v \in Values, NEW i \in Inodes
    PROVE  [NoIO EXCEPT !.pc = "write", !.val = v, !.file = i] \in IO
<1>1. NoIO \in IO
  BY SizeAssumption DEF NoIO, IO, Content, Empty
<1>2. \A t \in IO : [t EXCEPT !.pc = "write", !.val = v, !.file = i] \in IO
  BY DEF IO
<1> QED
  BY <1>1, <1>2

(* Only the writer's own process saves, and it is in one step at a time.       *)
LEMMA NoOtherSave ==
    ASSUME OneWriter, FileInv, NEW p \in Writers, NEW q \in Procs \ {p}
    PROVE  io[q].pc \notin {"write", "rename"}
BY DEF OneWriter, FileInv, SaveUnderWay

LEMMA OpenTmpStep ==
    ASSUME OneWriter, FileInv, NEW p \in Procs, p \in Writers, NEW v \in Values,
           OpenTmp(p, v)
    PROVE  /\ FileInv'
           /\ UNCHANGED manifest
           /\ manifest # NoInode => UNCHANGED data[manifest]
           /\ \A q \in Procs : io'[q].pc = "read" <=> io[q].pc = "read"
           /\ \A q \in Procs : io[q].pc = "read" => UNCHANGED <<io[q], data[io[q].file]>>
<1>0. TypeOK /\ NamedWhole /\ LoadUnderWay
  BY DEF FileInv
<1>1. PICK i \in Inodes :
        /\ IF tmp = NoInode THEN Fresh(i) ELSE i = tmp
        /\ tmp' = i
        /\ data' = [data EXCEPT ![i] = Empty]
        /\ io' = [io EXCEPT ![p] = [NoIO EXCEPT !.pc = "write", !.val = v, !.file = i]]
  BY DEF OpenTmp
<1>2. UNCHANGED manifest /\ io[p].pc = "idle"
  BY DEF OpenTmp
<1>3. i # manifest /\ \A q \in Procs : io[q].pc = "read" => io[q].file # i
  BY <1>0, <1>1 DEF NamedWhole, LoadUnderWay, Fresh
<1>4. i # NoInode
  BY NamesAssumption
<1>5. /\ \A j \in Inodes \ {i} : data'[j] = data[j]
      /\ \A q \in Procs \ {p} : io'[q] = io[q]
      /\ io'[p].pc = "write" /\ io'[p].val = v /\ io'[p].file = i /\ io'[p].at = 0
  BY <1>0, <1>1 DEF TypeOK, NoIO
<1>6. TypeOK'
  <2>1. Empty \in Content
    BY DEF Empty, Content
  <2>2. [NoIO EXCEPT !.pc = "write", !.val = v, !.file = i] \in IO
    BY NewSave
  <2> QED
    BY <1>0, <1>1, <1>2, <2>1, <2>2 DEF TypeOK
<1>7. NamedWhole'
  BY <1>0, <1>1, <1>2, <1>3, <1>5 DEF NamedWhole, HoldsManifest, TypeOK
<1>8. SaveUnderWay'
  <2>1. \A q \in Procs \ {p} : io'[q].pc \notin {"write", "rename"}
    BY <1>5, NoOtherSave
  <2> QED
    BY <1>1, <1>4, <1>5, <2>1, SizeAssumption DEF SaveUnderWay
<1>9. \A q \in Procs : io[q].pc = "read" =>
        io'[q] = io[q] /\ data'[io[q].file] = data[io[q].file]
  BY <1>0, <1>2, <1>3, <1>5 DEF TypeOK, IO, LoadUnderWay
<1>10. \A q \in Procs : io'[q].pc = "read" <=> io[q].pc = "read"
  BY <1>2, <1>5
<1>11. LoadUnderWay'
  BY <1>0, <1>1, <1>3, <1>9, <1>10 DEF LoadUnderWay, HoldsManifest
<1>12. manifest # NoInode => data'[manifest] = data[manifest]
  BY <1>0, <1>3, <1>5 DEF TypeOK
<1> QED
  BY <1>2, <1>6, <1>7, <1>8, <1>9, <1>10, <1>11, <1>12 DEF FileInv

LEMMA WritePieceStep ==
    ASSUME OneWriter, FileInv, NEW p \in Procs, WritePiece(p)
    PROVE  /\ FileInv'
           /\ UNCHANGED manifest
           /\ manifest # NoInode => UNCHANGED data[manifest]
           /\ \A q \in Procs : io'[q].pc = "read" <=> io[q].pc = "read"
           /\ \A q \in Procs : io[q].pc = "read" => UNCHANGED <<io[q], data[io[q].file]>>
<1> DEFINE f == io[p].file
           n == io[p].at + 1
<1>0. TypeOK /\ NamedWhole /\ SaveUnderWay /\ LoadUnderWay
  BY DEF FileInv
<1>1. /\ io[p].pc = "write" /\ UNCHANGED <<manifest, tmp>>
      /\ data' = [data EXCEPT ![f][n] = io[p].val]
      /\ io' = [io EXCEPT ![p].at = @ + 1,
                          ![p].pc = IF io[p].at + 1 = Size THEN "rename" ELSE @]
  BY DEF WritePiece, WritePieceOf
<1>2. /\ p \in Writers /\ f = tmp /\ tmp # NoInode /\ io[p].val \in Values
      /\ io[p].at < Size
      /\ \A i \in 1 .. io[p].at : data[tmp][i] = io[p].val
  BY <1>0, <1>1 DEF SaveUnderWay
<1>3. io[p] \in IO /\ io[p].at \in 0 .. Size /\ tmp \in Inodes /\ data[tmp] \in Content
  BY <1>0, <1>2 DEF TypeOK, IO
<1>4. n \in Pieces /\ n \in 1 .. Size
  BY <1>2, <1>3, SizeAssumption DEF Pieces
<1>5. /\ data' = [data EXCEPT ![tmp] = [data[tmp] EXCEPT ![n] = io[p].val]]
      /\ \A j \in Inodes \ {tmp} : data'[j] = data[j]
      /\ data'[tmp] = [data[tmp] EXCEPT ![n] = io[p].val]
  BY <1>0, <1>1, <1>2, <1>3 DEF TypeOK
<1>6. /\ \A q \in Procs \ {p} : io'[q] = io[q]
      /\ io'[p].pc = (IF n = Size THEN "rename" ELSE "write")
      /\ io'[p].at = n /\ io'[p].file = tmp /\ io'[p].val = io[p].val
      /\ io'[p] = [io[p] EXCEPT !.at = n, !.pc = IF n = Size THEN "rename" ELSE "write"]
  BY <1>0, <1>1, <1>2, <1>3 DEF TypeOK, IO
<1>7. TypeOK'
  <2>1. [data[tmp] EXCEPT ![n] = io[p].val] \in Content
    BY <1>2, <1>3, <1>4 DEF Content
  <2>2. [io[p] EXCEPT !.at = n, !.pc = IF n = Size THEN "rename" ELSE "write"] \in IO
    <3>1. n \in 0 .. Size
      BY <1>4
    <3>2. \A pc \in {"rename", "write"} : [io[p] EXCEPT !.at = n, !.pc = pc] \in IO
      BY <1>3, <3>1 DEF IO
    <3> QED
      BY <3>2
  <2>3. io' \in [Procs -> IO]
    BY <1>0, <1>1, <1>6, <2>2 DEF TypeOK
  <2>4. data' \in [Inodes -> Content]
    BY <1>0, <1>5, <2>1 DEF TypeOK
  <2> QED
    BY <1>0, <1>1, <2>3, <2>4 DEF TypeOK
<1>8. manifest # NoInode => data'[manifest] = data[manifest]
  BY <1>0, <1>2, <1>5 DEF TypeOK, NamedWhole
<1>9. NamedWhole'
  BY <1>0, <1>1, <1>8 DEF NamedWhole, HoldsManifest
<1>10. SaveUnderWay'
  <2>1. \A q \in Procs \ {p} : io'[q].pc \notin {"write", "rename"}
    BY <1>2, <1>6, NoOtherSave
  <2>2. ASSUME NEW i \in 1 .. n PROVE data'[tmp][i] = io[p].val
    <3>1. i \in Pieces /\ (i = n \/ i \in 1 .. io[p].at)
      BY <1>3, <1>4, SizeAssumption DEF Pieces
    <3> QED
      BY <1>2, <1>3, <1>4, <1>5, <3>1 DEF Content
  <2>3. n # Size => n < Size
    BY <1>4, SizeAssumption
  <2>4. SUFFICES ASSUME NEW q \in Procs, io'[q].pc \in {"write", "rename"}
                 PROVE  /\ q \in Writers
                        /\ tmp' # NoInode /\ io'[q].file = tmp'
                        /\ io'[q].val \in Values
                        /\ \A i \in 1 .. io'[q].at : data'[tmp'][i] = io'[q].val
                        /\ io'[q].pc = "write" => io'[q].at < Size
                        /\ io'[q].pc = "rename" => io'[q].at = Size
    BY DEF SaveUnderWay
  <2>5. q = p
    BY <2>1, <2>4
  <2>6. \A i \in 1 .. io'[p].at : data'[tmp'][i] = io'[p].val
    BY <1>1, <1>6, <2>2
  <2>7. /\ io'[p].pc = "write" => io'[p].at < Size
        /\ io'[p].pc = "rename" => io'[p].at = Size
    BY <1>6, <2>3
  <2> QED
    BY <1>1, <1>2, <1>6, <2>5, <2>6, <2>7
<1>11. \A q \in Procs : io'[q].pc = "read" <=> io[q].pc = "read"
  <2>1. io'[p].pc # "read" /\ io[p].pc # "read"
    BY <1>1, <1>6
  <2> QED
    BY <1>6, <2>1
<1>12. \A q \in Procs : io[q].pc = "read" =>
         io'[q] = io[q] /\ data'[io[q].file] = data[io[q].file]
  BY <1>0, <1>1, <1>5, <1>6 DEF LoadUnderWay, TypeOK, IO
<1>13. LoadUnderWay'
  <2>1. SUFFICES ASSUME NEW q \in Procs, io'[q].pc = "read"
                 PROVE  /\ io'[q].file # NoInode /\ io'[q].file # tmp'
                        /\ \E v \in Values : Whole(data'[io'[q].file], v)
                        /\ \A i \in 1 .. io'[q].at : io'[q].got[i] = data'[io'[q].file][i]
    BY DEF LoadUnderWay, HoldsManifest
  <2>2. io[q].pc = "read"
    BY <1>11, <2>1
  <2>3. io'[q] = io[q] /\ data'[io[q].file] = data[io[q].file] /\ tmp' = tmp
    BY <1>1, <1>12, <2>2
  <2>4. /\ io[q].file # NoInode /\ io[q].file # tmp
        /\ HoldsManifest(io[q].file)
        /\ \A i \in 1 .. io[q].at : io[q].got[i] = data[io[q].file][i]
    BY <1>0, <2>2 DEF LoadUnderWay
  <2> QED
    BY <2>3, <2>4 DEF HoldsManifest
<1> QED
  BY <1>1, <1>7, <1>8, <1>9, <1>10, <1>11, <1>12, <1>13 DEF FileInv

LEMMA RenameStep ==
    ASSUME OneWriter, FileInv, NEW p \in Procs, Rename(p)
    PROVE  /\ FileInv'
           /\ manifest' # NoInode /\ HoldsManifest(manifest)' /\ UNCHANGED data
           /\ \A q \in Procs : io'[q].pc = "read" <=> io[q].pc = "read"
           /\ \A q \in Procs : io[q].pc = "read" => UNCHANGED io[q]
<1>0. TypeOK /\ NamedWhole /\ SaveUnderWay /\ LoadUnderWay
  BY DEF FileInv
<1>1. /\ p \in Writers /\ tmp # NoInode /\ io[p].val \in Values
      /\ \A i \in Pieces : data[tmp][i] = io[p].val
  BY <1>0 DEF Rename, SaveUnderWay, Pieces
<1>2. /\ io[p].pc = "rename" /\ manifest' = tmp /\ tmp' = NoInode
      /\ io' = [io EXCEPT ![p] = NoIO] /\ UNCHANGED data
  BY <1>1 DEF Rename
<1>3. /\ \A q \in Procs \ {p} : io'[q] = io[q]
      /\ io'[p].pc = "idle"
  BY <1>0, <1>2 DEF TypeOK, NoIO
<1>4. NoIO \in IO
  BY SizeAssumption DEF NoIO, IO, Content, Empty
<1>5. TypeOK'
  BY <1>0, <1>2, <1>4 DEF TypeOK
<1>6. HoldsManifest(manifest)'
  BY <1>1, <1>2 DEF HoldsManifest, Whole
<1>7. SaveUnderWay'
  BY <1>1, <1>3, NoOtherSave DEF SaveUnderWay
<1>8. \A q \in Procs : io'[q].pc = "read" <=> io[q].pc = "read"
  BY <1>2, <1>3
<1>9. LoadUnderWay'
  BY <1>0, <1>2, <1>3, <1>8 DEF LoadUnderWay, HoldsManifest
<1> QED
  BY <1>1, <1>2, <1>3, <1>5, <1>6, <1>7, <1>8, <1>9 DEF FileInv, NamedWhole

(* A load, and a kill, write no file: they change one process only.            *)
LEMMA ProcessStep ==
    ASSUME FileInv, NEW p \in Procs, NEW t \in IO,
           UNCHANGED <<manifest, tmp, data>>, io' = [io EXCEPT ![p] = t],
           t.pc \notin {"write", "rename"},
           t.pc = "read" =>
             /\ t.file # NoInode /\ t.file # tmp /\ HoldsManifest(t.file)
             /\ \A i \in 1 .. t.at : t.got[i] = data[t.file][i]
    PROVE  FileInv'
<1>1. /\ TypeOK' /\ NamedWhole'
      /\ io'[p] = t /\ \A q \in Procs \ {p} : io'[q] = io[q]
  BY DEF FileInv, TypeOK, NamedWhole, HoldsManifest
<1>2. SaveUnderWay'
  BY <1>1 DEF FileInv, SaveUnderWay
<1>3. LoadUnderWay'
  BY <1>1 DEF FileInv, LoadUnderWay, HoldsManifest
<1> QED
  BY <1>1, <1>2, <1>3 DEF FileInv

LEMMA NoIOTyped == NoIO \in IO /\ NoIO.pc = "idle" /\ NoIO.at = 0 /\ Empty \in Content
BY SizeAssumption DEF NoIO, IO, Content, Empty

LEMMA OpenManifestStep ==
    ASSUME FileInv, NEW p \in Procs, OpenManifest(p)
    PROVE  FileInv' /\ io'[p].pc = "read" /\ io'[p].file = manifest
<1> DEFINE t == [NoIO EXCEPT !.pc = "read", !.file = manifest]
<1>1. /\ manifest \in Inodes /\ manifest # tmp /\ manifest # NoInode
      /\ HoldsManifest(manifest)
      /\ UNCHANGED <<manifest, tmp, data>> /\ io' = [io EXCEPT ![p] = t]
  BY DEF OpenManifest, FileInv, TypeOK, NamedWhole
<1>2. t \in IO /\ t.pc = "read" /\ t.file = manifest /\ t.at = 0
  BY <1>1, NoIOTyped DEF NoIO, IO
<1>3. io'[p] = t
  BY <1>1 DEF FileInv, TypeOK
<1> HIDE DEF t
<1>4. \A i \in 1 .. t.at : t.got[i] = data[t.file][i]
  BY <1>2
<1>5. FileInv'
  BY <1>1, <1>2, <1>4, ProcessStep
<1> QED
  BY <1>2, <1>3, <1>5

LEMMA ReadPieceStep ==
    ASSUME FileInv, NEW p \in Procs, ReadPiece(p)
    PROVE  FileInv' /\ io'[p].pc = "read" /\ io'[p].file = io[p].file
<1> DEFINE f == io[p].file
           n == io[p].at + 1
           t == [io[p] EXCEPT !.at = n, !.got = [io[p].got EXCEPT ![n] = data[f][n]]]
<1>1. /\ io[p].pc = "read" /\ io[p].at < Size /\ UNCHANGED <<manifest, tmp, data>>
      /\ io' = [io EXCEPT ![p].at = @ + 1, ![p].got[io[p].at + 1] = data[f][n]]
  BY DEF ReadPiece
<1>2. /\ f # NoInode /\ f # tmp /\ HoldsManifest(f)
      /\ \A i \in 1 .. io[p].at : io[p].got[i] = data[f][i]
  BY <1>1 DEF FileInv, LoadUnderWay
<1>3. io[p] \in IO /\ io \in [Procs -> IO] /\ f \in Inodes /\ data[f] \in Content
  BY <1>2 DEF FileInv, TypeOK, IO
<1>4. n \in Pieces /\ n \in 0 .. Size /\ n \in 1 .. Size
  BY <1>1, <1>3, SizeAssumption DEF IO, Pieces
<1>5. io[p].got \in Content /\ [io[p].got EXCEPT ![n] = data[f][n]] \in Content
  BY <1>3, <1>4 DEF IO, Content
<1>6. t \in IO /\ t.pc = "read" /\ t.file = f /\ t.at = n
      /\ t.got = [io[p].got EXCEPT ![n] = data[f][n]]
  BY <1>1, <1>3, <1>4, <1>5 DEF IO
<1>7. io' = [io EXCEPT ![p] = t] /\ io'[p] = t
  BY <1>1, <1>3 DEF IO
<1>8. ASSUME NEW i \in 1 .. n PROVE t.got[i] = data[f][i]
  <2>1. i \in Pieces /\ (i = n \/ i \in 1 .. io[p].at)
    BY <1>3, <1>4, SizeAssumption DEF Pieces, IO
  <2> QED
    BY <1>2, <1>4, <1>5, <1>6, <2>1 DEF Content
<1> HIDE DEF t
<1>9. \A i \in 1 .. t.at : t.got[i] = data[t.file][i]
  BY <1>6, <1>8
<1>10. FileInv'
  BY <1>1, <1>2, <1>6, <1>7, <1>9, ProcessStep
<1> QED
  BY <1>6, <1>7, <1>10

LEMMA EndStep ==
    ASSUME FileInv, NEW p \in Procs, EndLoad(p) \/ Crash(p)
    PROVE  FileInv' /\ io'[p].pc = "idle"
<1>1. UNCHANGED <<manifest, tmp, data>> /\ io' = [io EXCEPT ![p] = NoIO]
  BY DEF EndLoad, Crash
<1>2. io'[p] = NoIO
  BY <1>1 DEF FileInv, TypeOK
<1> QED
  BY <1>1, <1>2, NoIOTyped, ProcessStep

LEMMA FileInvariant ==
    ASSUME OneWriter
    PROVE  Spec => []FileInv
<1>1. ASSUME FileInv, [Next]_vars PROVE FileInv'
  <2>1. CASE UNCHANGED vars
    BY <1>1, <2>1
       DEF vars, FileInv, TypeOK, NamedWhole, SaveUnderWay, LoadUnderWay, HoldsManifest
  <2>2. ASSUME NEW p \in Procs, Step(p) PROVE FileInv'
    BY <1>1, <2>2, OpenTmpStep, WritePieceStep, RenameStep, OpenManifestStep,
       ReadPieceStep, EndStep DEF Step
  <2> QED
    BY <1>1, <2>1, <2>2 DEF Next
<1> QED
  BY <1>1, FileInitially, PTL DEF Spec

-----------------------------------------------------------------------------
(***************************************************************************)
(* With one writer every reachable state is well typed: no save writes     *)
(* beyond the end of its manifest or to a file it has not opened.          *)
(***************************************************************************)
THEOREM FileTypeCorrect ==
    ASSUME OneWriter
    PROVE  Spec => []TypeOK
BY FileInvariant, PTL DEF FileInv

(***************************************************************************)
(* With one writer, no load that has read to the end is torn, for any      *)
(* number of readers and kills and any size of the manifest.               *)
(***************************************************************************)
THEOREM LoadsWhole ==
    ASSUME OneWriter
    PROVE  Spec => []LoadNotTorn
<1>1. ASSUME FileInv PROVE LoadNotTorn
  <2>1. SUFFICES ASSUME NEW p \in Procs, io[p].pc = "read", io[p].at = Size
                 PROVE  Decode(io[p].got) # Torn
    BY DEF LoadNotTorn
  <2>2. PICK v \in Values : Whole(data[io[p].file], v)
    BY <1>1, <2>1 DEF FileInv, LoadUnderWay, HoldsManifest
  <2>3. Whole(io[p].got, v)
    BY <1>1, <2>1, <2>2 DEF FileInv, LoadUnderWay, Whole, Pieces
  <2> QED
    BY <2>3, WholeDecodes
<1> QED
  BY <1>1, FileInvariant, PTL

(***************************************************************************)
(* With one writer the two files implement the register of                 *)
(* ManifestRegister: a rename puts a value, an open looks it up, and every *)
(* other step of a save or a load is invisible.                            *)
(***************************************************************************)
THEOREM FilesImplementRegister ==
    ASSUME OneWriter
    PROVE  Spec => ImplementsRegister
<1> DEFINE value == IF manifest = NoInode THEN Hole ELSE Decode(data[manifest])
           seen(q) == IF io[q].pc = "read" THEN Decode(data[io[q].file]) ELSE Hole
           view == [q \in Procs |-> seen(q)]
<1>1. Init => Register!RegisterInit
  BY DEF Init, NoIO, Register!RegisterInit
<1>2. ASSUME FileInv, [Next]_vars
      PROVE  [Register!RegisterNext]_(Register!registerVars)
  <2>1. ASSUME value' = value, view' = view
        PROVE  UNCHANGED Register!registerVars
    BY <2>1 DEF Register!registerVars
  <2>2. CASE UNCHANGED vars
    BY <2>1, <2>2 DEF vars
  <2>3. ASSUME NEW p \in Procs, p \in Writers, NEW v \in Values, OpenTmp(p, v)
        PROVE  UNCHANGED Register!registerVars
    BY <1>2, <2>1, <2>3, OpenTmpStep
  <2>4. ASSUME NEW p \in Procs, WritePiece(p)
        PROVE  UNCHANGED Register!registerVars
    BY <1>2, <2>1, <2>4, WritePieceStep
  <2>5. ASSUME NEW p \in Procs, Rename(p)
        PROVE  Register!RegisterNext
    <3>1. value' \in Values
      BY <1>2, <2>5, RenameStep, WholeDecodes DEF HoldsManifest
    <3>2. view' = view
      BY <1>2, <2>5, RenameStep
    <3> QED
      BY <3>1, <3>2 DEF Register!RegisterNext, Register!Put
  <2>6. ASSUME NEW p \in Procs, OpenManifest(p)
        PROVE  Register!RegisterNext
    <3>1. value # Hole
      BY <1>2, <2>6, WholeDecodes DEF OpenManifest, FileInv, NamedWhole, HoldsManifest
    <3>2. value' = value
      BY <2>6 DEF OpenManifest
    <3>3. view' = [view EXCEPT ![p] = value]
      <4>1. \A q \in Procs \ {p} : seen(q)' = seen(q)
        BY <1>2, <2>6 DEF OpenManifest, FileInv, TypeOK
      <4>2. seen(p)' = value
        <5>1. io'[p].pc = "read" /\ io'[p].file = manifest
          BY <1>2, <2>6, OpenManifestStep
        <5>2. data' = data /\ manifest # NoInode
          BY <2>6 DEF OpenManifest
        <5> QED
          BY <5>1, <5>2
      <4> HIDE DEF value, seen
      <4> QED
        BY <4>1, <4>2
    <3> QED
      BY <3>1, <3>2, <3>3 DEF Register!RegisterNext, Register!Look
  <2>7. ASSUME NEW p \in Procs, ReadPiece(p)
        PROVE  UNCHANGED Register!registerVars
    <3>1. UNCHANGED <<manifest, data>> /\ io[p].pc = "read"
      BY <2>7 DEF ReadPiece
    <3>2. \A q \in Procs \ {p} : io'[q] = io[q]
      BY <1>2, <2>7 DEF ReadPiece, FileInv, TypeOK
    <3>3. \A q \in Procs : seen(q)' = seen(q)
      BY <1>2, <2>7, <3>1, <3>2, ReadPieceStep
    <3> QED
      BY <2>1, <3>1, <3>3
  <2>8. ASSUME NEW p \in Procs, EndLoad(p) \/ Crash(p)
        PROVE  Register!RegisterNext
    <3>1. value' = value
      BY <2>8 DEF EndLoad, Crash
    <3>2. view' = [view EXCEPT ![p] = Hole]
      BY <1>2, <2>8, EndStep DEF EndLoad, Crash, FileInv, TypeOK
    <3> QED
      BY <3>1, <3>2 DEF Register!RegisterNext, Register!Done
  <2> QED
    BY <1>2, <2>2, <2>3, <2>4, <2>5, <2>6, <2>7, <2>8 DEF Next, Step
<1> QED
  BY <1>1, <1>2, FileInvariant, PTL DEF Spec, ImplementsRegister, Register!RegisterSpec

=============================================================================
