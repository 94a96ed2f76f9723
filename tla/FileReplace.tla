----------------------------- MODULE FileReplace -----------------------------
(***************************************************************************)
(* Replacing a file through a temporary file of a fixed name and a rename: *)
(* statedir.WriteAtomic, symbols.ExtractCache.GetOrExtract and             *)
(* grammars.Install, on one path.  (index.WriteJSON, whose temporary file  *)
(* has a name of its own, is part of IndexStore.)                          *)
(*                                                                         *)
(* A file is an inode with Parts parts; os.WriteFile truncates the file it *)
(* opens and writes part after part, os.ReadFile reads part after part,    *)
(* and both keep hold of the inode they opened whatever its name becomes.  *)
(***************************************************************************)
EXTENDS Naturals, FiniteSets

CONSTANTS
    Writer,    \* callers of WriteAtomic, GetOrExtract or Install
    Cached,    \* those that call GetOrExtract
    Tidy,      \* those that remove the temporary file when writing it fails
    Reader,    \* everybody else who reads the file
    Inode,
    Data,      \* what may be written
    Outcome,   \* Outcome[w]: what w may write
    Parts,     \* parts of a file
    None       \* no inode; a part that is not there

ASSUME FileReplaceAssumption ==
    /\ Cached \subseteq Writer
    /\ Tidy \subseteq Writer
    /\ Writer \cap Reader = {}
    /\ None \notin Inode \cup Data
    /\ Outcome \in [Writer -> SUBSET Data]
    /\ Parts \in Nat \ {0}

Actor == Writer \cup Reader

VARIABLES
    tmp,       \* the inode of <path>.tmp
    dest,      \* the inode of <path>
    content,   \* the parts of each inode
    pc,
    fd,        \* the inode a writer is writing
    data,      \* what it is writing
    rd,        \* the inode an actor is reading
    got,       \* the parts it has read
    pos,       \* the part it reads or writes next
    \* Ghost: inodes that a writer has opened while another one was between
    \* opening the temporary file and renaming it.
    spoiled

names == <<tmp, dest>>
vars == <<tmp, dest, content, pc, fd, data, rd, got, pos, spoiled>>

Part == 1..Parts
Blank == [k \in Part |-> None]
Full(d) == [k \in Part |-> d]
IsWhole(c) == \E d \in Data : c = Full(d)

TypeOK ==
    /\ tmp \in Inode \cup {None}
    /\ dest \in Inode \cup {None}
    /\ content \in [Inode -> [Part -> Data \cup {None}]]
    /\ pc \in [Actor -> {"idle", "read", "open", "write", "rename", "seen"}]
    /\ fd \in [Writer -> Inode \cup {None}]
    /\ data \in [Writer -> Data \cup {None}]
    /\ rd \in [Actor -> Inode \cup {None}]
    /\ got \in [Actor -> [Part -> Data \cup {None}]]
    /\ pos \in [Actor -> 1..Parts + 1]
    /\ spoiled \subseteq Inode

InUse == {tmp, dest} \cup {fd[w] : w \in Writer} \cup {rd[a] : a \in Actor}

\* Writers between opening the temporary file and renaming it.
Replacing == {w \in Writer : pc[w] \in {"write", "rename"}}

-----------------------------------------------------------------------------
(* Reading.                                                                *)

\* (Mutant.) Parts are counted from 0.
PartZero == 0

\* The first part.
FirstPart == 1

\* os.ReadFile opens the file under its name ...
OpenRead(a) ==
    /\ pc[a] = "idle"
    /\ a \in Cached \cup Reader
    /\ dest # None
    /\ rd' = [rd EXCEPT ![a] = dest]
    /\ pos' = [pos EXCEPT ![a] = FirstPart]
    /\ got' = [got EXCEPT ![a] = Blank]
    /\ pc' = [pc EXCEPT ![a] = "read"]
    /\ UNCHANGED <<names, content, fd, data, spoiled>>

\* ... and reads the inode it opened.
ReadPart(a) ==
    /\ pc[a] = "read"
    /\ pos[a] <= Parts
    /\ got' = [got EXCEPT ![a][pos[a]] = content[rd[a]][pos[a]]]
    /\ pos' = [pos EXCEPT ![a] = @ + 1]
    /\ UNCHANGED <<names, content, pc, fd, data, rd, spoiled>>

\* A reader has the file; GetOrExtract has a hit when it parses, and extracts
\* when it does not.
EndRead(a) ==
    /\ pc[a] = "read"
    /\ pos[a] > Parts
    /\ rd' = [rd EXCEPT ![a] = None]
    /\ pos' = [pos EXCEPT ![a] = FirstPart]
    /\ IF a \in Reader
       THEN pc' = [pc EXCEPT ![a] = "seen"] /\ UNCHANGED got
       ELSE /\ pc' = [pc EXCEPT ![a] = IF IsWhole(got[a]) THEN "idle" ELSE "open"]
            /\ got' = [got EXCEPT ![a] = Blank]
    /\ UNCHANGED <<names, content, fd, data, spoiled>>

\* The reader goes on.
Forget(a) ==
    /\ pc[a] = "seen"
    /\ pc' = [pc EXCEPT ![a] = "idle"]
    /\ got' = [got EXCEPT ![a] = Blank]
    /\ UNCHANGED <<names, content, fd, data, rd, pos, spoiled>>

-----------------------------------------------------------------------------
(* Writing.                                                                *)

\* WriteAtomic and Install write whatever is there; GetOrExtract when there is
\* nothing.
Begin(w) ==
    /\ pc[w] = "idle"
    /\ w \in Cached => dest = None
    /\ pc' = [pc EXCEPT ![w] = "open"]
    /\ UNCHANGED <<names, content, fd, data, rd, got, pos, spoiled>>

\* os.WriteFile opens with O_CREATE|O_TRUNC: the file of that name if there is
\* one, whoever is writing it, else a new one.
OpenTemp(w) ==
    /\ pc[w] = "open"
    /\ \E i \in IF tmp = None THEN Inode \ InUse ELSE {tmp} :
         /\ tmp' = i
         /\ fd' = [fd EXCEPT ![w] = i]
         /\ content' = [content EXCEPT ![i] = Blank]
         /\ spoiled' = IF Replacing = {} THEN spoiled \ {i} ELSE spoiled \cup {i}
    /\ \E d \in Outcome[w] : data' = [data EXCEPT ![w] = d]
    /\ pos' = [pos EXCEPT ![w] = FirstPart]
    /\ pc' = [pc EXCEPT ![w] = "write"]
    /\ UNCHANGED <<dest, rd, got>>

\* (Mutant.) The file is renamed before its last part is written.
RenameEarly(w) == pos[w] >= Parts

Written(w) == pos[w] > Parts

WritePart(w) ==
    /\ pc[w] = "write"
    /\ pos[w] <= Parts
    /\ content' = [content EXCEPT ![fd[w]][pos[w]] = data[w]]
    /\ pos' = [pos EXCEPT ![w] = @ + 1]
    /\ UNCHANGED <<names, pc, fd, data, rd, got, spoiled>>

CloseTemp(w) ==
    /\ pc[w] = "write"
    /\ Written(w)
    /\ fd' = [fd EXCEPT ![w] = None]
    /\ pos' = [pos EXCEPT ![w] = FirstPart]
    /\ pc' = [pc EXCEPT ![w] = "rename"]
    /\ UNCHANGED <<names, content, data, rd, got, spoiled>>

Return(w) ==
    /\ pc' = [pc EXCEPT ![w] = "idle"]
    /\ fd' = [fd EXCEPT ![w] = None]
    /\ data' = [data EXCEPT ![w] = None]
    /\ pos' = [pos EXCEPT ![w] = FirstPart]

\* Opening or writing the temporary file failed.  Only WriteAtomic removes it,
\* under its name, whatever has that name by now.
WriteFails(w) ==
    /\ pc[w] \in {"open", "write"}
    /\ tmp' = IF w \in Tidy THEN None ELSE tmp
    /\ Return(w)
    /\ UNCHANGED <<dest, content, rd, got, spoiled>>

Rename(w) ==
    /\ pc[w] = "rename"
    /\ tmp # None
    /\ dest' = tmp
    /\ tmp' = None
    /\ Return(w)
    /\ UNCHANGED <<content, rd, got, spoiled>>

\* The rename fails, for want of a temporary file or otherwise; all three then
\* remove the temporary file.
RenameFails(w) ==
    /\ pc[w] = "rename"
    /\ tmp' = None
    /\ Return(w)
    /\ UNCHANGED <<dest, content, rd, got, spoiled>>

\* The process of w dies; the temporary file stays.
Crash(w) ==
    /\ pc[w] \in {"open", "write", "rename"}
    /\ Return(w)
    /\ UNCHANGED <<names, content, rd, got, spoiled>>

-----------------------------------------------------------------------------
Init ==
    /\ tmp = None
    /\ dest = None
    /\ content = [i \in Inode |-> Blank]
    /\ pc = [a \in Actor |-> "idle"]
    /\ fd = [w \in Writer |-> None]
    /\ data = [w \in Writer |-> None]
    /\ rd = [a \in Actor |-> None]
    /\ got = [a \in Actor |-> Blank]
    /\ pos = [a \in Actor |-> FirstPart]
    /\ spoiled = {}

Read(a) == OpenRead(a) \/ ReadPart(a) \/ EndRead(a) \/ Forget(a)
Write(w) ==
    \/ Begin(w) \/ OpenTemp(w) \/ WritePart(w) \/ CloseTemp(w) \/ WriteFails(w)
    \/ Rename(w) \/ RenameFails(w)

Next ==
    \/ \E a \in Actor : Read(a)
    \/ \E w \in Writer : Write(w) \/ Crash(w)

Spec == Init /\ [][Next]_vars

-----------------------------------------------------------------------------
(* Properties.                                                             *)

\* The published file is whole, at any time, through failures, deaths and
\* restarts of writers, unless two writers met while it was being made.
FileIsWhole == dest # None /\ dest \notin spoiled => IsWhole(content[dest])

\* Whoever reads such a file reads one whole version of it, although it may be
\* replaced while it is being read.
ReadsAreWhole ==
    \A a \in Actor :
        pc[a] = "read" /\ pos[a] > Parts /\ rd[a] \notin spoiled => IsWhole(got[a])

\* What a writer renames into place is what it wrote, all of it, unless it met
\* another writer.
RenamesWhatItWrote ==
    \A w \in Writer :
        pc[w] = "rename" /\ tmp # None /\ tmp \notin spoiled => content[tmp] = Full(data[w])
=============================================================================
