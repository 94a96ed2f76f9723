------------------------- MODULE FileReplaceProofs -------------------------
(***************************************************************************)
(* Theorems about FileReplace, for any number of writers and readers and   *)
(* files of any length.                                                    *)
(***************************************************************************)
EXTENDS FileReplace, TLAPS

\* A choice the writers make lies in Data.
LEMMA OutcomeIsData == \A w \in Writer : \A d \in Outcome[w] : d \in Data
  BY FileReplaceAssumption

\* None is not an inode, and the first part is one of the positions.
LEMMA ConstantFacts ==
    /\ \A i \in Inode : i # None
    /\ Writer \subseteq Actor
    /\ FirstPart \in 1..Parts + 1
    /\ Blank \in [Part -> Data \cup {None}]
  BY FileReplaceAssumption DEF Actor, FirstPart, Blank, Part

\* A writer that returns keeps its local variables well typed.
LEMMA ReturnType ==
    ASSUME TypeOK, NEW w \in Writer, Return(w)
    PROVE  /\ pc' \in [Actor -> {"idle", "read", "open", "write", "rename", "seen"}]
           /\ fd' \in [Writer -> Inode \cup {None}]
           /\ data' \in [Writer -> Data \cup {None}]
           /\ pos' \in [Actor -> 1..Parts + 1]
  BY ConstantFacts DEF TypeOK, Return

\* An actor holds an inode open exactly while it reads or writes it, and knows
\* what it writes until it has renamed it.
Handles ==
    /\ \A a \in Actor : rd[a] # None <=> pc[a] = "read"
    /\ \A w \in Writer : fd[w] # None <=> pc[w] = "write"
    /\ \A w \in Replacing : data[w] \in Data

LEMMA HandlesInit == Init => TypeOK /\ Handles
  BY ConstantFacts DEF Init, TypeOK, Handles, Replacing, Actor

\* TypeOK is inductive only together with Handles: a read of no inode would
\* give nothing TypeOK knows of.
LEMMA HandlesStep == TypeOK /\ Handles /\ [Next]_vars => TypeOK' /\ Handles'
<1> SUFFICES ASSUME TypeOK, Handles, [Next]_vars PROVE TypeOK' /\ Handles'
  OBVIOUS
<1> USE ConstantFacts DEF TypeOK, Handles, Replacing
<1>1. ASSUME NEW a \in Actor, OpenRead(a) PROVE TypeOK' /\ Handles'
  BY <1>1 DEF OpenRead, names
<1>2. ASSUME NEW a \in Actor, ReadPart(a) PROVE TypeOK' /\ Handles'
  <2>1. pos[a] \in Part /\ pos[a] + 1 \in 1..Parts + 1
    BY <1>2, FileReplaceAssumption DEF ReadPart, Part
  <2>2. content[rd[a]][pos[a]] \in Data \cup {None}
    BY <1>2, <2>1 DEF ReadPart
  <2>3. got' \in [Actor -> [Part -> Data \cup {None}]]
    BY <1>2, <2>1, <2>2 DEF ReadPart
  <2>4. QED
    BY <1>2, <2>1, <2>3 DEF ReadPart, names
<1>3. ASSUME NEW a \in Actor, EndRead(a) PROVE TypeOK' /\ Handles'
  <2>1. CASE a \in Reader
    <3>1. pc' = [pc EXCEPT ![a] = "seen"] /\ UNCHANGED got
      BY <1>3, <2>1 DEF EndRead
    <3>2. TypeOK'
      BY <1>3, <3>1 DEF EndRead, names
    <3>3. Handles'
      BY <1>3, <3>1 DEF EndRead
    <3>4. QED
      BY <3>2, <3>3
  <2>2. CASE a \notin Reader
    <3>1. PICK next \in {"idle", "open"} : pc' = [pc EXCEPT ![a] = next]
      BY <1>3, <2>2 DEF EndRead
    <3>2. TypeOK'
      BY <1>3, <2>2, <3>1 DEF EndRead, names
    <3>3. Handles'
      BY <1>3, <3>1 DEF EndRead
    <3>4. QED
      BY <3>2, <3>3
  <2>3. QED
    BY <2>1, <2>2
<1>4. ASSUME NEW a \in Actor, Forget(a) PROVE TypeOK' /\ Handles'
  BY <1>4 DEF Forget, names
<1>5. ASSUME NEW w \in Writer, Begin(w) PROVE TypeOK' /\ Handles'
  BY <1>5 DEF Begin, names
<1>6. ASSUME NEW w \in Writer, OpenTemp(w) PROVE TypeOK' /\ Handles'
  BY <1>6, OutcomeIsData DEF OpenTemp
<1>7. ASSUME NEW w \in Writer, WritePart(w) PROVE TypeOK' /\ Handles'
  <2>1. pos[w] \in Part /\ pos[w] + 1 \in 1..Parts + 1
    BY <1>7, FileReplaceAssumption DEF WritePart, Part
  <2>2. QED
    BY <1>7, <2>1 DEF WritePart, names
<1>8. ASSUME NEW w \in Writer, CloseTemp(w) PROVE TypeOK' /\ Handles'
  BY <1>8 DEF CloseTemp, names
<1>9. ASSUME NEW w \in Writer, WriteFails(w) PROVE TypeOK' /\ Handles'
  <2>1. Return(w)
    BY <1>9 DEF WriteFails
  <2>2. TypeOK'
    BY <1>9, <2>1, ReturnType DEF WriteFails, names
  <2>3. Handles'
    BY <1>9, <2>1 DEF WriteFails, Return
  <2>4. QED
    BY <2>2, <2>3
<1>10. ASSUME NEW w \in Writer, Rename(w) PROVE TypeOK' /\ Handles'
  <2>1. Return(w)
    BY <1>10 DEF Rename
  <2>2. TypeOK'
    BY <1>10, <2>1, ReturnType DEF Rename, names
  <2>3. Handles'
    BY <1>10, <2>1 DEF Rename, Return
  <2>4. QED
    BY <2>2, <2>3
<1>11. ASSUME NEW w \in Writer, RenameFails(w) PROVE TypeOK' /\ Handles'
  <2>1. Return(w)
    BY <1>11 DEF RenameFails
  <2>2. TypeOK'
    BY <1>11, <2>1, ReturnType DEF RenameFails, names
  <2>3. Handles'
    BY <1>11, <2>1 DEF RenameFails, Return
  <2>4. QED
    BY <2>2, <2>3
<1>12. ASSUME NEW w \in Writer, Crash(w) PROVE TypeOK' /\ Handles'
  <2>1. Return(w)
    BY <1>12 DEF Crash
  <2>2. TypeOK'
    BY <1>12, <2>1, ReturnType DEF Crash, names
  <2>3. Handles'
    BY <1>12, <2>1 DEF Crash, Return
  <2>4. QED
    BY <2>2, <2>3
<1>13. CASE UNCHANGED vars
  BY <1>13 DEF vars, names
<1>14. QED
  BY <1>1, <1>2, <1>3, <1>4, <1>5, <1>6, <1>7, <1>8,
      <1>9, <1>10, <1>11, <1>12, <1>13
  DEF Next, Read, Write

\* Every variable always has the type TypeOK gives it.
THEOREM TypeCorrect == Spec => []TypeOK
<1>1. Spec => [](TypeOK /\ Handles)
  BY HandlesInit, HandlesStep, PTL DEF Spec
<1>2. QED
  BY <1>1, PTL

-----------------------------------------------------------------------------
(* What is published is whole.                                             *)

\* An inode that only one writer at a time has made is whole, and nobody is
\* writing it any more.
Settled(i) ==
    i \notin spoiled => IsWhole(content[i]) /\ \A w \in Writer : fd[w] # i

\* The temporary file is neither the published file nor open for reading.
TempApart == tmp # None => tmp # dest /\ \A a \in Actor : rd[a] # tmp

\* A temporary file that no two writers met over has at most one writer behind
\* it, which has written it up to its position, or all of it.
WrittenBy(w) ==
    /\ pc[w] = "write" => fd[w] = tmp /\ \A k \in Part : k < pos[w] => content[tmp][k] = data[w]
    /\ pc[w] = "rename" => content[tmp] = Full(data[w])
TempOwned ==
    tmp # None /\ tmp \notin spoiled =>
        \A w \in Replacing : WrittenBy(w) /\ \A v \in Replacing : v = w

DestSettled == dest # None => Settled(dest)

\* What a reader holds open is settled, and it has read what is there.
ReaderSettled(a) ==
    rd[a] # None =>
        /\ Settled(rd[a])
        /\ rd[a] \notin spoiled => \A k \in Part : k < pos[a] => got[a][k] = content[rd[a]][k]
ReadersSettled == \A a \in Actor : ReaderSettled(a)

Safe == TempApart /\ TempOwned /\ DestSettled /\ ReadersSettled

\* A settled inode stays so when nobody opens it for writing or writes it.
LEMMA SettledStays ==
    ASSUME NEW i \in Inode, Settled(i), content'[i] = content[i],
           \A w \in Writer : fd'[w] = fd[w] \/ fd'[w] # i,
           i \in spoiled => i \in spoiled'
    PROVE  Settled(i)'
  BY DEF Settled, IsWhole

\* The same of what a reader holds open, when the reader takes no step.
LEMMA ReaderStays ==
    ASSUME NEW a \in Actor, rd[a] \in Inode \cup {None}, ReaderSettled(a), rd'[a] = rd[a], got'[a] = got[a], pos'[a] = pos[a],
           rd[a] # None => /\ content'[rd[a]] = content[rd[a]] \/ rd[a] \in spoiled
                           /\ \A w \in Writer : fd'[w] = fd[w] \/ fd'[w] # rd[a]
                           /\ rd[a] \in spoiled => rd[a] \in spoiled'
    PROVE  ReaderSettled(a)'
  BY DEF ReaderSettled, Settled, IsWhole

\* A step of a reader that touches no name, no inode and no writer.
LEMMA ReaderStep ==
    ASSUME TypeOK, Handles, Safe, NEW a \in Actor,
           UNCHANGED <<names, content, fd, data, spoiled>>,
           pc[a] \notin {"write", "rename"}, pc'[a] \notin {"write", "rename"},
           \A b \in Actor : b # a => pc'[b] = pc[b] /\ pos'[b] = pos[b] /\ rd'[b] = rd[b] /\ got'[b] = got[b],
           rd'[a] \in {rd[a], dest, None},
           ReaderSettled(a)'
    PROVE  Safe'
<1> USE ConstantFacts DEF TypeOK, names
<1>1. TempApart'
  BY DEF Safe, TempApart
<1>2. TempOwned'
  BY DEF Safe, TempOwned, WrittenBy, Replacing
<1>3. DestSettled'
  BY DEF Safe, DestSettled, Settled, IsWhole
<1>4. ASSUME NEW b \in Actor PROVE ReaderSettled(b)'
  <2>1. CASE b = a
    BY <2>1
  <2>2. CASE b # a
    BY <2>2, ReaderStays DEF Safe, ReadersSettled
  <2>3. QED
    BY <2>1, <2>2
<1>5. QED
  BY <1>1, <1>2, <1>3, <1>4 DEF Safe, ReadersSettled

\* A writer that returns without having renamed anything.
LEMMA ReturnIsSafe ==
    ASSUME TypeOK, Handles, Safe, NEW w \in Writer, Return(w), pc[w] \notin {"read"},
           tmp' \in {tmp, None}, UNCHANGED <<dest, content, rd, got, spoiled>>
    PROVE  Safe'
<1> USE ConstantFacts DEF TypeOK
<1>1. TempApart'
  BY DEF Safe, TempApart
<1>2. TempOwned'
  <2> SUFFICES ASSUME tmp' # None, tmp' \notin spoiled', NEW v \in Replacing'
               PROVE  WrittenBy(v)' /\ \A x \in Replacing' : x = v
    BY DEF TempOwned
  <2>1. tmp' = tmp /\ v # w /\ Replacing' \subseteq Replacing /\ pc'[v] = pc[v]
    BY DEF Return, Replacing
  <2>2. v \in Replacing /\ fd'[v] = fd[v] /\ data'[v] = data[v] /\ pos'[v] = pos[v]
    BY <2>1 DEF Return, Replacing
  <2>3. QED
    BY <2>1, <2>2 DEF Safe, TempOwned, WrittenBy
<1>3. DestSettled'
  BY SettledStays DEF Safe, DestSettled, Return
<1>4. ASSUME NEW b \in Actor PROVE ReaderSettled(b)'
  <2>1. CASE b = w
    BY <2>1 DEF Handles, ReaderSettled
  <2>2. CASE b # w
    BY <2>2, ReaderStays DEF Safe, ReadersSettled, Return
  <2>3. QED
    BY <2>1, <2>2
<1>5. QED
  BY <1>1, <1>2, <1>3, <1>4 DEF Safe, ReadersSettled

LEMMA SafeInit == Init => Safe
  BY ConstantFacts DEF Init, Safe, TempApart, TempOwned, DestSettled, ReadersSettled,
     ReaderSettled

\* What the renamed inode is: settled, if it was owned.
LEMMA RenameSettles ==
    ASSUME TypeOK, Handles, Safe, NEW w \in Writer, Rename(w)
    PROVE  DestSettled'
<1> USE ConstantFacts DEF TypeOK
<1>1. SUFFICES ASSUME tmp \notin spoiled
               PROVE  IsWhole(content'[tmp]) /\ \A v \in Writer : fd'[v] # tmp
  <2>1. dest' = tmp /\ spoiled' = spoiled
    BY DEF Rename
  <2>2. QED
    BY <2>1 DEF DestSettled, Settled, IsWhole
<1>2. w \in Replacing /\ tmp # None
  BY DEF Rename, Replacing
<1>3. content[tmp] = Full(data[w]) /\ data[w] \in Data
  BY <1>1, <1>2 DEF Rename, Safe, TempOwned, WrittenBy, Handles
<1>4. IsWhole(content'[tmp])
  BY <1>3 DEF Rename, IsWhole
<1>5. ASSUME NEW v \in Writer PROVE fd'[v] # tmp
  <2>1. CASE v = w
    BY <1>2, <2>1 DEF Rename, Return
  <2>2. CASE v # w
    <3>1. v \notin Replacing
      BY <1>1, <1>2, <2>2 DEF Safe, TempOwned
    <3>2. fd[v] = None
      BY <3>1 DEF Handles, Replacing
    <3>3. QED
      BY <1>2, <2>2, <3>2 DEF Rename, Return
  <2>3. QED
    BY <2>1, <2>2
<1>6. QED
  BY <1>4, <1>5

LEMMA SafeStep == TypeOK /\ Handles /\ Safe /\ [Next]_vars => Safe'
<1> SUFFICES ASSUME TypeOK, Handles, Safe, [Next]_vars PROVE Safe'
  OBVIOUS
<1> USE ConstantFacts DEF TypeOK, names
<1>1. ASSUME NEW a \in Actor, OpenRead(a) PROVE Safe'
  <2>1. ReaderSettled(a)'
    BY <1>1 DEF OpenRead, ReaderSettled, Safe, DestSettled, Settled, IsWhole, FirstPart, Part
  <2>2. QED
    BY <1>1, <2>1, ReaderStep DEF OpenRead
<1>2. ASSUME NEW a \in Actor, ReadPart(a) PROVE Safe'
  <2>1. pos[a] \in Part /\ pos[a] \in Nat
    BY <1>2, FileReplaceAssumption DEF ReadPart, Part
  <2>2. ReaderSettled(a) /\ rd[a] \in Inode
    BY <1>2 DEF ReadPart, Safe, ReadersSettled, Handles
  <2>3. Settled(rd[a])'
    BY <1>2, <2>2 DEF ReadPart, ReaderSettled, Settled, IsWhole
  <2>4. ASSUME rd[a] \notin spoiled, NEW k \in Part, k < pos'[a]
        PROVE  got'[a][k] = content[rd[a]][k]
    <3>1. got[a] \in [Part -> Data \cup {None}]
      OBVIOUS
    <3>2. pos'[a] = pos[a] + 1 /\ got'[a] = [got[a] EXCEPT ![pos[a]] = content[rd[a]][pos[a]]]
      BY <1>2 DEF ReadPart
    <3>3. CASE k = pos[a]
      BY <2>1, <3>1, <3>2, <3>3
    <3>4. CASE k # pos[a]
      <4>1. k < pos[a]
        BY <2>1, <2>4, <3>2, <3>4 DEF Part
      <4>2. QED
        BY <2>2, <2>4, <3>1, <3>2, <3>4, <4>1, ConstantFacts DEF ReaderSettled
    <3>5. QED
      BY <3>3, <3>4
  <2>5. ReaderSettled(a)'
    BY <1>2, <2>3, <2>4 DEF ReadPart, ReaderSettled
  <2>6. QED
    BY <1>2, <2>5, ReaderStep DEF ReadPart
<1>3. ASSUME NEW a \in Actor, EndRead(a) PROVE Safe'
  <2>1. ReaderSettled(a)'
    BY <1>3 DEF EndRead, ReaderSettled
  <2>2. /\ pc'[a] \in {"idle", "open", "seen"}
        /\ \A b \in Actor : b # a => pc'[b] = pc[b] /\ got'[b] = got[b]
    BY <1>3 DEF EndRead
  <2>3. QED
    BY <1>3, <2>1, <2>2, ReaderStep DEF EndRead
<1>4. ASSUME NEW a \in Actor, Forget(a) PROVE Safe'
  <2>1. ReaderSettled(a)'
    BY <1>4 DEF Forget, ReaderSettled, Handles
  <2>2. QED
    BY <1>4, <2>1, ReaderStep DEF Forget
<1>5. ASSUME NEW w \in Writer, Begin(w) PROVE Safe'
  <2>1. ReaderSettled(w)'
    BY <1>5 DEF Begin, ReaderSettled, Handles
  <2>2. QED
    BY <1>5, <2>1, ReaderStep DEF Begin
<1>6. ASSUME NEW w \in Writer, OpenTemp(w) PROVE Safe'
  <2>1. PICK i \in Inode :
            /\ i # dest /\ \A a \in Actor : rd[a] # i
            /\ tmp' = i
            /\ fd' = [fd EXCEPT ![w] = i]
            /\ content' = [content EXCEPT ![i] = Blank]
            /\ spoiled' = IF Replacing = {} THEN spoiled \ {i} ELSE spoiled \cup {i}
    <3>1. PICK i \in IF tmp = None THEN Inode \ InUse ELSE {tmp} :
              /\ tmp' = i
              /\ fd' = [fd EXCEPT ![w] = i]
              /\ content' = [content EXCEPT ![i] = Blank]
              /\ spoiled' = IF Replacing = {} THEN spoiled \ {i} ELSE spoiled \cup {i}
      BY <1>6 DEF OpenTemp
    <3>2. i \in Inode /\ i # dest /\ \A a \in Actor : rd[a] # i
      BY <3>1 DEF InUse, Safe, TempApart
    <3>3. QED
      BY <3>1, <3>2
  <2>2. TempApart'
    BY <1>6, <2>1 DEF OpenTemp, TempApart
  <2>3. TempOwned'
    <3>1. SUFFICES ASSUME i \notin spoiled', NEW v \in Replacing'
                   PROVE  WrittenBy(v)' /\ \A x \in Replacing' : x = v
      BY <2>1 DEF TempOwned
    <3>2. Replacing = {}
      BY <2>1, <3>1
    <3>3. Replacing' = {w}
      BY <1>6, <3>2 DEF OpenTemp, Replacing
    <3>4. pc'[w] = "write" /\ fd'[w] = tmp' /\ pos'[w] = 1
      BY <1>6, <2>1 DEF OpenTemp, FirstPart
    <3>5. WrittenBy(w)'
      BY <3>4 DEF WrittenBy, Part
    <3>6. QED
      BY <3>3, <3>5
  <2>4. DestSettled'
    BY <1>6, <2>1, SettledStays DEF OpenTemp, Safe, DestSettled
  <2>5. ASSUME NEW b \in Actor PROVE ReaderSettled(b)'
    <3>1. CASE b = w
      BY <1>6, <3>1 DEF OpenTemp, Handles, ReaderSettled
    <3>2. CASE b # w
      BY <1>6, <2>1, <3>2, ReaderStays DEF OpenTemp, Safe, ReadersSettled
    <3>3. QED
      BY <3>1, <3>2
  <2>6. QED
    BY <2>2, <2>3, <2>4, <2>5 DEF Safe, ReadersSettled
<1>7. ASSUME NEW w \in Writer, WritePart(w) PROVE Safe'
  <2>1. pos[w] \in Part /\ fd[w] \in Inode /\ w \in Replacing
    BY <1>7, FileReplaceAssumption DEF WritePart, Part, Handles, Replacing
  <2>2. TempApart'
    BY <1>7 DEF WritePart, Safe, TempApart
  <2>3. TempOwned'
    <3>1. SUFFICES ASSUME tmp # None, tmp \notin spoiled, NEW v \in Replacing'
                   PROVE  WrittenBy(v)' /\ \A x \in Replacing' : x = v
      BY <1>7 DEF TempOwned, WritePart
    <3>2. Replacing' = Replacing
      BY <1>7 DEF WritePart, Replacing
    <3>3. v = w /\ fd[w] = tmp /\ \A x \in Replacing : x = w
      BY <1>7, <2>1, <3>1, <3>2 DEF Safe, TempOwned, WrittenBy, WritePart
    <3>4. \A k \in Part : k < pos[w] => content[tmp][k] = data[w]
      BY <1>7, <2>1, <3>1 DEF Safe, TempOwned, WrittenBy, WritePart
    <3>5. \A k \in Part : k < pos[w] + 1 => content'[tmp][k] = data[w]
      <4>1. content'[tmp] = [content[tmp] EXCEPT ![pos[w]] = data[w]]
        BY <1>7, <2>1, <3>3 DEF WritePart
      <4>2. content[tmp] \in [Part -> Data \cup {None}]
        BY <2>1, <3>3
      <4>3. ASSUME NEW k \in Part, k < pos[w] + 1 PROVE k = pos[w] \/ k < pos[w]
        BY <2>1, <4>3 DEF Part
      <4>4. QED
        BY <2>1, <3>4, <4>1, <4>2, <4>3
    <3>6. WrittenBy(w)'
      BY <1>7, <3>3, <3>5 DEF WritePart, WrittenBy
    <3>7. QED
      BY <3>2, <3>3, <3>6
  <2>4. DestSettled'
    BY <1>7, <2>1 DEF WritePart, Safe, DestSettled, Settled, IsWhole
  <2>5. ASSUME NEW b \in Actor PROVE ReaderSettled(b)'
    <3>1. CASE b = w
      BY <1>7, <3>1 DEF WritePart, Handles, ReaderSettled
    <3>2. CASE b # w
      <4>1. ReaderSettled(b)
        BY DEF Safe, ReadersSettled
      <4>2. rd[b] # None => content'[rd[b]] = content[rd[b]] \/ rd[b] \in spoiled
        BY <1>7, <2>1, <4>1 DEF WritePart, ReaderSettled, Settled
      <4>3. QED
        BY <1>7, <3>2, <4>1, <4>2, ReaderStays DEF WritePart
    <3>3. QED
      BY <3>1, <3>2
  <2>6. QED
    BY <2>2, <2>3, <2>4, <2>5 DEF Safe, ReadersSettled
<1>8. ASSUME NEW w \in Writer, CloseTemp(w) PROVE Safe'
  <2>1. w \in Replacing /\ pos[w] > Parts
    BY <1>8 DEF CloseTemp, Replacing, Written
  <2>2. TempApart'
    BY <1>8 DEF CloseTemp, Safe, TempApart
  <2>3. TempOwned'
    <3>1. SUFFICES ASSUME tmp # None, tmp \notin spoiled, NEW v \in Replacing'
                   PROVE  WrittenBy(v)' /\ \A x \in Replacing' : x = v
      BY <1>8 DEF TempOwned, CloseTemp
    <3>2. Replacing' = Replacing
      BY <1>8 DEF CloseTemp, Replacing
    <3>3. v = w /\ \A x \in Replacing : x = w
      BY <2>1, <3>1, <3>2 DEF Safe, TempOwned
    <3>4. \A k \in Part : k < pos[w] => content[tmp][k] = data[w]
      BY <1>8, <2>1, <3>1 DEF Safe, TempOwned, WrittenBy, CloseTemp
    <3>5. \A k \in Part : k < pos[w]
      BY <2>1, FileReplaceAssumption DEF Part
    <3>6. content[tmp] = Full(data[w])
      BY <3>1, <3>4, <3>5 DEF Full
    <3>7. WrittenBy(w)'
      BY <1>8, <3>6 DEF CloseTemp, WrittenBy
    <3>8. QED
      BY <3>2, <3>3, <3>7
  <2>4. DestSettled'
    BY <1>8, SettledStays DEF CloseTemp, Safe, DestSettled
  <2>5. ASSUME NEW b \in Actor PROVE ReaderSettled(b)'
    <3>1. CASE b = w
      BY <1>8, <3>1 DEF CloseTemp, Handles, ReaderSettled
    <3>2. CASE b # w
      BY <1>8, <3>2, ReaderStays DEF CloseTemp, Safe, ReadersSettled
    <3>3. QED
      BY <3>1, <3>2
  <2>6. QED
    BY <2>2, <2>3, <2>4, <2>5 DEF Safe, ReadersSettled
<1>9. ASSUME NEW w \in Writer, WriteFails(w) PROVE Safe'
  BY <1>9, ReturnIsSafe DEF WriteFails
<1>10. ASSUME NEW w \in Writer, Rename(w) PROVE Safe'
  <2>1. TempApart' /\ TempOwned'
    BY <1>10 DEF Rename, TempApart, TempOwned
  <2>2. DestSettled'
    BY <1>10, RenameSettles
  <2>3. ASSUME NEW b \in Actor PROVE ReaderSettled(b)'
    <3>1. CASE b = w
      BY <1>10, <3>1 DEF Rename, Handles, ReaderSettled
    <3>2. CASE b # w
      BY <1>10, <3>2, ReaderStays DEF Rename, Return, Safe, ReadersSettled
    <3>3. QED
      BY <3>1, <3>2
  <2>4. QED
    BY <2>1, <2>2, <2>3 DEF Safe, ReadersSettled
<1>11. ASSUME NEW w \in Writer, RenameFails(w) PROVE Safe'
  BY <1>11, ReturnIsSafe DEF RenameFails
<1>12. ASSUME NEW w \in Writer, Crash(w) PROVE Safe'
  BY <1>12, ReturnIsSafe DEF Crash
<1>13. CASE UNCHANGED vars
  BY <1>13 DEF vars, Safe, TempApart, TempOwned, WrittenBy, Replacing, DestSettled,
     ReadersSettled, ReaderSettled, Settled, IsWhole
<1>14. QED
  BY <1>1, <1>2, <1>3, <1>4, <1>5, <1>6, <1>7, <1>8, <1>9, <1>10, <1>11, <1>12, <1>13
  DEF Next, Read, Write

LEMMA AlwaysSafe == Spec => [](TypeOK /\ Handles /\ Safe)
  BY HandlesInit, HandlesStep, SafeInit, SafeStep, PTL DEF Spec

\* The published file is whole, unless two writers met while it was made,
\* whatever fails and whoever dies.
THEOREM PublishedFileIsWhole == Spec => []FileIsWhole
<1>1. Safe => FileIsWhole
  BY DEF Safe, DestSettled, Settled, FileIsWhole
<1>2. QED
  BY <1>1, AlwaysSafe, PTL

\* What a writer is about to rename is what it wrote, all of it, unless it met
\* another one.
THEOREM RenamedIsWritten == Spec => []RenamesWhatItWrote
<1>1. Safe => RenamesWhatItWrote
  BY DEF Safe, TempOwned, WrittenBy, Replacing, RenamesWhatItWrote
<1>2. QED
  BY <1>1, AlwaysSafe, PTL

\* A reader that has come to the end of such a file has read one whole version
\* of it, although it may have been replaced meanwhile.
THEOREM WholeFilesAreRead == Spec => []ReadsAreWhole
<1>1. TypeOK /\ Handles /\ Safe => ReadsAreWhole
  <2> SUFFICES ASSUME TypeOK, Handles, Safe, NEW a \in Actor,
                      pc[a] = "read", pos[a] > Parts, rd[a] \notin spoiled
               PROVE  IsWhole(got[a])
    BY DEF ReadsAreWhole
  <2> USE DEF TypeOK
  <2>1. rd[a] \in Inode /\ rd[a] # None
    BY DEF Handles
  <2>2. IsWhole(content[rd[a]]) /\ \A k \in Part : k < pos[a] => got[a][k] = content[rd[a]][k]
    BY <2>1 DEF Safe, ReadersSettled, ReaderSettled, Settled
  <2>3. \A k \in Part : k < pos[a]
    BY FileReplaceAssumption DEF Part
  <2>4. got[a] = content[rd[a]]
    BY <2>1, <2>2, <2>3
  <2>5. QED
    BY <2>2, <2>4
<1>2. QED
  BY <1>1, AlwaysSafe, PTL
=============================================================================
