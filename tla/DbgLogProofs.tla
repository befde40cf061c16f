---------------------------- MODULE DbgLogProofs ----------------------------
(***************************************************************************)
(* For any number of threads, files and statements: the lines of the debug *)
(* log are whole, each in one file.  The argument: a thread between the    *)
(* constructor and the destructor of its temporary has the mutex, so that  *)
(* the parts of its line so far are the end of the current file.           *)
(***************************************************************************)
EXTENDS DbgLog, Inductions

Holds(t) == pc[t] \in {"put", "close"}

\* Whoever is inside a statement has the mutex, and has its file selected.
Guarded ==
    \A t \in Thread :
        /\ mutex = t <=> Holds(t)
        /\ pc[t] = "put" => part[t] <= LastPart
        /\ pc[t] = "construct" => part[t] \in {1, LastPart + 1}
        /\ pc[t] # "idle" => executed[t] >= 1
        /\ Holds(t) /\ wanted[t] # None => filename = wanted[t]

\* The part i of f belongs to the statement that its thread executes, or to an
\* earlier one; the parts of a line being written are the end of the file.
Placed(f, i) ==
    LET t == content[f][i][1]
    IN  /\ content[f][i][2] <= executed[t]
        /\ content[f][i][2] = executed[t] =>
               /\ pc[t] # "construct"
               /\ wanted[t] # None => f = wanted[t]
               /\ pc[t] = "put" =>
                      /\ content[f][i][3] < part[t]
                      /\ f = filename
                      /\ \A k \in i .. Len(content[f]) : Statement(content[f][k]) = Statement(content[f][i])

AllPlaced == \A f \in File : \A i \in 1 .. Len(content[f]) : Placed(f, i)

Written(t, p) ==
    \E f \in File : \E i \in 1 .. Len(content[f]) : content[f][i] = <<t, executed[t], p>>

\* Nothing is missing from a line being written.
SoFarComplete ==
    ~failed => \A t \in Thread : pc[t] = "put" => \A p \in 1 .. part[t] - 1 : Written(t, p)

OneFileEach ==
    \A f, g \in File : \A i \in 1 .. Len(content[f]), j \in 1 .. Len(content[g]) :
        Statement(content[f][i]) = Statement(content[g][j]) => f = g

IInv == TypeInv /\ Guarded /\ AllPlaced /\ LinesNotGarbled /\ OneFileEach /\ SoFarComplete /\ LinesComplete

-----------------------------------------------------------------------------
Entry == Thread \X (1 .. MaxStatements) \X Part

LEMMA EntryType ==
  ASSUME TypeInv, NEW f \in File, NEW i \in 1 .. Len(content[f])
  PROVE  /\ content[f][i] \in Entry
         /\ content[f][i][1] \in Thread /\ content[f][i][2] \in 1 .. MaxStatements
         /\ content[f][i][3] \in Part
<1>1. content[f] \in Seq(Entry)
  BY DEF TypeInv, Entry
<1>2. content[f][i] \in Entry
  BY <1>1
<1> QED
  BY <1>2 DEF Entry

\* What writing a part does to the files.
LEMMA Appended ==
  ASSUME TypeInv, NEW t \in Thread, Put(t), filename' \in File,
         part[t] \in Part, executed[t] >= 1
  PROVE  /\ content' \in [File -> Seq(Entry)]
         /\ \A f \in File : f # filename' \/ ~is_open' => content'[f] = content[f]
         /\ is_open' => /\ Len(content'[filename']) = Len(content[filename']) + 1
                        /\ content'[filename'][Len(content[filename']) + 1] = <<t, executed[t], part[t]>>
                        /\ \A i \in 1 .. Len(content[filename']) :
                               content'[filename'][i] = content[filename'][i]
<1> DEFINE e == <<t, executed[t], part[t]>>
<1>1. e \in Entry
  BY BoundAssumption DEF Entry, TypeInv
<1>2. content \in [File -> Seq(Entry)]
  BY DEF TypeInv, Entry
<1>3. CASE is_open'
  <2>1. content' = [content EXCEPT ![filename'] = Append(@, e)]
    BY <1>3 DEF Put
  <2> HIDE DEF e
  <2>2. Append(content[filename'], e) \in Seq(Entry)
    BY <1>1, <1>2
  <2>3. content'[filename'] = Append(content[filename'], e) /\ content' \in [File -> Seq(Entry)]
    BY <1>2, <2>1, <2>2
  <2>4. /\ Len(content'[filename']) = Len(content[filename']) + 1
        /\ content'[filename'][Len(content[filename']) + 1] = e
        /\ \A i \in 1 .. Len(content[filename']) : content'[filename'][i] = content[filename'][i]
    BY <1>1, <1>2, <2>3
  <2>5. \A f \in File : f # filename' => content'[f] = content[f]
    BY <1>2, <2>1
  <2> QED
    BY <1>3, <2>3, <2>4, <2>5 DEF e
<1>4. CASE ~is_open'
  BY <1>2, <1>4 DEF Put
<1> QED
  BY <1>3, <1>4

\* The stream after a call for writing by the thread that has the mutex.
LEMMA Streamed ==
  ASSUME TypeInv, Guarded, NEW t \in Thread, Holds(t), NEW name \in {wanted[t], None}, streamer(name, TRUE)
  PROVE  /\ filename' \in File /\ is_open' \in BOOLEAN /\ failed' \in BOOLEAN
         /\ filename # None => filename' = filename
         /\ wanted[t] # None => filename' = wanted[t]
         /\ ~failed' => is_open' /\ ~failed
<1> DEFINE current == IF filename # None THEN filename ELSE IF name # None THEN name ELSE DefaultFile
           switch == name # None /\ name # current
<1>1. current \in File /\ (name # None => name \in File /\ name = filename)
  BY FileAssumption DEF TypeInv, Guarded
<1>2. filename' = IF switch THEN name ELSE current
  BY DEF streamer
<1>3. filename' \in File /\ (filename # None => filename' = filename) /\ (wanted[t] # None => filename' = wanted[t])
  BY <1>1, <1>2 DEF Guarded
<1>4. CASE is_open /\ ~switch
  <2>1. is_open' = TRUE /\ failed' = failed
    BY <1>4 DEF streamer
  <2> QED
    BY <1>3, <2>1 DEF TypeInv
<1>5. CASE ~(is_open /\ ~switch)
  <2>1. PICK opened \in BOOLEAN : is_open' = opened /\ failed' = (failed \/ ~opened)
    BY <1>5 DEF streamer
  <2> QED
    BY <1>3, <2>1
<1>6. is_open' \in BOOLEAN /\ failed' \in BOOLEAN /\ (~failed' => is_open' /\ ~failed)
  BY <1>4, <1>5
<1> QED
  BY <1>3, <1>6

\* The stream after a call that only closes.
LEMMA Unstreamed ==
  ASSUME TypeInv, Guarded, NEW t \in Thread, Holds(t), streamer(wanted[t], FALSE)
  PROVE  /\ filename' \in File /\ is_open' \in BOOLEAN /\ failed' = failed
         /\ filename # None => filename' = filename
<1>1. failed' = failed /\ is_open' \in BOOLEAN
  BY DEF streamer
<1>2. filename' \in File /\ (filename # None => filename' = filename)
  BY FileAssumption DEF TypeInv, Guarded, streamer
<1> QED
  BY <1>1, <1>2

LEMMA InitInv == Init => IInv
<1> SUFFICES ASSUME Init PROVE IInv
  OBVIOUS
<1>1. TypeInv
  <2>1. content \in [File -> Seq(Thread \X (1 .. MaxStatements) \X Part)]
    BY DEF Init
  <2>2. part \in [Thread -> 1 .. LastPart + 1] /\ executed \in [Thread -> 0 .. MaxStatements]
    BY BoundAssumption DEF Init, LastPart, Items
  <2> QED
    BY <2>1, <2>2 DEF Init, TypeInv
<1>2. Guarded /\ SoFarComplete /\ LinesComplete
  BY ThreadAssumption DEF Init, Guarded, Holds, SoFarComplete, LinesComplete
<1>3. AllPlaced /\ LinesNotGarbled /\ OneFileEach
  BY DEF Init, AllPlaced, LinesNotGarbled, OneFileEach
<1> QED
  BY <1>1, <1>2, <1>3 DEF IInv
-----------------------------------------------------------------------------
(* What stands in the files after thread t has written a part.             *)

LEMMA Old ==
  ASSUME IInv, NEW t \in Thread, Put(t), filename' \in File, is_open' \in BOOLEAN, part[t] \in Part, executed[t] >= 1,
         NEW f \in File, NEW i \in 1 .. Len(content[f])
  PROVE  i \in 1 .. Len(content'[f]) /\ content'[f][i] = content[f][i]
<1>1. Len(content[f]) \in Nat /\ Len(content[filename']) \in Nat
  BY SMTT(30) DEF IInv, TypeInv
<1>2. CASE f = filename' /\ is_open'
  BY <1>1, <1>2, Appended DEF IInv
<1>3. CASE f # filename' \/ ~is_open'
  BY <1>3, Appended DEF IInv
<1> QED
  BY <1>2, <1>3

LEMMA New ==
  ASSUME IInv, NEW t \in Thread, Put(t), filename' \in File, is_open' \in BOOLEAN, part[t] \in Part, executed[t] >= 1,
         NEW f \in File, NEW i \in 1 .. Len(content'[f]), i \notin 1 .. Len(content[f])
  PROVE  /\ f = filename' /\ is_open' /\ i = Len(content[f]) + 1 /\ i = Len(content'[f])
         /\ content'[f][i] = <<t, executed[t], part[t]>>
<1>1. Len(content[f]) \in Nat
  BY DEF IInv, TypeInv
<1>2. f = filename' /\ is_open'
  BY Appended DEF IInv
<1> QED
  BY <1>1, <1>2, Appended DEF IInv

\* The parts of the line of t stand at the end of the file that it goes on in.
LEMMA OwnLine ==
  ASSUME IInv, NEW t \in Thread, pc[t] = "put", filename' \in File, filename # None => filename' = filename,
         NEW f \in File, NEW i \in 1 .. Len(content[f]),
         Statement(content[f][i]) = <<t, executed[t]>>
  PROVE  /\ f = filename' /\ content[f][i][3] < part[t]
         /\ \A k \in i .. Len(content[f]) : Statement(content[f][k]) = <<t, executed[t]>>
<1>1. content[f][i][1] = t /\ content[f][i][2] = executed[t]
  BY DEF Statement
<1>2. Placed(f, i)
  BY DEF IInv, AllPlaced
<1> QED
  BY <1>1, <1>2, FileAssumption DEF Placed

\* Writing a part garbles no line and takes none to a second file.
LEMMA LineKept ==
  ASSUME IInv, NEW t \in Thread, pc[t] = "put", Put(t), filename' \in File, is_open' \in BOOLEAN,
         part[t] \in Part, executed[t] >= 1, filename # None => filename' = filename
  PROVE  LinesNotGarbled' /\ OneFileEach'
<1> DEFINE new == <<t, executed[t], part[t]>>
<1>0. \A f \in File : Len(content[f]) \in Nat /\ Len(content'[f]) \in Nat
  BY Appended DEF IInv, TypeInv
<1>1. Statement(new) = <<t, executed[t]>> /\ new[3] = part[t]
  BY DEF Statement
<1>2. ASSUME NEW f \in File, NEW i \in 1 .. Len(content'[f]), NEW j \in 1 .. Len(content'[f]),
             i < j, Statement(content'[f][i]) = Statement(content'[f][j]), NEW k \in i .. j - 1
      PROVE  /\ Statement(content'[f][k]) = Statement(content'[f][k + 1])
             /\ content'[f][k][3] < content'[f][k + 1][3]
  <2>1. i \in 1 .. Len(content[f]) /\ k \in 1 .. Len(content[f])
    BY <1>0, <1>2, New
  <2>2. content'[f][i] = content[f][i] /\ content'[f][k] = content[f][k]
    BY <2>1, Old
  <2>3. CASE j \in 1 .. Len(content[f])
    <3>1. k + 1 \in 1 .. Len(content[f])
      BY <1>0, <1>2, <2>3
    <3>2. content'[f][j] = content[f][j] /\ content'[f][k + 1] = content[f][k + 1]
      BY <2>3, <3>1, Old
    <3> QED
      BY <1>2, <2>1, <2>2, <2>3, <3>2 DEF IInv, LinesNotGarbled
  <2>4. CASE j \notin 1 .. Len(content[f])
    <3>1. j = Len(content[f]) + 1 /\ content'[f][j] = new
      BY <2>4, New
    <3>2. Statement(content[f][i]) = <<t, executed[t]>>
      BY <1>1, <1>2, <2>2, <3>1
    <3>3. \A l \in i .. Len(content[f]) : Statement(content[f][l]) = <<t, executed[t]>>
      BY <2>1, <3>2, OwnLine
    <3>4. CASE k + 1 = j
      <4>1. Statement(content[f][k]) = <<t, executed[t]>>
        BY <1>0, <2>1, <3>1, <3>3, <3>4
      <4>2. content[f][k][3] < part[t]
        BY <2>1, <4>1, OwnLine
      <4> QED
        BY <1>1, <2>2, <3>1, <3>4, <4>1, <4>2
    <3>5. CASE k + 1 # j
      <4>1. k + 1 \in 1 .. Len(content[f]) /\ k + 1 \in i .. Len(content[f]) /\ Len(content[f]) \in 1 .. Len(content[f])
        BY <1>0, <1>2, <2>1, <3>1, <3>5
      <4>2. content'[f][k + 1] = content[f][k + 1]
        BY <4>1, Old
      <4>3. Statement(content[f][Len(content[f])]) = Statement(content[f][i])
        BY <1>0, <2>1, <3>2, <3>3
      <4>4. i < Len(content[f]) /\ k \in i .. Len(content[f]) - 1
        BY <1>0, <1>2, <2>1, <3>1, <3>5
      <4> QED
        BY <2>1, <2>2, <4>1, <4>2, <4>3, <4>4 DEF IInv, LinesNotGarbled
    <3> QED
      BY <3>4, <3>5
  <2> QED
    BY <2>3, <2>4
<1>3. ASSUME NEW f \in File, NEW g \in File, NEW i \in 1 .. Len(content'[f]), NEW j \in 1 .. Len(content'[g]),
             Statement(content'[f][i]) = Statement(content'[g][j])
      PROVE  f = g
  <2>1. CASE i \in 1 .. Len(content[f]) /\ j \in 1 .. Len(content[g])
    BY <1>3, <2>1, Old DEF IInv, OneFileEach
  <2>2. CASE i \notin 1 .. Len(content[f]) /\ j \notin 1 .. Len(content[g])
    BY <2>2, New
  <2>3. CASE i \in 1 .. Len(content[f]) /\ j \notin 1 .. Len(content[g])
    <3>1. Statement(content[f][i]) = <<t, executed[t]>> /\ g = filename'
      BY <1>1, <1>3, <2>3, Old, New, ZenonT(30)
    <3> QED
      BY <2>3, <3>1, OwnLine
  <2>4. CASE i \notin 1 .. Len(content[f]) /\ j \in 1 .. Len(content[g])
    <3>1. Statement(content[g][j]) = <<t, executed[t]>> /\ f = filename'
      BY <1>1, <1>3, <2>4, Old, New, SMTT(30)
    <3> QED
      BY <2>4, <3>1, OwnLine
  <2> QED
    BY <2>1, <2>2, <2>3, <2>4
<1>4. LinesNotGarbled'
  BY <1>2 DEF LinesNotGarbled
<1> QED
  BY <1>3, <1>4 DEF OneFileEach

\* The part that was written is in its place, and the earlier ones are still.
LEMMA PlacesKept ==
  ASSUME IInv, NEW t \in Thread, pc[t] = "put", Put(t), filename' \in File, is_open' \in BOOLEAN,
         part[t] \in Part, executed[t] >= 1,
         filename # None => filename' = filename, wanted[t] # None => filename' = wanted[t],
         UNCHANGED <<executed, wanted>>,
         \A u \in Thread : u # t => pc'[u] = pc[u] /\ part'[u] = part[u],
         pc'[t] = "close" \/ (pc'[t] = "put" /\ part'[t] = part[t] + 1)
  PROVE  AllPlaced'
<1> SUFFICES ASSUME NEW f \in File, NEW i \in 1 .. Len(content'[f]) PROVE Placed(f, i)'
  BY DEF AllPlaced
<1>0. Len(content[f]) \in Nat /\ Len(content'[f]) \in Nat /\ executed[t] \in Nat /\ part[t] \in Nat
  BY Appended DEF IInv, TypeInv, Part, LastPart, Items
<1>1. CASE i \notin 1 .. Len(content[f])
  <2>1. /\ f = filename' /\ i = Len(content'[f]) /\ content'[f][i] = <<t, executed[t], part[t]>>
    BY <1>1, New
  <2>2. content'[f][i][1] = t /\ content'[f][i][2] = executed[t] /\ content'[f][i][3] = part[t]
    BY <2>1
  <2>3. \A k \in i .. Len(content'[f]) : k = i
    BY <1>0, <2>1
  <2> QED
    BY <1>0, <2>1, <2>2, <2>3 DEF Placed
<1>2. CASE i \in 1 .. Len(content[f])
  <2> DEFINE u == content[f][i][1]
  <2>1. /\ content'[f][i] = content[f][i] /\ Placed(f, i)
        /\ u \in Thread /\ content[f][i][2] \in Nat /\ content[f][i][3] \in Nat
    BY <1>2, Old, EntryType DEF IInv, AllPlaced, Part, LastPart, Items
  <2>2. CASE u # t
    <3>1. pc[u] # "put"
      BY <2>1, <2>2 DEF IInv, Guarded, Holds
    <3> QED
      BY <2>1, <2>2, <3>1 DEF Placed
  <2>3. CASE u = t /\ content[f][i][2] # executed[t]
    BY <2>1, <2>3 DEF Placed
  <2>4. CASE u = t /\ content[f][i][2] = executed[t]
    <3>1. Statement(content[f][i]) = <<t, executed[t]>>
      BY <2>4 DEF Statement
    <3>2. /\ f = filename' /\ content[f][i][3] < part[t]
          /\ \A k \in i .. Len(content[f]) : Statement(content[f][k]) = <<t, executed[t]>>
      BY <1>2, <3>1, OwnLine
    <3>3. ASSUME NEW k \in i .. Len(content'[f])
          PROVE  Statement(content'[f][k]) = Statement(content'[f][i])
      <4>1. CASE k \in 1 .. Len(content[f])
        <5>1. content'[f][k] = content[f][k]
          BY <4>1, Old
        <5> QED
          BY <1>0, <2>1, <3>1, <3>2, <4>1, <5>1
      <4>2. CASE k \notin 1 .. Len(content[f])
        <5>1. k \in 1 .. Len(content'[f])
          BY <1>0, <1>2
        <5>2. content'[f][k] = <<t, executed[t], part[t]>>
          BY <4>2, <5>1, New
        <5> QED
          BY <2>1, <3>1, <5>2 DEF Statement
      <4> QED
        BY <4>1, <4>2
    <3> QED
      BY <1>0, <2>1, <2>4, <3>2, <3>3 DEF Placed
  <2> QED
    BY <2>2, <2>3, <2>4
<1> QED
  BY <1>1, <1>2

\* Nothing is missing after a part was written, unless a file was not opened.
LEMMA CompleteKept ==
  ASSUME IInv, NEW t \in Thread, pc[t] = "put", Put(t), filename' \in File, is_open' \in BOOLEAN,
         part[t] \in Part, executed[t] >= 1, ~failed' => is_open' /\ ~failed,
         UNCHANGED <<executed, wanted>>, mutex = t,
         \A u \in Thread : u # t => pc'[u] = pc[u] /\ part'[u] = part[u],
         \/ pc'[t] = "close" /\ part'[t] = part[t] /\ part[t] = LastPart
         \/ pc'[t] = "put" /\ part'[t] = part[t] + 1
  PROVE  SoFarComplete' /\ LinesComplete'
<1> SUFFICES ASSUME ~failed' PROVE (\A u \in Thread : pc[u] = "put" => \A p \in 1 .. part[u] - 1 : Written(u, p))'
                                /\ (\A u \in Thread : pc[u] = "close" /\ part[u] = LastPart => \A p \in Part : Written(u, p))'
  BY DEF SoFarComplete, LinesComplete, Written
<1>0. ~failed /\ is_open' /\ part[t] \in Nat /\ part[t] \in 1 .. LastPart
  BY DEF Part, LastPart, Items
<1>1. \A u \in Thread : u # t => pc'[u] \notin {"put", "close"}
  BY DEF IInv, Guarded, Holds
<1>2. ASSUME NEW p \in 1 .. part[t] PROVE Written(t, p)'
  <2>1. CASE p = part[t]
    <3>1. /\ Len(content'[filename']) = Len(content[filename']) + 1
          /\ content'[filename'][Len(content[filename']) + 1] = <<t, executed[t], part[t]>>
          /\ Len(content[filename']) \in Nat
      BY <1>0, Appended DEF IInv, TypeInv
    <3>2. Len(content[filename']) + 1 \in 1 .. Len(content'[filename'])
      BY <3>1
    <3>3. content'[filename'][Len(content[filename']) + 1] = <<t, executed'[t], p>>
      BY <2>1, <3>1
    <3> QED
      BY <3>2, <3>3 DEF Written
  <2>2. CASE p # part[t]
    <3>1. p \in 1 .. part[t] - 1
      BY <1>0, <2>2
    <3>2. PICK f \in File : \E i \in 1 .. Len(content[f]) : content[f][i] = <<t, executed[t], p>>
      BY <1>0, <3>1 DEF IInv, SoFarComplete, Written
    <3>4. PICK i \in 1 .. Len(content[f]) : content[f][i] = <<t, executed[t], p>>
      BY <3>2
    <3>3. i \in 1 .. Len(content'[f]) /\ content'[f][i] = content[f][i]
      BY Old
    <3> QED
      BY <3>4, <3>3 DEF Written
  <2> QED
    BY <2>1, <2>2
<1>3. CASE pc'[t] = "close" /\ part'[t] = part[t] /\ part[t] = LastPart
  BY <1>1, <1>2, <1>3 DEF Part
<1>4. CASE pc'[t] = "put" /\ part'[t] = part[t] + 1
  <2>1. part'[t] - 1 = part[t]
    BY <1>0, <1>4
  <2> QED
    BY <1>1, <1>2, <1>4, <2>1
<1> QED
  BY <1>3, <1>4

\* What the two promises about lines say of the files alone.
Ordered(c) ==
    \A f \in File : \A i, j \in 1 .. Len(c[f]) :
        i < j /\ Statement(c[f][i]) = Statement(c[f][j]) =>
            \A k \in i .. j - 1 :
                /\ Statement(c[f][k]) = Statement(c[f][k + 1])
                /\ c[f][k][3] < c[f][k + 1][3]

Apart(c) ==
    \A f, g \in File : \A i \in 1 .. Len(c[f]), j \in 1 .. Len(c[g]) :
        Statement(c[f][i]) = Statement(c[g][j]) => f = g

LEMMA LinesRead == (LinesNotGarbled <=> Ordered(content)) /\ (OneFileEach <=> Apart(content))
BY Zenon DEF LinesNotGarbled, OneFileEach, Ordered, Apart

LEMMA LinesReadNext == (LinesNotGarbled' <=> Ordered(content)') /\ (OneFileEach' <=> Apart(content)')
BY LinesRead, PTL

\* A step that writes nothing.
LEMMA LinesStay ==
  ASSUME LinesNotGarbled, OneFileEach, content' = content
  PROVE  LinesNotGarbled' /\ OneFileEach'
BY LinesRead, LinesReadNext

-----------------------------------------------------------------------------
LEMMA NextInv == IInv /\ [Next]_vars => IInv'
<1> SUFFICES ASSUME IInv, [Next]_vars PROVE IInv'
  OBVIOUS
<1> USE DEF LastPart, Items
<1>1. CASE UNCHANGED vars
  <2>1. TypeInv' /\ Guarded' /\ AllPlaced'
    BY <1>1 DEF vars, IInv, TypeInv, Guarded, Holds, AllPlaced, Placed, Statement
  <2>2. LinesNotGarbled' /\ OneFileEach'
    BY <1>1, LinesStay DEF vars, IInv
  <2>3. SoFarComplete' /\ LinesComplete'
    BY <1>1 DEF vars, IInv, SoFarComplete, LinesComplete, Written
  <2> QED
    BY <2>1, <2>2, <2>3 DEF IInv
<1>2. ASSUME NEW t \in Thread, NEW name \in File \cup {None}, NEW first \in {1, LastPart + 1}, Begin(t, name, first)
      PROVE  IInv'
  <2>1. /\ executed'[t] = executed[t] + 1 /\ executed[t] \in Nat /\ executed' \in [Thread -> 0 .. MaxStatements]
        /\ pc[t] = "idle" /\ pc'[t] = "construct" /\ part'[t] = first
        /\ UNCHANGED <<mutex, filename, is_open, failed, content>>
        /\ \A u \in Thread : u # t => /\ pc'[u] = pc[u] /\ part'[u] = part[u]
                                      /\ executed'[u] = executed[u] /\ wanted'[u] = wanted[u]
    BY <1>2, BoundAssumption DEF Begin, stream, IInv, TypeInv
  <2>2. TypeInv'
    BY <1>2, <2>1 DEF Begin, IInv, TypeInv
  <2>3. Guarded'
    BY <2>1 DEF IInv, Guarded, Holds
  <2>4. AllPlaced'
    <3> SUFFICES ASSUME NEW f \in File, NEW i \in 1 .. Len(content[f]) PROVE Placed(f, i)'
      BY <2>1 DEF AllPlaced
    <3>1. /\ content[f][i][1] \in Thread /\ content[f][i][2] \in Nat /\ Placed(f, i)
      BY EntryType DEF IInv, AllPlaced
    <3>2. content' = content /\ filename' = filename
      BY <2>1
    <3>3. CASE content[f][i][1] = t
      <4>1. content[f][i][2] < executed'[t]
        BY <2>1, <3>1, <3>3 DEF Placed
      <4> QED
        BY <2>1, <3>2, <3>1, <3>3, <4>1 DEF Placed
    <3>4. CASE content[f][i][1] # t
      <4> DEFINE u == content[f][i][1]
      <4>1. pc'[u] = pc[u] /\ part'[u] = part[u] /\ executed'[u] = executed[u] /\ wanted'[u] = wanted[u]
        BY <2>1, <3>1, <3>4
      <4> QED
        BY <3>1, <3>2, <4>1, Zenon DEF Placed, Statement
    <3> QED
      BY <3>3, <3>4
  <2>5. LinesNotGarbled' /\ OneFileEach'
    <3>1. content' = content /\ LinesNotGarbled /\ OneFileEach
      BY <2>1 DEF IInv
    <3> QED
      BY <3>1, LinesStay
  <2>6. SoFarComplete' /\ LinesComplete'
    BY <2>1, ZenonT(30) DEF IInv, SoFarComplete, LinesComplete, Written
  <2> QED
    BY <2>2, <2>3, <2>4, <2>5, <2>6 DEF IInv
<1>3. ASSUME NEW t \in Thread, construct(t) PROVE IInv'
  <2>1. /\ pc[t] = "construct" /\ mutex = NoThread /\ mutex' = t
        /\ UNCHANGED <<content, wanted, part, executed>>
        /\ pc' = [pc EXCEPT ![t] = IF part[t] > LastPart THEN "close" ELSE "put"]
    BY <1>3 DEF construct
  <2>2. /\ part[t] \in {1, LastPart + 1} /\ executed[t] >= 1
        /\ \A u \in Thread : ~Holds(u)
    BY <2>1, ThreadAssumption DEF IInv, Guarded
  <2>3. /\ filename' \in File \cup {None} /\ is_open' \in BOOLEAN /\ failed' \in BOOLEAN
        /\ is_open' => filename' # None
        /\ wanted[t] # None => filename' = wanted[t]
        /\ ~failed' => ~failed
    <3>1. CASE wanted[t] = None
      BY <1>3, <3>1 DEF construct, IInv, TypeInv
    <3>2. CASE wanted[t] # None
      <4>1. streamer(wanted[t], TRUE) /\ wanted[t] \in File
        BY <1>3, <3>2 DEF construct, IInv, TypeInv
      <4>2. filename' = wanted[t]
        BY <3>2, <4>1 DEF streamer
      <4>3. is_open' \in BOOLEAN /\ failed' \in BOOLEAN /\ (~failed' => ~failed)
        BY <4>1 DEF streamer, IInv, TypeInv
      <4> QED
        BY <3>2, <4>1, <4>2, <4>3
    <3> QED
      BY <3>1, <3>2
  <2>4. TypeInv'
    BY <2>1, <2>3 DEF IInv, TypeInv
  <2>5. Guarded'
    BY <2>1, <2>2, <2>3 DEF IInv, TypeInv, Guarded, Holds
  <2>6. AllPlaced'
    <3> SUFFICES ASSUME NEW f \in File, NEW i \in 1 .. Len(content[f]) PROVE Placed(f, i)'
      BY <2>1 DEF AllPlaced
    <3>1. content[f][i][1] \in Thread /\ Placed(f, i)
      BY EntryType DEF IInv, AllPlaced
    <3> QED
      BY <2>1, <2>2, <3>1 DEF Placed, Holds, IInv, TypeInv
  <2>7. LinesNotGarbled' /\ OneFileEach'
    <3>1. content' = content
      BY <2>1
    <3> QED
      BY <3>1, LinesStay DEF IInv
  <2>8. SoFarComplete' /\ LinesComplete'
    <3>1. \A u \in Thread : u # t => pc'[u] \notin {"put", "close"}
      BY <2>1, <2>2 DEF Holds, IInv, TypeInv
    <3>2. (pc'[t] = "put" => part'[t] = 1) /\ (pc'[t] = "close" => part'[t] # LastPart)
      BY <2>1, <2>2 DEF IInv, TypeInv
    <3> QED
      BY <3>1, <3>2 DEF SoFarComplete, LinesComplete
  <2> QED
    BY <2>4, <2>5, <2>6, <2>7, <2>8 DEF IInv
<1>4. ASSUME NEW t \in Thread, NEW name \in {wanted[t], None}, pc[t] = "put", streamer(name, TRUE), Put(t),
             UNCHANGED <<mutex, wanted, executed>>,
             \/ pc' = [pc EXCEPT ![t] = "close"] /\ part' = part /\ part[t] = LastPart
             \/ pc' = pc /\ part' = [part EXCEPT ![t] = @ + 1] /\ part[t] <= Items
      PROVE  IInv'
  <2>1. /\ Holds(t) /\ mutex = t /\ part[t] \in Part /\ executed[t] >= 1
        /\ part[t] <= LastPart
    BY <1>4 DEF IInv, Guarded, Holds, TypeInv, Part
  <2>2. /\ filename' \in File /\ is_open' \in BOOLEAN /\ failed' \in BOOLEAN
        /\ filename # None => filename' = filename
        /\ wanted[t] # None => filename' = wanted[t]
        /\ ~failed' => is_open' /\ ~failed
    BY <1>4, <2>1, Streamed DEF IInv
  <2>3. /\ \A u \in Thread : u # t => pc'[u] = pc[u] /\ part'[u] = part[u]
        /\ \/ pc'[t] = "close" /\ part'[t] = part[t] /\ part[t] = LastPart
           \/ pc'[t] = "put" /\ part'[t] = part[t] + 1 /\ part[t] <= Items
        /\ pc' \in [Thread -> {"idle", "construct", "put", "close"}]
        /\ part' \in [Thread -> 1 .. LastPart + 1]
    <3>1. CASE pc' = [pc EXCEPT ![t] = "close"] /\ part' = part /\ part[t] = LastPart
      <4>1. pc'[t] = "close" /\ \A u \in Thread : u # t => pc'[u] = pc[u]
        BY <3>1 DEF IInv, TypeInv
      <4>2. pc' \in [Thread -> {"idle", "construct", "put", "close"}]
        BY <3>1 DEF IInv, TypeInv
      <4>3. part' \in [Thread -> 1 .. LastPart + 1]
        BY <3>1 DEF IInv, TypeInv
      <4> QED
        BY <3>1, <4>1, <4>2, <4>3
    <3>2. CASE pc' = pc /\ part' = [part EXCEPT ![t] = @ + 1] /\ part[t] <= Items
      <4>1. part[t] \in 1 .. LastPart + 1 /\ part \in [Thread -> 1 .. LastPart + 1]
        BY DEF IInv, TypeInv
      <4>2. part[t] + 1 \in 1 .. LastPart + 1
        BY <3>2, <4>1
      <4>3. /\ part' \in [Thread -> 1 .. LastPart + 1] /\ part'[t] = part[t] + 1
            /\ \A u \in Thread : u # t => part'[u] = part[u]
        BY <3>2, <4>1, <4>2
      <4>4. pc' \in [Thread -> {"idle", "construct", "put", "close"}]
        BY <3>2 DEF IInv, TypeInv
      <4> QED
        BY <1>4, <3>2, <4>3, <4>4
    <3> QED
      BY <1>4, <3>1, <3>2
  <2>4. TypeInv'
    <3>1. content' \in [File -> Seq(Thread \X (1 .. MaxStatements) \X Part)]
      BY <1>4, <2>1, <2>2, Appended DEF IInv, Entry
    <3> QED
      BY <1>4, <2>2, <2>3, <3>1, FileAssumption DEF IInv, TypeInv
  <2>5. Guarded'
    <3>1. \A u \in Thread : u # t => ~Holds(u)
      BY <2>1 DEF IInv, Guarded
    <3> QED
      BY <1>4, <2>1, <2>2, <2>3, <3>1 DEF IInv, Guarded, Holds, Part
  <2>6. LinesNotGarbled' /\ OneFileEach'
    BY <1>4, <2>1, <2>2, LineKept
  <2>7. AllPlaced'
    BY <1>4, <2>1, <2>2, <2>3, PlacesKept
  <2>8. SoFarComplete' /\ LinesComplete'
    BY <1>4, <2>1, <2>2, <2>3, CompleteKept
  <2> QED
    BY <2>4, <2>5, <2>6, <2>7, <2>8 DEF IInv
<1>5. ASSUME NEW t \in Thread, close(t) PROVE IInv'
  <2>1. /\ pc[t] = "close" /\ mutex' = NoThread /\ UNCHANGED <<content, wanted, part, executed>>
        /\ pc'[t] = "idle" /\ \A u \in Thread : u # t => pc'[u] = pc[u]
        /\ pc' \in [Thread -> {"idle", "construct", "put", "close"}]
    BY <1>5 DEF close, IInv, TypeInv
  <2>2. Holds(t) /\ \A u \in Thread : u # t => ~Holds(u)
    BY <2>1 DEF IInv, Guarded, Holds
  <2>3. filename' \in File /\ is_open' \in BOOLEAN /\ failed' = failed
    BY <1>5, <2>2, Unstreamed DEF close, IInv
  <2>4. TypeInv'
    BY <2>1, <2>3, FileAssumption DEF IInv, TypeInv
  <2>5. \A u \in Thread : pc'[u] \notin {"put", "close"}
    BY <2>1, <2>2 DEF Holds
  <2>6. Guarded'
    BY <2>1, <2>5, ThreadAssumption DEF IInv, Guarded, Holds
  <2>7. AllPlaced'
    <3> SUFFICES ASSUME NEW f \in File, NEW i \in 1 .. Len(content[f]) PROVE Placed(f, i)'
      BY <2>1 DEF AllPlaced
    <3>1. content[f][i][1] \in Thread /\ Placed(f, i)
      BY EntryType DEF IInv, AllPlaced
    <3> QED
      BY <2>1, <2>5, <3>1 DEF Placed
  <2>8. LinesNotGarbled' /\ OneFileEach'
    BY <2>1, LinesStay DEF IInv
  <2>9. SoFarComplete' /\ LinesComplete'
    BY <2>5 DEF SoFarComplete, LinesComplete
  <2> QED
    BY <2>4, <2>6, <2>7, <2>8, <2>9 DEF IInv
<1>6. ASSUME NEW t \in Thread, DBGLOG(t) \/ DBGLOGX(t) \/ DBGLOG_USE(t) PROVE IInv'
  BY <1>2, <1>6 DEF DBGLOG, DBGLOGX, DBGLOG_USE
<1>7. ASSUME NEW t \in Thread, put_item(t) PROVE IInv'
  BY <1>4, <1>7 DEF put_item
<1>8. ASSUME NEW t \in Thread, end_line(t) PROVE IInv'
  BY <1>4, <1>8 DEF end_line
<1> QED
  BY <1>1, <1>3, <1>5, <1>6, <1>7, <1>8 DEF Next, Step

-----------------------------------------------------------------------------
\* The invariant that the properties rest on.
THEOREM Invariance == Spec => []IInv
BY InitInv, NextInv, PTL DEF Spec

\* Types; and an open stream is a named file's.
THEOREM TypeCorrect == Spec => []TypeInv
<1>1. IInv => TypeInv
  BY DEF IInv
<1> QED
  BY <1>1, Invariance, PTL

\* However many threads log, the parts of a line stand together and in order
\* (DBG.hh:1276).
THEOREM NothingGarbled == Spec => []LinesNotGarbled
<1>1. IInv => LinesNotGarbled
  BY DEF IInv
<1> QED
  BY <1>1, Invariance, PTL

\* However often the files are switched, a line is in one file, and in the one
\* that it named (DBG.hh:1298).
THEOREM OneFilePerLine == Spec => []LinesInOneFile
<1>1. IInv => LinesInOneFile
  <2> SUFFICES ASSUME IInv, NEW f \in File, NEW i \in 1 .. Len(content[f])
               PROVE  LET s == Statement(content[f][i])
                      IN  /\ \A g \in File \ {f} : \A j \in 1 .. Len(content[g]) : Statement(content[g][j]) # s
                          /\ wanted[s[1]] # None /\ executed[s[1]] = s[2] => f = wanted[s[1]]
    BY DEF LinesInOneFile
  <2>1. \A g \in File \ {f} : \A j \in 1 .. Len(content[g]) : Statement(content[g][j]) # Statement(content[f][i])
    BY DEF IInv, OneFileEach
  <2>2. Placed(f, i) /\ Statement(content[f][i])[1] = content[f][i][1] /\ Statement(content[f][i])[2] = content[f][i][2]
    BY DEF IInv, AllPlaced, Statement
  <2> QED
    BY <2>1, <2>2 DEF Placed
<1> QED
  BY <1>1, Invariance, PTL

\* Unless a file could not be opened, no part of a line is lost to the switching
\* (DBG.hh:1262-1272).
THEOREM NothingMissing == Spec => []LinesComplete
<1>1. IInv => LinesComplete
  BY DEF IInv
<1> QED
  BY <1>1, Invariance, PTL

\* A line is in one file, and all of it.
THEOREM LinesAreWhole == Spec => []LinesWhole
BY OneFilePerLine, NothingMissing, PTL DEF LinesWhole

-----------------------------------------------------------------------------
(* The log as one of whole lines.  What is not shown of a file is the line   *)
(* being written, at its end; it is shown when it ends.                      *)

Shown == [f \in File |-> SubSeq(content[f], 1, Ended(f))]
Writing == {t \in Thread : pc[t] \in {"construct", "put"} /\ part[t] <= LastPart}

Splits(f, n) ==
    /\ n \in 0 .. Len(content[f])
    /\ \A i \in 1 .. Len(content[f]) : i <= n <=> ~Unended(content[f][i])

LEMMA EndedWhere == TypeInv => \A f \in File : \A n \in Nat : Splits(f, n) => Ended(f) = n
<1> SUFFICES ASSUME TypeInv, NEW f \in File, NEW n \in Nat, Splits(f, n) PROVE Ended(f) = n
  OBVIOUS
<1> DEFINE Split(m) == \A i \in 1 .. Len(content[f]) : i <= m <=> ~Unended(content[f][i])
           c == CHOOSE m \in 0 .. Len(content[f]) : Split(m)
<1>1. Len(content[f]) \in Nat /\ n \in 0 .. Len(content[f]) /\ Split(n)
  BY DEF TypeInv, Splits
<1>2. c \in 0 .. Len(content[f]) /\ Split(c)
  <2> HIDE DEF Split
  <2> QED BY <1>1
<1>3. Ended(f) = c
  BY DEF Ended
<1> HIDE DEF c
<1>4. CASE c < n
  <2>1. n \in 1 .. Len(content[f]) /\ n <= n /\ ~(n <= c)
    BY <1>1, <1>2, <1>4
  <2> QED
    BY <1>1, <1>2, <2>1
<1>5. CASE n < c
  <2>1. c \in 1 .. Len(content[f]) /\ c <= c /\ ~(c <= n)
    BY <1>1, <1>2, <1>5
  <2> QED
    BY <1>1, <1>2, <2>1
<1> QED
  BY <1>1, <1>2, <1>3, <1>4, <1>5

LEMMA EndedWhereNext == (TypeInv => \A f \in File : \A n \in Nat : Splits(f, n) => Ended(f) = n)'
BY EndedWhere, PTL

LEMMA EndedSplits ==
  ASSUME IInv, NEW f \in File
  PROVE  Splits(f, Ended(f))
<1> DEFINE L == Len(content[f])
           U == {i \in 1 .. L : Unended(content[f][i])}
<1>1. L \in Nat
  BY DEF IInv, TypeInv
<1>2. \E n : Splits(f, n)
  <2>1. CASE U = {}
    <3>1. Splits(f, L)
      BY <1>1, <2>1 DEF Splits
    <3> QED
      BY <3>1
  <2>2. CASE U # {}
    <3>1. U \in SUBSET (1 .. L)
      OBVIOUS
    <3> HIDE DEF U, L
    <3>2. PICK m \in U : \A y \in U : m <= y
      BY <1>1, <2>2, <3>1, Extremes
    <3>3. m \in 1 .. L /\ Unended(content[f][m]) /\ L = Len(content[f])
      BY <3>2 DEF U, L
    <3>4. \A k \in m .. L : Statement(content[f][k]) = Statement(content[f][m])
      <4>1. Placed(f, m)
        BY <3>3 DEF IInv, AllPlaced
      <4> QED
        BY <3>3, <4>1 DEF Placed, Unended
    <3>5. ASSUME NEW i \in 1 .. L PROVE i <= m - 1 <=> ~Unended(content[f][i])
      <4>1. CASE i <= m - 1
        <5>1. i \notin U
          BY <1>1, <3>1, <3>2, <3>3, <4>1
        <5> QED
          BY <4>1, <5>1 DEF U
      <4>2. CASE ~(i <= m - 1)
        <5>1. i \in m .. L
          BY <1>1, <3>3, <4>2
        <5>2. content[f][i][1] = content[f][m][1] /\ content[f][i][2] = content[f][m][2]
          BY <3>4, <5>1 DEF Statement
        <5> QED
          BY <3>3, <4>2, <5>2 DEF Unended
      <4> QED
        BY <4>1, <4>2
    <3>6. m - 1 \in 0 .. L
      BY <1>1, <3>3
    <3>7. Splits(f, m - 1)
      BY <3>3, <3>5, <3>6 DEF Splits
    <3> QED
      BY <3>7
  <2> QED
    BY <2>1, <2>2
<1> QED
  BY <1>1, <1>2, EndedWhere DEF IInv, Splits

LEMMA SamePrefix ==
  ASSUME NEW S, NEW a \in Seq(S), NEW b \in Seq(S), NEW n \in Nat, n <= Len(a), n <= Len(b),
         \A i \in 1 .. n : a[i] = b[i]
  PROVE  SubSeq(a, 1, n) = SubSeq(b, 1, n)
<1> DEFINE c == SubSeq(a, 1, n)
           d == SubSeq(b, 1, n)
<1>1. c \in Seq(S) /\ Len(c) = n /\ \A i \in 1 .. n : c[i] = a[i]
  OBVIOUS
<1>2. d \in Seq(S) /\ Len(d) = n /\ \A i \in 1 .. n : d[i] = b[i]
  OBVIOUS
<1> HIDE DEF c, d
<1>3. c = d
  <2>1. Len(c) = Len(d) /\ \A i \in 1 .. Len(c) : c[i] = d[i]
    BY <1>1, <1>2
  <2> QED
    BY <1>1, <1>2, <2>1
<1> QED
  BY <1>3 DEF c, d

\* What a file shows stays as long as what ended stays, and what is added has not ended.
LEMMA ShownStays ==
  ASSUME IInv, IInv', NEW f \in File,
         \A i \in 1 .. Len(content[f]) : /\ i \in 1 .. Len(content'[f]) /\ content'[f][i] = content[f][i]
                                         /\ Unended(content[f][i])' <=> Unended(content[f][i]),
         \A i \in 1 .. Len(content'[f]) : i \notin 1 .. Len(content[f]) => Unended(content[f][i])'
  PROVE  Shown'[f] = Shown[f]
<1> DEFINE L == Len(content[f])
           M == Len(content'[f])
<1>0. PICK n \in Nat : n = Ended(f)
  BY EndedSplits DEF IInv, TypeInv, Splits
<1>1. L \in Nat /\ M \in Nat /\ n \in 0 .. L /\ \A i \in 1 .. L : i <= n <=> ~Unended(content[f][i])
  <2>1. L \in Nat /\ M \in Nat
    BY DEF IInv, TypeInv
  <2>2. Splits(f, n)
    BY <1>0, EndedSplits
  <2> QED
    BY <2>1, <2>2 DEF Splits
<1>2. L <= M
  <2>1. L > 0 => L \in 1 .. L
    BY <1>1
  <2> QED
    BY <1>1, <2>1
<1>3. \A i \in 1 .. M : i <= n <=> ~Unended(content[f][i])'
  <2> SUFFICES ASSUME NEW i \in 1 .. M PROVE i <= n <=> ~Unended(content[f][i])'
    OBVIOUS
  <2>1. CASE i \in 1 .. L
    BY <1>1, <2>1
  <2>2. CASE i \notin 1 .. L
    BY <1>1, <2>2
  <2> QED
    BY <2>1, <2>2
<1>4. n \in 0 .. M
  BY <1>1, <1>2
<1>5. Splits(f, n)'
  BY <1>3, <1>4 DEF Splits
<1>6. Ended(f)' = n
  <2>1. (TypeInv => \A g \in File : \A m \in Nat : Splits(g, m) => Ended(g) = m)'
    BY EndedWhereNext
  <2> QED
    BY <1>5, <2>1 DEF IInv
<1>7. SubSeq(content'[f], 1, n) = SubSeq(content[f], 1, n)
  <2> DEFINE a == content[f]
             b == content'[f]
  <2>1. a \in Seq(Entry) /\ b \in Seq(Entry)
    BY DEF IInv, TypeInv, Entry
  <2>2. n <= Len(a) /\ n <= Len(b) /\ \A i \in 1 .. n : b[i] = a[i]
    <3>1. \A i \in 1 .. n : i \in 1 .. L
      BY <1>1
    <3> QED
      BY <1>1, <1>2, <3>1
  <2> HIDE DEF a, b
  <2>3. SubSeq(b, 1, n) = SubSeq(a, 1, n)
    BY <2>1, <2>2, SamePrefix
  <2> QED
    BY <2>3 DEF a, b
<1> QED
  BY <1>0, <1>6, <1>7 DEF Shown

LEMMA ShownTyped == Shown' = [f \in File |-> Shown'[f]] /\ Shown = [f \in File |-> Shown[f]]
BY DEF Shown

\* A step that writes nothing shows nothing, and hides nothing.
LEMMA NothingShown ==
  ASSUME IInv, IInv', content' = content,
         \A f \in File : \A i \in 1 .. Len(content[f]) :
             Unended(content[f][i])' <=> Unended(content[f][i])
  PROVE  Shown' = Shown
<1>1. ASSUME NEW f \in File PROVE Shown'[f] = Shown[f]
  BY ShownStays
<1> QED
  BY <1>1, ShownTyped

LEMMA BeginShows ==
  ASSUME IInv, IInv', NEW t \in Thread, NEW name \in File \cup {None},
         NEW first \in {1, LastPart + 1}, Begin(t, name, first)
  PROVE  /\ Shown' = Shown /\ failed' = failed
         /\ Writing' = Writing \/ (t \notin Writing /\ Writing' = Writing \cup {t})
<1>1. /\ pc[t] = "idle" /\ pc'[t] = "construct" /\ part'[t] = first
      /\ UNCHANGED <<content, failed>> /\ executed'[t] = executed[t] + 1 /\ executed[t] \in Nat
      /\ \A u \in Thread : u # t => pc'[u] = pc[u] /\ part'[u] = part[u] /\ executed'[u] = executed[u]
  BY BoundAssumption DEF Begin, stream, IInv, TypeInv
<1>2. ASSUME NEW f \in File, NEW i \in 1 .. Len(content[f])
      PROVE  Unended(content[f][i])' <=> Unended(content[f][i])
  <2>1. content'[f][i] = content[f][i] /\ content[f][i][1] \in Thread
    BY <1>1, EntryType DEF IInv
  <2> QED
    BY <1>1, <2>1 DEF Unended
<1>3. Shown' = Shown
  BY <1>1, <1>2, NothingShown
<1>4. t \notin Writing /\ (Writing' = Writing \/ Writing' = Writing \cup {t})
  <2>1. \A u \in Thread : u # t => (u \in Writing' <=> u \in Writing)
    BY <1>1 DEF Writing
  <2>2. t \notin Writing /\ Writing \subseteq Thread /\ Writing' \subseteq Thread
    BY <1>1 DEF Writing
  <2> QED
    BY <2>1, <2>2
<1> QED
  BY <1>1, <1>3, <1>4

LEMMA ConstructShows ==
  ASSUME IInv, IInv', NEW t \in Thread, construct(t)
  PROVE  Shown' = Shown /\ Writing' = Writing
<1>1. /\ pc[t] = "construct" /\ UNCHANGED <<content, part, executed>>
      /\ pc'[t] = (IF part[t] > LastPart THEN "close" ELSE "put")
      /\ \A u \in Thread : u # t => pc'[u] = pc[u]
  BY DEF construct, IInv, TypeInv
<1>2. ASSUME NEW f \in File, NEW i \in 1 .. Len(content[f])
      PROVE  Unended(content[f][i])' <=> Unended(content[f][i])
  <2>1. content'[f][i] = content[f][i] /\ content[f][i][1] \in Thread /\ Placed(f, i)
    BY <1>1, EntryType DEF IInv, AllPlaced
  <2> QED
    BY <1>1, <2>1 DEF Unended, Placed
<1>3. Shown' = Shown
  BY <1>1, <1>2, NothingShown
<1>4. \A u \in Thread : u \in Writing' <=> u \in Writing
  <2>1. part[t] \in 1 .. LastPart + 1
    BY DEF IInv, TypeInv
  <2> QED
    BY <1>1, <2>1 DEF Writing, LastPart, Items
<1> QED
  BY <1>3, <1>4 DEF Writing

LEMMA CloseShows ==
  ASSUME IInv, IInv', NEW t \in Thread, close(t)
  PROVE  Shown' = Shown /\ Writing' = Writing
<1>1. /\ pc[t] = "close" /\ pc'[t] = "idle" /\ UNCHANGED <<content, part, executed>>
      /\ \A u \in Thread : u # t => pc'[u] = pc[u]
  BY DEF close, IInv, TypeInv
<1>2. ASSUME NEW f \in File, NEW i \in 1 .. Len(content[f])
      PROVE  Unended(content[f][i])' <=> Unended(content[f][i])
  <2>1. content'[f][i] = content[f][i] /\ content[f][i][1] \in Thread
    BY <1>1, EntryType DEF IInv
  <2> QED
    BY <1>1, <2>1 DEF Unended
<1>3. Shown' = Shown
  BY <1>1, <1>2, NothingShown
<1>4. \A u \in Thread : u \in Writing' <=> u \in Writing
  BY <1>1 DEF Writing
<1> QED
  BY <1>3, <1>4 DEF Writing

\* What the statement with the mutex writes is at the end of the current file.
LEMMA PutWrites ==
  ASSUME IInv, NEW t \in Thread, pc[t] = "put", NEW name \in {wanted[t], None}, streamer(name, TRUE)
  PROVE  /\ part[t] \in Part /\ executed[t] \in 1 .. MaxStatements /\ \A u \in Thread : u # t => ~Holds(u)
         /\ filename' \in File /\ is_open' \in BOOLEAN /\ failed' \in BOOLEAN
         /\ filename # None => filename' = filename
         /\ ~failed' => ~failed
<1>1. Holds(t) /\ mutex = t /\ part[t] \in Part /\ executed[t] \in 1 .. MaxStatements
  <2>1. part[t] \in 1 .. LastPart + 1 /\ part[t] <= LastPart
    BY DEF IInv, TypeInv, Guarded, Holds
  <2>2. executed[t] \in 0 .. MaxStatements /\ executed[t] >= 1
    BY DEF IInv, TypeInv, Guarded, Holds
  <2> QED
    BY <2>1, <2>2, BoundAssumption DEF Part, IInv, Guarded, Holds, LastPart, Items
<1>2. \A u \in Thread : u # t => ~Holds(u)
  BY <1>1 DEF IInv, Guarded
<1> QED
  BY <1>1, <1>2, Streamed DEF IInv

LEMMA PutShows ==
  ASSUME IInv, IInv', NEW t \in Thread, put_item(t)
  PROVE  Shown' = Shown /\ Writing' = Writing
<1>1. /\ pc[t] = "put" /\ part[t] <= Items /\ streamer(wanted[t], TRUE) /\ Put(t)
      /\ UNCHANGED <<pc, executed>> /\ part' = [part EXCEPT ![t] = @ + 1]
  BY DEF put_item
<1>2. /\ part[t] \in Part /\ executed[t] \in 1 .. MaxStatements /\ executed[t] >= 1
      /\ filename' \in File /\ is_open' \in BOOLEAN
  <2>1. part[t] \in Part /\ executed[t] \in 1 .. MaxStatements /\ filename' \in File /\ is_open' \in BOOLEAN
    BY <1>1, PutWrites
  <2> QED
    BY <2>1, BoundAssumption
<1>3. ASSUME NEW f \in File PROVE Shown'[f] = Shown[f]
  <2>1. ASSUME NEW i \in 1 .. Len(content[f])
        PROVE  /\ i \in 1 .. Len(content'[f]) /\ content'[f][i] = content[f][i]
               /\ Unended(content[f][i])' <=> Unended(content[f][i])
    BY <1>1, <1>2, Old DEF Unended
  <2>2. ASSUME NEW i \in 1 .. Len(content'[f]), i \notin 1 .. Len(content[f])
        PROVE  Unended(content[f][i])'
    <3>1. content'[f][i] = <<t, executed[t], part[t]>>
      BY <1>1, <1>2, <2>2, New
    <3> QED
      BY <1>1, <3>1 DEF Unended
  <2> QED
    BY <2>1, <2>2, ShownStays
<1>4. \A u \in Thread : u \in Writing' <=> u \in Writing
  <2>1. part'[t] = part[t] + 1 /\ part[t] \in Nat /\ \A u \in Thread : u # t => part'[u] = part[u]
    BY <1>1, <1>2 DEF IInv, TypeInv, Part, LastPart, Items
  <2> QED
    BY <1>1, <2>1 DEF Writing, LastPart, Items
<1> QED
  BY <1>3, <1>4, ShownTyped DEF Writing

LEMMA Joined ==
  ASSUME NEW S, NEW a \in Seq(S), NEW b \in Seq(S), NEW c \in Seq(S), Len(c) = Len(a) + Len(b),
         \A i \in 1 .. Len(a) : c[i] = a[i], \A i \in 1 .. Len(b) : c[Len(a) + i] = b[i]
  PROVE  c = a \o b
<1> DEFINE d == a \o b
<1>1. /\ d \in Seq(S) /\ Len(d) = Len(a) + Len(b) /\ Len(a) \in Nat /\ Len(b) \in Nat
      /\ \A i \in 1 .. Len(a) : d[i] = a[i]
  OBVIOUS
<1>2. \A i \in 1 .. Len(b) : d[Len(a) + i] = b[i]
  OBVIOUS
<1> HIDE DEF d
<1>3. ASSUME NEW i \in 1 .. Len(c) PROVE c[i] = d[i]
  <2>1. CASE i <= Len(a)
    BY <1>1, <2>1
  <2>2. CASE ~(i <= Len(a))
    <3>1. PICK j \in 1 .. Len(b) : i = Len(a) + j
      <4>1. i - Len(a) \in 1 .. Len(b) /\ i = Len(a) + (i - Len(a))
        BY <1>1, <2>2
      <4> QED
        BY <4>1
    <3> QED
      BY <1>2, <3>1
  <2> QED
    BY <2>1, <2>2
<1>4. c = d
  BY <1>1, <1>3
<1> QED
  BY <1>4 DEF d

LEMMA ItemsInOrder ==
  ASSUME NEW S, NEW n \in Nat, NEW b \in [1 .. n -> S]
  PROVE  b \in Seq(S) /\ Len(b) = n
  OBVIOUS

\* The end of a line shows all of it: what is at the end of the file where the
\* statement writes, in order, and complete unless a file could not be opened.
LEMMA EndShows ==
  ASSUME IInv, IInv', NEW t \in Thread, end_line(t)
  PROVE  Log!WriteLine(t)
<1>1. /\ pc[t] = "put" /\ part[t] = LastPart /\ streamer(None, TRUE) /\ Put(t)
      /\ pc' = [pc EXCEPT ![t] = "close"] /\ UNCHANGED <<part, executed>>
  BY DEF end_line
<1>2. /\ part[t] \in Part /\ executed[t] \in 1 .. MaxStatements /\ \A u \in Thread : u # t => ~Holds(u)
      /\ filename' \in File /\ is_open' \in BOOLEAN /\ failed' \in BOOLEAN
      /\ filename # None => filename' = filename
      /\ ~failed' => ~failed
  BY <1>1, PutWrites
<1>3. executed[t] >= 1 /\ executed[t] \in Nat
  BY <1>2, BoundAssumption
<1>4. /\ pc'[t] = "close" /\ pc' \in [Thread -> {"idle", "construct", "put", "close"}]
      /\ \A u \in Thread : pc'[u] # "put"
      /\ \A u \in Thread : u # t => pc'[u] = pc[u] /\ pc[u] # "put"
  BY <1>1, <1>2 DEF Holds, IInv, TypeInv
<1> DEFINE g == filename'
           h == content'[g]
<1>5. PICK n \in Nat : n = Ended(g)
  BY <1>2, EndedSplits DEF IInv, TypeInv, Splits
<1>6. \A f \in File : /\ Len(content[f]) \in Nat /\ Len(content'[f]) \in Nat
                      /\ content[f] \in Seq(Entry) /\ content'[f] \in Seq(Entry)
  <2>1. content \in [File -> Seq(Entry)] /\ content' \in [File -> Seq(Entry)]
    BY DEF IInv, TypeInv, Entry
  <2> QED
    BY <2>1
<1>7. n \in 0 .. Len(content[g]) /\ \A i \in 1 .. Len(content[g]) : i <= n <=> ~Unended(content[g][i])
  BY <1>2, <1>5, EndedSplits DEF Splits
<1>8. \A f \in File : Shown'[f] = content'[f]
  <2> SUFFICES ASSUME NEW f \in File PROVE Shown'[f] = content'[f]
    OBVIOUS
  <2>1. PICK m \in Nat : m = Len(content'[f])
    BY <1>6
  <2>2. ASSUME NEW i \in 1 .. m PROVE i <= m <=> ~Unended(content[f][i])'
    <3>1. content'[f][i] \in Entry /\ content'[f][i][1] \in Thread
      BY <1>6, <2>1 DEF Entry
    <3> QED
      BY <1>4, <2>1, <3>1 DEF Unended
  <2>3. Splits(f, m)'
    BY <2>1, <2>2 DEF Splits
  <2>4. Ended(f)' = m
    BY <2>3, EndedWhereNext DEF IInv
  <2>5. SubSeq(content'[f], 1, m) = content'[f]
    <3> DEFINE c == content'[f]
    <3>1. c \in Seq(Entry) /\ m = Len(c)
      BY <1>6, <2>1
    <3> HIDE DEF c
    <3> QED
      BY <3>1 DEF c
  <2> QED
    BY <2>4, <2>5 DEF Shown
\* Entries that have not ended are this statement's.
<1>9. ASSUME NEW f \in File, NEW i \in 1 .. Len(content[f]), Unended(content[f][i])
      PROVE  f = g /\ Statement(content[f][i]) = <<t, executed[t]>>
  <2>1. content[f][i][1] = t /\ content[f][i][2] = executed[t]
    <3>1. content[f][i][1] \in Thread
      BY EntryType DEF IInv
    <3> QED
      BY <1>4, <1>9, <3>1 DEF Unended
  <2>2. Statement(content[f][i]) = <<t, executed[t]>>
    BY <2>1 DEF Statement
  <2> QED
    BY <1>1, <1>2, <2>2, OwnLine
<1>10. ASSUME NEW f \in File, f # g PROVE Shown'[f] = Shown[f]
  <2>1. PICK m \in Nat : m = Len(content[f])
    BY <1>6
  <2>2. \A i \in 1 .. m : ~Unended(content[f][i])
    BY <1>9, <1>10, <2>1
  <2>3. Splits(f, m)
    BY <2>1, <2>2 DEF Splits
  <2>4. Ended(f) = m
    BY <2>3, EndedWhere DEF IInv
  <2>5. SubSeq(content[f], 1, m) = content[f]
    <3> DEFINE c == content[f]
    <3>1. c \in Seq(Entry) /\ m = Len(c)
      BY <1>6, <2>1
    <3> HIDE DEF c
    <3> QED
      BY <3>1 DEF c
  <2>6. content'[f] = content[f]
    BY <1>1, <1>2, <1>3, <1>10, Appended DEF IInv
  <2> QED
    BY <1>8, <2>4, <2>5, <2>6 DEF Shown
<1> DEFINE m == Len(h) - n
           s == [i \in 1 .. m |-> h[n + i][3]]
<1>11. m \in Nat /\ n <= Len(h) /\ \A i \in 1 .. m : n + i \in 1 .. Len(h)
  <2>1. Len(content[g]) <= Len(h)
    <3>1. Len(content[g]) > 0 => Len(content[g]) \in 1 .. Len(content[g])
      BY <1>2, <1>6
    <3>2. \A i \in 1 .. Len(content[g]) : i \in 1 .. Len(h)
      BY <1>1, <1>2, <1>3, Old
    <3> QED
      BY <1>2, <1>6, <3>1, <3>2
  <2> QED
    BY <1>2, <1>6, <1>7, <2>1
<1>12. ASSUME NEW i \in 1 .. Len(h)
       PROVE  /\ i <= n => i \in 1 .. Len(content[g]) /\ h[i] = content[g][i]
              /\ i > n => h[i] \in Entry /\ Statement(h[i]) = <<t, executed[t]>>
  <2>1. CASE i \in 1 .. Len(content[g])
    <3>1. h[i] = content[g][i] /\ h[i] \in Entry
      BY <1>1, <1>2, <1>3, <1>6, <2>1, Old
    <3>2. i > n => Unended(content[g][i])
      BY <1>7, <2>1
    <3> QED
      BY <1>2, <1>9, <2>1, <3>1, <3>2
  <2>2. CASE i \notin 1 .. Len(content[g])
    <3>1. h[i] = <<t, executed[t], part[t]>>
      BY <1>1, <1>2, <1>3, <2>2, New
    <3>2. h[i] \in Entry /\ Statement(h[i]) = <<t, executed[t]>>
      BY <1>2, <1>6, <3>1 DEF Statement
    <3>3. ~(i <= n)
      BY <1>2, <1>6, <1>7, <2>2
    <3> QED
      BY <3>2, <3>3
  <2> QED
    BY <2>1, <2>2
<1> HIDE DEF g
<1>13. h = SubSeq(content[g], 1, n) \o Log!Line(t, executed[t], s)
  <2> DEFINE a == SubSeq(content[g], 1, n)
             b == Log!Line(t, executed[t], s)
  <2>1. a \in Seq(Entry) /\ Len(a) = n /\ \A i \in 1 .. n : a[i] = content[g][i]
    <3> DEFINE c == content[g]
    <3>1. c \in Seq(Entry) /\ n \in Nat /\ n <= Len(c)
      BY <1>2, <1>6, <1>7 DEF g
    <3> HIDE DEF c
    <3> QED
      BY <3>1 DEF c
  <2>2. ASSUME NEW i \in 1 .. m PROVE h[n + i] \in Entry /\ h[n + i] = <<t, executed[t], h[n + i][3]>>
    <3> DEFINE e == h[n + i]
    <3>1. n + i \in 1 .. Len(h) /\ n + i > n
      BY <1>7, <1>11
    <3>2. e \in Entry /\ Statement(e) = <<t, executed[t]>>
      BY <1>12, <3>1
    <3> HIDE DEF e
    <3>3. e = <<e[1], e[2], e[3]>> /\ e[1] = t /\ e[2] = executed[t]
      BY <3>2 DEF Entry, Statement
    <3> QED
      BY <3>2, <3>3 DEF e
  <2>3. b = [i \in 1 .. m |-> h[n + i]]
    <3>1. b = [i \in 1 .. m |-> <<t, executed[t], h[n + i][3]>>]
      BY DEF Log!Line
    <3> HIDE DEF b, h, m
    <3> QED
      BY <2>2, <3>1
  <2>4. b \in Seq(Entry) /\ Len(b) = m /\ \A i \in 1 .. m : b[i] = h[n + i]
    <3> HIDE DEF b, h, m
    <3>1. \A i \in 1 .. m : h[n + i] \in Entry
      BY <2>2
    <3> DEFINE e(i) == h[n + i]
    <3> HIDE DEF e
    <3>2. b = [i \in 1 .. m |-> e(i)]
      BY <2>3 DEF e
    <3>3. \A i \in 1 .. m : e(i) \in Entry
      BY <3>1 DEF e
    <3>4. b \in [1 .. m -> Entry] /\ \A i \in 1 .. m : b[i] = e(i)
      BY <3>2, <3>3
    <3>5. b \in Seq(Entry) /\ Len(b) = m
      BY <1>11, <3>4, ItemsInOrder
    <3> QED
      BY <3>4, <3>5 DEF e
  <2>5. h \in Seq(Entry)
    BY <1>2, <1>6 DEF g
  <2>6. Len(h) = n + m /\ \A i \in 1 .. n : h[i] = a[i]
    <3>1. \A i \in 1 .. n : i \in 1 .. Len(h)
      BY <1>11
    <3>2. \A i \in 1 .. n : h[i] = content[g][i]
      BY <1>12, <3>1
    <3>3. Len(h) \in Nat
      BY <2>5
    <3> QED
      BY <2>1, <3>2, <3>3
  <2> HIDE DEF a, b, h, m
  <2>7. h = a \o b
    BY <2>1, <2>4, <2>5, <2>6, Joined
  <2> QED
    BY <2>7 DEF a, b
<1>14. s \in [1 .. m -> Part] /\ \A i \in 1 .. m : i + 1 \in 1 .. m => s[i] < s[i + 1]
  <2>1. ASSUME NEW i \in 1 .. m
        PROVE  n + i \in 1 .. Len(h) /\ h[n + i][3] \in Part /\ Statement(h[n + i]) = <<t, executed[t]>>
    <3>1. n + i \in 1 .. Len(h) /\ n + i > n
      BY <1>7, <1>11
    <3>2. h[n + i] \in Entry /\ Statement(h[n + i]) = <<t, executed[t]>>
      BY <1>12, <3>1
    <3> QED
      BY <3>1, <3>2 DEF Entry
  <2>2. ASSUME NEW i \in 1 .. m, i + 1 \in 1 .. m PROVE s[i] < s[i + 1]
    <3> DEFINE j == n + i
    <3>1. j \in 1 .. Len(h) /\ j + 1 \in 1 .. Len(h) /\ n + (i + 1) = j + 1 /\ j \in j .. (j + 1) - 1 /\ j < j + 1
      BY <1>7, <1>11, <2>1, <2>2
    <3>2. Statement(h[j]) = Statement(h[j + 1])
      BY <2>1, <2>2, <3>1
    <3>3. s[i] = h[j][3] /\ s[i + 1] = h[j + 1][3]
      BY <2>2, <3>1
    <3> HIDE DEF j, s, m
    <3>4. h[j][3] < h[j + 1][3]
      BY <1>2, <3>1, <3>2 DEF IInv, LinesNotGarbled, g
    <3> QED
      BY <3>3, <3>4
  <2>3. s \in [1 .. m -> Part]
    BY <2>1
  <2> QED
    BY <2>2, <2>3
<1>15. s \in Log!Parts
  <2> HIDE DEF s, m
  <2>1. \A i \in 1 .. m : s[i] \in 1 .. 3
    BY <1>14 DEF Part, LastPart, Items
  <2>2. m <= 3
    <3> SUFFICES ASSUME m >= 4 PROVE FALSE
      BY <1>11
    <3>1. 1 \in 1 .. m /\ 1 + 1 \in 1 .. m /\ 2 \in 1 .. m /\ 2 + 1 \in 1 .. m
          /\ 3 \in 1 .. m /\ 3 + 1 \in 1 .. m /\ 4 \in 1 .. m
      BY <1>11
    <3>2. s[1] < s[2] /\ s[2] < s[3] /\ s[3] < s[4]
      <4>1. s[1] < s[1 + 1] /\ s[2] < s[2 + 1] /\ s[3] < s[3 + 1]
        BY <1>14, <3>1
      <4> QED
        BY <4>1
    <3>3. s[1] \in 1 .. 3 /\ s[2] \in 1 .. 3 /\ s[3] \in 1 .. 3 /\ s[4] \in 1 .. 3
      BY <2>1, <3>1
    <3> QED
      BY <3>2, <3>3
  <2>3. \A i, j \in 1 .. m : i < j => s[i] < s[j]
    <3> SUFFICES ASSUME NEW i \in 1 .. m, NEW j \in 1 .. m, i < j PROVE s[i] < s[j]
      OBVIOUS
    <3>1. CASE j = i + 1
      BY <1>14, <3>1
    <3>2. CASE j # i + 1
      <4>1. i = 1 /\ j = 3 /\ m = 3
        BY <1>11, <2>2, <3>2
      <4>2. 1 \in 1 .. m /\ 2 \in 1 .. m /\ 3 \in 1 .. m /\ 1 + 1 = 2 /\ 2 + 1 = 3
        BY <4>1
      <4>3. s[1] < s[2] /\ s[2] < s[3]
        <5>1. s[1] < s[1 + 1] /\ s[2] < s[2 + 1]
          BY <1>14, <4>2
        <5> QED
          BY <5>1
      <4>4. s[1] \in 1 .. 3 /\ s[2] \in 1 .. 3 /\ s[3] \in 1 .. 3
        BY <2>1, <4>2
      <4> QED
        BY <4>1, <4>3, <4>4
    <3> QED
      BY <3>1, <3>2
  <2>4. DOMAIN s = 1 .. m /\ m \in 0 .. LastPart /\ s \in [1 .. m -> 1 .. LastPart]
    BY <1>11, <1>14, <2>2 DEF Part, LastPart, Items
  <2> QED
    BY <2>3, <2>4 DEF Log!Parts
<1>16. failed' \/ \A p \in 1 .. LastPart : \E i \in DOMAIN s : s[i] = p
  <2> SUFFICES ASSUME ~failed', NEW p \in 1 .. LastPart PROVE \E i \in 1 .. m : s[i] = p
    OBVIOUS
  <2>1. p \in Part /\ pc'[t] = "close" /\ part'[t] = LastPart /\ executed'[t] = executed[t]
    BY <1>1, <1>4 DEF Part
  <2>2. PICK f \in File : \E i \in 1 .. Len(content'[f]) : content'[f][i] = <<t, executed[t], p>>
    BY <2>1 DEF IInv, LinesComplete
  <2>3. PICK k \in 1 .. Len(content'[f]) : content'[f][k] = <<t, executed[t], p>>
    BY <2>2
  <2>4. f = g /\ ~(k <= n)
    <3>1. CASE k \in 1 .. Len(content[f])
      <4>1. content[f][k] = <<t, executed[t], p>>
        BY <1>1, <1>2, <1>3, <2>3, <3>1, Old DEF g
      <4>2. Unended(content[f][k])
        BY <1>1, <4>1 DEF Unended
      <4>3. f = g
        BY <1>9, <3>1, <4>2 DEF g
      <4> QED
        BY <1>7, <3>1, <4>2, <4>3
    <3>2. CASE k \notin 1 .. Len(content[f])
      <4>1. f = g
        BY <1>1, <1>2, <1>3, <3>2, New DEF g
      <4>2. k \notin 1 .. Len(content[g]) /\ Len(content[g]) \in Nat
        BY <1>2, <1>6, <3>2, <4>1 DEF g
      <4> QED
        BY <1>7, <4>1, <4>2
    <3> QED
      BY <3>1, <3>2
  <2>5. h[k] = <<t, executed[t], p>> /\ k \in 1 .. Len(h) /\ h[k][3] = p
    BY <2>3, <2>4 DEF g
  <2>6. k - n \in 1 .. m /\ n + (k - n) = k
    BY <1>7, <1>11, <2>4, <2>5
  <2>7. s[k - n] = p
    BY <2>5, <2>6
  <2> QED
    BY <2>6, <2>7
<1>17. \A f \in File : \A i \in 1 .. Len(Shown[f]) : Shown[f][i][1] = t => Shown[f][i][2] < executed[t]
  <2> SUFFICES ASSUME NEW f \in File, NEW i \in 1 .. Len(Shown[f]), Shown[f][i][1] = t
               PROVE  Shown[f][i][2] < executed[t]
    OBVIOUS
  <2>1. PICK k \in Nat : k = Ended(f)
    BY EndedSplits DEF IInv, TypeInv, Splits
  <2>2. k \in 0 .. Len(content[f]) /\ \A j \in 1 .. Len(content[f]) : j <= k <=> ~Unended(content[f][j])
    BY <2>1, EndedSplits DEF Splits
  <2>3. Len(Shown[f]) = k /\ \A j \in 1 .. k : Shown[f][j] = content[f][j]
    <3> DEFINE c == content[f]
    <3>1. c \in Seq(Entry) /\ k <= Len(c) /\ Shown[f] = SubSeq(c, 1, k)
      BY <1>6, <2>1, <2>2 DEF Shown
    <3> HIDE DEF c
    <3> QED
      BY <3>1 DEF c
  <2>4. i \in 1 .. Len(content[f]) /\ i <= k /\ Shown[f][i] = content[f][i]
    BY <1>6, <2>2, <2>3
  <2>5. ~Unended(content[f][i]) /\ Placed(f, i) /\ content[f][i][2] \in Nat /\ content[f][i][1] = t
    <3>1. content[f][i][2] \in 1 .. MaxStatements
      BY <2>4, EntryType DEF IInv
    <3> QED
      BY <2>2, <2>4, <3>1, BoundAssumption DEF IInv, AllPlaced
  <2>6. content[f][i][2] <= executed[t] /\ content[f][i][2] # executed[t]
    BY <1>1, <2>5 DEF Unended, Placed
  <2> QED
    BY <1>3, <2>4, <2>5, <2>6
<1>18. t \in Writing /\ Writing' = Writing \ {t}
  <2>1. t \in Writing /\ t \notin Writing'
    BY <1>1, <1>4 DEF Writing, LastPart, Items
  <2>2. \A u \in Thread : u # t => (u \in Writing' <=> u \in Writing)
    BY <1>1, <1>4 DEF Writing
  <2> QED
    BY <2>1, <2>2 DEF Writing
<1>19. Shown' = [Shown EXCEPT ![g] = @ \o Log!Line(t, executed[t], s)]
  <2> DEFINE l == Log!Line(t, executed[t], s)
  <2>1. Shown'[g] = Shown[g] \o l
    BY <1>2, <1>5, <1>8, <1>13 DEF Shown, g
  <2>2. \A f \in File : f # g => Shown'[f] = Shown[f]
    BY <1>10 DEF g
  <2> HIDE DEF l
  <2> QED
    BY <1>2, <2>1, <2>2, ShownTyped DEF g, l
<1> HIDE DEF s, m, h
<1>20. /\ g \in File /\ executed[t] \in 1 .. MaxStatements /\ failed' \in BOOLEAN /\ (failed => failed')
  BY <1>2 DEF g
<1>21. Log!Follows(t, executed[t])
  BY <1>17 DEF Log!Follows, Shown
<1> DEFINE Writes(f, k, p) ==
             /\ Log!Follows(t, k)
             /\ Shown' = [Shown EXCEPT ![f] = @ \o Log!Line(t, k, p)]
             /\ failed' \in BOOLEAN /\ (failed => failed')
             /\ failed' \/ \A q \in 1 .. LastPart : \E i \in DOMAIN p : p[i] = q
<1>22. Writes(g, executed[t], s)
  BY <1>16, <1>19, <1>20, <1>21
<1> HIDE DEF Writes
<1>23. \E f \in File, k \in 1 .. MaxStatements, p \in Log!Parts : Writes(f, k, p)
  BY <1>15, <1>20, <1>22
<1> QED
  BY ONLY <1>18, <1>23, Zenon DEF Log!WriteLine, Writes, Shown, Writing

LEMMA StaysFailed ==
  ASSUME IInv, NEW name, NEW open,
         streamer(name, open) \/ UNCHANGED <<filename, is_open, failed>>
  PROVE  failed' = failed \/ failed' = TRUE
<1>1. failed \in BOOLEAN
  BY DEF IInv, TypeInv
<1>2. failed' = failed \/ \E opened \in BOOLEAN : failed' = (failed \/ ~opened)
  BY DEF streamer
<1> QED
  BY <1>1, <1>2

\* However many threads log, to however many files: seen by the line, the log
\* grows by whole lines, each written at once between the begin and the end of
\* its statement, and a thread's in their order (DBG.hh:1276).
THEOREM DbgLogImplementsLineLog == Spec => ImplementsLineLog
<1>1. Init => Log!Init
  <2> SUFFICES ASSUME Init PROVE Log!Init
    OBVIOUS
  <2>1. \A f \in File : Shown[f] = <<>>
    <3> SUFFICES ASSUME NEW f \in File PROVE Shown[f] = <<>>
      OBVIOUS
    <3>1. IInv /\ content[f] = <<>>
      BY InitInv DEF Init
    <3>2. Ended(f) = 0
      <4>1. Splits(f, Ended(f)) /\ Len(content[f]) = 0
        BY <3>1, EndedSplits
      <4> QED
        BY <4>1 DEF Splits
    <3> QED
      BY <3>1, <3>2 DEF Shown
  <2>2. Shown = [f \in File |-> <<>>]
    BY <2>1, ShownTyped
  <2>3. Writing = {} /\ failed = FALSE
    BY DEF Init, Writing
  <2> QED
    BY <2>2, <2>3 DEF Log!Init, Shown, Writing
<1>2. IInv /\ IInv' /\ [Next]_vars => [Log!Next]_(Log!lineVars)
  <2> SUFFICES ASSUME IInv, IInv', [Next]_vars PROVE [Log!Next]_(Log!lineVars)
    OBVIOUS
  <2>1. Shown' = Shown /\ Writing' = Writing /\ failed' = failed => UNCHANGED Log!lineVars
    BY DEF Log!lineVars, Shown, Writing
  <2>2. Shown' = Shown /\ Writing' = Writing /\ failed' = TRUE => Log!Next
    BY DEF Log!Next, Log!Fail, Shown, Writing
  <2>3. ASSUME Shown' = Shown, Writing' = Writing, failed' = failed \/ failed' = TRUE
        PROVE  [Log!Next]_(Log!lineVars)
    <3>1. CASE failed' = failed
      BY <2>1, <2>3, <3>1
    <3>2. CASE failed' = TRUE
      BY <2>2, <2>3, <3>2
    <3> QED
      BY <2>3, <3>1, <3>2
  <2>4. ASSUME NEW t \in Thread, DBGLOG(t) \/ DBGLOGX(t) \/ DBGLOG_USE(t) PROVE [Log!Next]_(Log!lineVars)
    <3>1. PICK name \in File \cup {None}, first \in {1, LastPart + 1} : Begin(t, name, first)
      BY <2>4 DEF DBGLOG, DBGLOGX, DBGLOG_USE
    <3>2. /\ Shown' = Shown /\ failed' = failed
          /\ Writing' = Writing \/ (t \notin Writing /\ Writing' = Writing \cup {t})
      BY <3>1, BeginShows
    <3>3. CASE t \notin Writing /\ Writing' = Writing \cup {t}
      <4>1. Log!Begin(t)
        BY <3>2, <3>3 DEF Log!Begin, Shown, Writing
      <4> QED
        BY <4>1 DEF Log!Next
    <3> QED
      BY <2>1, <3>2, <3>3
  <2>5. ASSUME NEW t \in Thread, construct(t) PROVE [Log!Next]_(Log!lineVars)
    <3>1. Shown' = Shown /\ Writing' = Writing
      BY <2>5, ConstructShows
    <3>2. failed' = failed \/ failed' = TRUE
      BY <2>5, StaysFailed DEF construct
    <3> QED
      BY <2>3, <3>1, <3>2
  <2>6. ASSUME NEW t \in Thread, put_item(t) PROVE [Log!Next]_(Log!lineVars)
    <3>1. Shown' = Shown /\ Writing' = Writing
      BY <2>6, PutShows
    <3>2. failed' = failed \/ failed' = TRUE
      BY <2>6, StaysFailed DEF put_item
    <3> QED
      BY <2>3, <3>1, <3>2
  <2>7. ASSUME NEW t \in Thread, end_line(t) PROVE [Log!Next]_(Log!lineVars)
    BY <2>7, EndShows DEF Log!Next
  <2>8. ASSUME NEW t \in Thread, close(t) PROVE [Log!Next]_(Log!lineVars)
    <3>1. Shown' = Shown /\ Writing' = Writing
      BY <2>8, CloseShows
    <3>2. failed' = failed \/ failed' = TRUE
      BY <2>8, StaysFailed DEF close
    <3> QED
      BY <2>3, <3>1, <3>2
  <2>9. CASE UNCHANGED vars
    BY <2>9 DEF vars, Log!lineVars, Ended, Unended
  <2> QED
    BY <2>4, <2>5, <2>6, <2>7, <2>8, <2>9 DEF Next, Step
<1> QED
  BY <1>1, <1>2, InitInv, NextInv, PTL DEF Spec, ImplementsLineLog, Log!Spec
=============================================================================
