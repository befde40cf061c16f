---------------------------- MODULE DbgTraceProofs ----------------------------
(***************************************************************************)
(* For any statements, functions and depths: the output follows the        *)
(* program.  The argument is about three things that must agree: the open  *)
(* statements, whose instance is the current one as long as no operand     *)
(* switches; the buffers, which hold parts of these statements only; and   *)
(* the scopes among the frames, which the tracer's stack, its level and    *)
(* the levels of the scopes all tell.                                      *)
(***************************************************************************)
EXTENDS DbgTrace, Inductions, SequenceTheorems

Instance == {"live", "silent"}
Kind == {"DBGRAW", "DBG", "DBGDUMP"}
Statement == [id : Stmt, kind : Kind, instance : Instance, items : Nat,
              quoted : SUBSET BOOLEAN, disturbed : BOOLEAN]
Scope == [func : Func, level : 0..MAXNESTLEVEL]
Frame == Statement \cup Scope

LEMMA Kinds == (\A f \in Statement : IsStatement(f)) /\ (\A f \in Scope : ~IsStatement(f))
BY DEF Statement, Scope, IsStatement

-----------------------------------------------------------------------------
(* The scopes among the frames.                                            *)

\* w[n] are the scopes among the first n frames.
Walks(w, fs) ==
    /\ w \in [0..Len(fs) -> Seq(Scope)] /\ w[0] = <<>>
    /\ \A n \in 1..Len(fs) : w[n] = IF IsStatement(fs[n]) THEN w[n - 1] ELSE Append(w[n - 1], fs[n])
    /\ ScopesIn(fs) = w[Len(fs)]

LEMMA ScopesWalked ==
  ASSUME NEW fs \in Seq(Frame)
  PROVE  \E w : Walks(w, fs)
<1> DEFINE N == Len(fs)
           Body(w) == [n \in 0..N |-> IF n = 0 THEN <<>>
                                      ELSE IF IsStatement(fs[n]) THEN w[n - 1] ELSE Append(w[n - 1], fs[n])]
           F == [n \in Nat |-> [u \in Seq(Scope) |->
                    IF n < N THEN IF IsStatement(fs[n + 1]) THEN u ELSE Append(u, fs[n + 1]) ELSE u]]
<1>0. N \in Nat /\ \A n \in 1..N : fs[n] \in Statement \cup Scope
  BY DEF Frame
<1>1. ScopesIn(fs) = (CHOOSE w : w = Body(w))[N]
  BY DEF ScopesIn
<1>2. F \in [Nat -> [Seq(Scope) -> Seq(Scope)]]
  <2>1. ASSUME NEW n \in Nat, NEW u \in Seq(Scope), n < N, ~IsStatement(fs[n + 1])
        PROVE  Append(u, fs[n + 1]) \in Seq(Scope)
    <3>1. fs[n + 1] \in Scope
      BY <1>0, <2>1, Kinds
    <3> QED
      BY <3>1
  <2> HIDE DEF N
  <2> QED
    BY <2>1
<1>3. PICK g \in [Nat -> Seq(Scope)] : g[0] = <<>> /\ \A n \in Nat : g[n + 1] = F[n][g[n]]
  <2>1. <<>> \in Seq(Scope)
    OBVIOUS
  <2> DEFINE E == Seq(Scope)
  <2>3. F \in [Nat -> [E -> E]] /\ <<>> \in E
    BY <1>2, <2>1
  <2> HIDE DEF F, E
  <2>5. Recursive(E)
    BY RecursiveAll
  <2> DEFINE start == <<>>
  <2>6. start \in E
    BY <2>3
  <2> HIDE DEF start
  <2>7. \E g \in [Nat -> E] : g[0] = start /\ \A n \in Nat : g[n + 1] = F[n][g[n]]
    BY <2>3, <2>5, <2>6 DEF Recursive
  <2>4. \E g \in [Nat -> E] : g[0] = <<>> /\ \A n \in Nat : g[n + 1] = F[n][g[n]]
    BY <2>7 DEF start
  <2> QED
    BY <2>4 DEF E
<1> DEFINE w == [n \in 0..N |-> g[n]]
<1>4. \A n \in 1..N : g[n] = IF IsStatement(fs[n]) THEN g[n - 1] ELSE Append(g[n - 1], fs[n])
  <2> SUFFICES ASSUME NEW n \in 1..N
               PROVE  g[n] = IF IsStatement(fs[n]) THEN g[n - 1] ELSE Append(g[n - 1], fs[n])
    OBVIOUS
  <2> DEFINE k == n - 1
  <2>1. k \in Nat /\ k + 1 = n /\ k < N
    BY <1>0
  <2> HIDE DEF k, N
  <2>2. g[k + 1] = F[k][g[k]] /\ g[k] \in Seq(Scope)
    BY <1>3, <2>1
  <2>3. g[k + 1] = IF IsStatement(fs[k + 1]) THEN g[k] ELSE Append(g[k], fs[k + 1])
    BY <2>1, <2>2
  <2> QED
    BY <2>1, <2>3 DEF k
<1>5. w \in [0..N -> Seq(Scope)] /\ w[0] = <<>>
  BY <1>0, <1>3
<1>6. \A n \in 1..N : w[n] = IF IsStatement(fs[n]) THEN w[n - 1] ELSE Append(w[n - 1], fs[n])
  <2> HIDE DEF N
  <2>1. \A n \in 1..N : n \in 0..N /\ n - 1 \in 0..N
    BY <1>0
  <2>2. \A n \in 0..N : w[n] = g[n]
    OBVIOUS
  <2> HIDE DEF w
  <2> QED
    BY <1>4, <2>1, <2>2
<1> HIDE DEF N
<1>7. w = Body(w)
  <2> HIDE DEF w
  <2>1. \A n \in 0..N : Body(w)[n] = w[n]
    <3> SUFFICES ASSUME NEW n \in 0..N PROVE Body(w)[n] = w[n]
      OBVIOUS
    <3>1. CASE n = 0
      BY <1>5, <3>1
    <3>2. CASE n # 0
      <4>1. n \in 1..N
        BY <1>0, <3>2
      <4> QED
        BY <1>6, <3>2, <4>1
    <3> QED
      BY <3>1, <3>2
  <2>2. w = [n \in 0..N |-> w[n]] /\ Body(w) = [n \in 0..N |-> Body(w)[n]]
    BY <1>5
  <2> HIDE DEF Body
  <2> QED
    BY <2>1, <2>2
<1> DEFINE c == CHOOSE v : v = Body(v)
<1>8. c = Body(c)
  <2> HIDE DEF Body, w
  <2> QED BY <1>7
<1> HIDE DEF c
<1>9. c[0] = <<>> /\ \A n \in 1..N : c[n] = IF IsStatement(fs[n]) THEN c[n - 1] ELSE Append(c[n - 1], fs[n])
  <2>1. \A n \in 0..N : c[n] = IF n = 0 THEN <<>>
                               ELSE IF IsStatement(fs[n]) THEN c[n - 1] ELSE Append(c[n - 1], fs[n])
    BY <1>8
  <2> QED
    BY <1>0, <2>1
<1> DEFINE A == {n \in Nat : n <= N => c[n] = w[n]}
<1>10. 0 \in A
  BY <1>5, <1>9
<1>11. ASSUME NEW n \in Nat, n \in A PROVE n + 1 \in A
  <2> SUFFICES ASSUME n + 1 <= N PROVE c[n + 1] = w[n + 1]
    OBVIOUS
  <2>1. n + 1 \in 1..N /\ (n + 1) - 1 = n /\ c[n] = w[n]
    BY <1>0, <1>11
  <2> HIDE DEF w
  <2> QED
    BY <1>6, <1>9, <2>1
<1>12. Nat \subseteq A
  <2> HIDE DEF A
  <2> QED BY <1>10, <1>11, NaturalsFrom
<1>13. ScopesIn(fs) = w[N]
  <2>1. ScopesIn(fs) = c[N]
    BY <1>1 DEF c
  <2>2. N \in A /\ N <= N
    <3> HIDE DEF A
    <3> QED BY <1>0, <1>12
  <2>3. c[N] = w[N]
    BY <2>2
  <2> QED
    BY <2>1, <2>3
<1> HIDE DEF w
<1> QED
  BY <1>5, <1>6, <1>13 DEF Walks, N

\* Frames with the same scopes at the same places.
LEMMA SameScopes ==
  ASSUME NEW fs \in Seq(Frame), NEW gs \in Seq(Frame), NEW v, NEW w, Walks(v, fs), Walks(w, gs),
         NEW m \in Nat, m <= Len(fs), m <= Len(gs),
         \A n \in 1..m : /\ IsStatement(fs[n]) <=> IsStatement(gs[n])
                         /\ ~IsStatement(fs[n]) => fs[n] = gs[n]
  PROVE  v[m] = w[m]
<1> DEFINE A == {n \in Nat : n <= m => v[n] = w[n]}
<1>0. Len(fs) \in Nat /\ Len(gs) \in Nat
  OBVIOUS
<1>1. 0 \in A
  BY DEF Walks
<1>2. ASSUME NEW n \in Nat, n \in A PROVE n + 1 \in A
  <2> SUFFICES ASSUME n + 1 <= m PROVE v[n + 1] = w[n + 1]
    OBVIOUS
  <2>1. n + 1 \in 1..m /\ n + 1 \in 1..Len(fs) /\ n + 1 \in 1..Len(gs) /\ (n + 1) - 1 = n /\ v[n] = w[n]
    BY <1>0, <1>2
  <2> QED
    BY <2>1, ZenonT(30) DEF Walks
<1>3. Nat \subseteq A
  <2> HIDE DEF A
  <2> QED BY <1>1, <1>2, NaturalsFrom
<1> QED
  BY <1>3

LEMMA ScopesTyped ==
  ASSUME NEW fs \in Seq(Frame)
  PROVE  ScopesIn(fs) \in Seq(Scope)
<1>1. PICK w : Walks(w, fs)
  BY ScopesWalked
<1>2. Len(fs) \in 0..Len(fs)
  OBVIOUS
<1> QED
  BY <1>1, <1>2 DEF Walks

LEMMA ScopesNone == ScopesIn(<<>>) = <<>>
<1>1. <<>> \in Seq(Frame) /\ Len(<<>>) = 0
  OBVIOUS
<1>2. PICK w : Walks(w, <<>>)
  BY <1>1, ScopesWalked
<1> QED
  BY <1>1, <1>2 DEF Walks

LEMMA ScopesAppend ==
  ASSUME NEW fs \in Seq(Frame), NEW f \in Frame
  PROVE  ScopesIn(Append(fs, f)) = IF IsStatement(f) THEN ScopesIn(fs) ELSE Append(ScopesIn(fs), f)
<1> DEFINE gs == Append(fs, f)
           N == Len(fs)
<1>1. /\ gs \in Seq(Frame) /\ Len(gs) = N + 1 /\ N \in Nat /\ gs[N + 1] = f
      /\ \A n \in 1..N : gs[n] = fs[n]
  OBVIOUS
<1> HIDE DEF gs
<1>2. PICK v : Walks(v, fs)
  BY ScopesWalked
<1>3. PICK w : Walks(w, gs)
  BY <1>1, ScopesWalked
<1>4. v[N] = w[N]
  BY <1>1, <1>2, <1>3, SameScopes
<1>5. N + 1 \in 1..Len(gs) /\ (N + 1) - 1 = N
  BY <1>1
<1>6. w[N + 1] = IF IsStatement(f) THEN w[N] ELSE Append(w[N], f)
  BY <1>1, <1>3, <1>5 DEF Walks
<1>7. ScopesIn(fs) = v[N] /\ ScopesIn(gs) = w[N + 1]
  BY <1>1, <1>2, <1>3 DEF Walks
<1> QED
  BY <1>4, <1>6, <1>7 DEF gs

LEMMA ScopesSame ==
  ASSUME NEW fs \in Seq(Frame), NEW gs \in Seq(Frame), Len(gs) = Len(fs),
         \A n \in 1..Len(fs) : /\ IsStatement(fs[n]) <=> IsStatement(gs[n])
                               /\ ~IsStatement(fs[n]) => fs[n] = gs[n]
  PROVE  ScopesIn(gs) = ScopesIn(fs)
<1>1. PICK v : Walks(v, fs)
  BY ScopesWalked
<1>2. PICK w : Walks(w, gs)
  BY ScopesWalked
<1>3. Len(fs) \in Nat /\ Len(fs) <= Len(fs) /\ Len(fs) <= Len(gs)
  OBVIOUS
<1>4. v[Len(fs)] = w[Len(fs)]
  BY <1>1, <1>2, <1>3, SameScopes
<1> QED
  BY <1>1, <1>2, <1>4 DEF Walks

LEMMA FrontAppend ==
  ASSUME NEW X, NEW fs \in Seq(X), fs # <<>>
  PROVE  /\ Front(fs) \in Seq(X) /\ Last(fs) \in X /\ fs = Append(Front(fs), Last(fs))
         /\ Len(fs) \in Nat /\ Len(fs) >= 1 /\ Len(Front(fs)) = Len(fs) - 1
         /\ \A n \in 1..Len(fs) - 1 : Front(fs)[n] = fs[n]
<1>1. Len(fs) \in Nat /\ Len(fs) >= 1
  OBVIOUS
<1>2. /\ Front(fs) \in Seq(X) /\ Len(Front(fs)) = Len(fs) - 1
      /\ \A n \in 1..Len(fs) - 1 : Front(fs)[n] = fs[n]
  <2>1. Front(fs) = SubSeq(fs, 1, Len(fs) - 1)
    BY DEF Front
  <2>2. \A i \in 1..Len(fs) - 1 : fs[i] \in X
    BY <1>1
  <2> DEFINE m == Len(fs) - 1
  <2>3. m \in Nat /\ m <= Len(fs)
    BY <1>1
  <2>4. SubSeq(fs, 1, m) = [i \in 1..m |-> fs[i]]
    BY <2>3
  <2>5. SubSeq(fs, 1, m) \in Seq(X) /\ Len(SubSeq(fs, 1, m)) = m
    <3>1. [i \in 1..m |-> fs[i]] \in Seq(X) /\ Len([i \in 1..m |-> fs[i]]) = m
      BY <2>2, <2>3
    <3> QED
      BY <2>4, <3>1
  <2> HIDE DEF m
  <2>6. \A n \in 1..m : SubSeq(fs, 1, m)[n] = fs[n]
    BY <2>3, <2>4
  <2> QED
    BY <2>1, <2>5, <2>6 DEF m
<1>3. Last(fs) \in X
  BY <1>1 DEF Last
<1>4. fs = Append(Front(fs), Last(fs))
  <2> DEFINE u == Front(fs)
             v == Append(u, Last(fs))
  <2>1. v \in Seq(X) /\ Len(v) = Len(fs) /\ \A n \in 1..Len(fs) : v[n] = fs[n]
    BY <1>1, <1>2, <1>3 DEF Last
  <2> HIDE DEF v
  <2>2. v = fs
    BY <2>1, SeqEqual
  <2> QED
    BY <2>2 DEF v
<1> QED
  BY <1>1, <1>2, <1>3, <1>4

LEMMA AppendShape ==
  ASSUME NEW X, NEW u \in Seq(X), NEW v \in X
  PROVE  /\ Append(u, v) \in Seq(X) /\ Len(u) \in Nat /\ Len(Append(u, v)) = Len(u) + 1
         /\ DOMAIN u = 1..Len(u) /\ DOMAIN Append(u, v) = 1..Len(u) + 1
         /\ Append(u, v)[Len(u) + 1] = v /\ \A i \in 1..Len(u) : Append(u, v)[i] = u[i]
OBVIOUS

LEMMA ScopesFront ==
  ASSUME NEW fs \in Seq(Frame), fs # <<>>
  PROVE  ScopesIn(fs) = IF IsStatement(Last(fs)) THEN ScopesIn(Front(fs)) ELSE Append(ScopesIn(Front(fs)), Last(fs))
BY FrontAppend, ScopesAppend

-----------------------------------------------------------------------------
(* What a step prints.                                                     *)

\* The buffers hold only what statements put there.
Buffers == outbuf \in [Instance -> Seq(Stmt)]

Held == ToSet(outbuf["live"]) \cup ToSet(outbuf["silent"])
Rest == Func \cup Words
Piece == Held \cup Rest
Output == [buf : [Instance -> Seq(Piece)], lines : Seq(Seq(Piece))]

Continued(u, v) == Len(u) <= Len(v) /\ \A i \in 1..Len(u) : v[i] = u[i]

\* What became of Now so far: made of what was buffered and of words, by the instance of the
\* moment, a silent one printing nothing, and what was buffered comes first.
Told(s) ==
    /\ s \in Output
    /\ instance = "silent" => s.lines = <<>>
    /\ \A b \in Instance : b # instance => s.buf[b] = outbuf[b]
    /\ IF s.lines = <<>> THEN Continued(outbuf["live"], s.buf["live"]) ELSE Continued(outbuf["live"], s.lines[1])

Unmarked(u) == \A n \in DOMAIN u : u[n] # "Backtrace"
Markless(s) == (\A n \in DOMAIN s.lines : Unmarked(s.lines[n])) /\ Unmarked(s.buf[instance])

LEMMA ContinuedOn ==
  ASSUME NEW u, NEW v, NEW w, Continued(u, v), Continued(v, w),
         NEW X, u \in Seq(X), NEW Y, v \in Seq(Y), w \in Seq(Y)
  PROVE  Continued(u, w)
BY DEF Continued

LEMMA InstanceTyped == instance \in Instance
BY DEF instance, Instance

LEMMA OutputShape ==
  ASSUME NEW s \in Output
  PROVE  /\ s = [buf |-> s.buf, lines |-> s.lines]
         /\ s.buf \in [Instance -> Seq(Piece)] /\ s.lines \in Seq(Seq(Piece))
         /\ s.buf[instance] \in Seq(Piece) /\ s.buf["live"] \in Seq(Piece)
BY InstanceTyped DEF Output, Instance

LEMMA SeqOfOwn ==
  ASSUME NEW X, NEW u \in Seq(X), NEW Y, ToSet(u) \subseteq Y
  PROVE  u \in Seq(Y)
<1>1. \A n \in 1..Len(u) : u[n] \in Y
  BY DEF ToSet
<1>2. u = [n \in 1..Len(u) |-> u[n]] /\ Len(u) \in Nat
  OBVIOUS
<1> QED
  BY <1>1, <1>2

LEMMA NowTold ==
  ASSUME Buffers
  PROVE  Told(Now)
<1>1. outbuf["live"] \in Seq(Stmt) /\ outbuf["silent"] \in Seq(Stmt) /\ DOMAIN outbuf = Instance
  BY DEF Buffers, Instance
<1>2. outbuf["live"] \in Seq(Piece) /\ outbuf["silent"] \in Seq(Piece)
  BY <1>1, SeqOfOwn DEF Piece, Held
<1>3. outbuf \in [Instance -> Seq(Piece)]
  BY <1>2 DEF Buffers, Instance
<1>4. Now.buf = outbuf /\ Now.lines = <<>> /\ Now \in Output
  <2>1. <<>> \in Seq(Seq(Piece))
    OBVIOUS
  <2> QED
    BY <1>3, <2>1 DEF Now, Output
<1>5. Continued(outbuf["live"], outbuf["live"])
  BY <1>1 DEF Continued
<1> QED
  BY <1>4, <1>5 DEF Told

LEMMA RestPieces == \A u \in Seq(Rest) : u \in Seq(Piece)
<1>1. Rest \subseteq Piece
  BY DEF Piece
<1> QED
  BY <1>1

LEMMA Flushes ==
  ASSUME NEW s, Told(s)
  PROVE  LET t == flush(s, instance)
         IN  /\ Told(t) /\ t.buf = [s.buf EXCEPT ![instance] = <<>>] /\ t.buf[instance] = <<>>
             /\ t.lines = IF instance = "live" THEN Append(s.lines, s.buf["live"]) ELSE <<>>
<1> DEFINE t == flush(s, instance)
           buf == [s.buf EXCEPT ![instance] = <<>>]
           lines == IF instance = "live" THEN Append(s.lines, s.buf[instance]) ELSE s.lines
<1>1. /\ s \in Output /\ instance \in Instance
      /\ s.buf \in [Instance -> Seq(Piece)] /\ s.lines \in Seq(Seq(Piece))
      /\ s.buf[instance] \in Seq(Piece) /\ s.buf["live"] \in Seq(Piece)
  BY OutputShape, InstanceTyped DEF Told
<1>2. t.buf = buf /\ t.lines = lines /\ t = [buf |-> buf, lines |-> lines]
  BY DEF flush
<1> HIDE DEF t
<1>3. /\ buf \in [Instance -> Seq(Piece)] /\ buf[instance] = <<>>
      /\ \A b \in Instance : b # instance => buf[b] = s.buf[b]
  BY <1>1
<1>4. lines \in Seq(Seq(Piece))
  BY <1>1
<1>5. lines = IF instance = "live" THEN Append(s.lines, s.buf["live"]) ELSE <<>>
  BY DEF Told, instance
<1> HIDE DEF buf, lines
<1>6. t \in Output
  BY <1>2, <1>3, <1>4 DEF Output
<1>7. IF lines = <<>> THEN Continued(outbuf["live"], buf["live"]) ELSE Continued(outbuf["live"], lines[1])
  <2>1. CASE instance = "live"
    <3>1. lines = Append(s.lines, s.buf["live"])
      BY <1>5, <2>1
    <3>2. lines # <<>> /\ lines[1] = IF s.lines = <<>> THEN s.buf["live"] ELSE s.lines[1]
      BY <1>1, <3>1
    <3> QED
      BY <3>2 DEF Told
  <2>2. CASE instance # "live"
    <3>1. lines = <<>> /\ s.lines = <<>> /\ "live" \in Instance
      BY <1>5, <2>2 DEF Told, instance, Instance
    <3>2. buf["live"] = s.buf["live"]
      BY <1>3, <2>2, <3>1
    <3> QED
      BY <3>1, <3>2 DEF Told
  <2> QED
    BY <2>1, <2>2
<1>8. instance = "silent" => lines = <<>>
  BY <1>5
<1>9. Told(t)
  BY <1>2, <1>3, <1>6, <1>7, <1>8 DEF Told
<1> QED
  BY <1>2, <1>3, <1>5, <1>9 DEF t, buf

LEMMA PutShape ==
  ASSUME NEW s, NEW i, NEW v, s = [buf |-> s.buf, lines |-> s.lines]
  PROVE  [s EXCEPT !.buf[i] = v] = [buf |-> [s.buf EXCEPT ![i] = v], lines |-> s.lines]
OBVIOUS

LEMMA PutInto ==
  ASSUME Buffers, NEW s, Told(s), NEW text \in Seq(Rest)
  PROVE  LET t == Into(s, instance, text)
         IN  /\ Told(t) /\ t.lines = s.lines
             /\ t.buf[instance] = s.buf[instance] \o text
             /\ [t.buf EXCEPT ![instance] = <<>>] = [s.buf EXCEPT ![instance] = <<>>]
<1> DEFINE t == Into(s, instance, text)
           buf == [s.buf EXCEPT ![instance] = @ \o text]
<1>1. /\ s \in Output /\ instance \in Instance /\ s = [buf |-> s.buf, lines |-> s.lines]
      /\ s.buf \in [Instance -> Seq(Piece)] /\ s.lines \in Seq(Seq(Piece))
      /\ s.buf[instance] \in Seq(Piece) /\ s.buf["live"] \in Seq(Piece)
      /\ text \in Seq(Piece)
  BY OutputShape, InstanceTyped, RestPieces DEF Told
<1>2. t = [buf |-> buf, lines |-> s.lines]
  <2> DEFINE v == s.buf[instance] \o text
  <2>1. t = [s EXCEPT !.buf[instance] = v]
    BY DEF Into
  <2> HIDE DEF t, v
  <2>2. [s EXCEPT !.buf[instance] = v] = [buf |-> [s.buf EXCEPT ![instance] = v], lines |-> s.lines]
    BY <1>1, PutShape
  <2> QED
    BY <2>1, <2>2 DEF v
<1>3. t.buf = buf /\ t.lines = s.lines
  BY <1>2
<1> HIDE DEF t
<1>4. /\ buf \in [Instance -> Seq(Piece)] /\ buf[instance] = s.buf[instance] \o text
      /\ \A b \in Instance : b # instance => buf[b] = s.buf[b]
  BY <1>1
<1>5. [buf EXCEPT ![instance] = <<>>] = [s.buf EXCEPT ![instance] = <<>>]
  BY <1>1
<1> HIDE DEF buf
<1>6. t \in Output
  BY <1>1, <1>2, <1>4 DEF Output
<1>7. s.lines = <<>> => Continued(outbuf["live"], buf["live"])
  <2> SUFFICES ASSUME s.lines = <<>> PROVE Continued(outbuf["live"], buf["live"])
    OBVIOUS
  <2>1. Continued(outbuf["live"], s.buf["live"]) /\ "live" \in Instance
    BY DEF Told, Instance
  <2>2. CASE instance = "live"
    <3>1. buf["live"] = s.buf["live"] \o text
      BY <1>4, <2>2
    <3>2. Continued(s.buf["live"], buf["live"])
      BY <1>1, <3>1 DEF Continued
    <3>3. outbuf["live"] \in Seq(Stmt) /\ buf["live"] \in Seq(Piece)
      BY <1>4, <2>1 DEF Buffers
    <3> QED
      BY <1>1, <2>1, <3>2, <3>3, ContinuedOn
  <2>3. CASE instance # "live"
    BY <1>4, <2>1, <2>3
  <2> QED
    BY <2>2, <2>3
<1>8. Told(t)
  BY <1>3, <1>4, <1>6, <1>7 DEF Told
<1> QED
  BY <1>3, <1>4, <1>5, <1>8 DEF t

LEMMA RawLine ==
  ASSUME Buffers, NEW s, Told(s), NEW text \in Seq(Rest)
  PROVE  LET t == raw_line(s, text)
         IN  /\ Told(t) /\ t.buf = [s.buf EXCEPT ![instance] = <<>>] /\ t.buf[instance] = <<>>
             /\ t.lines = IF instance = "live" THEN Append(s.lines, s.buf["live"] \o text) ELSE <<>>
<1> DEFINE u == Into(s, instance, text)
           t == flush(u, instance)
<1>1. /\ Told(u) /\ u.lines = s.lines /\ u.buf[instance] = s.buf[instance] \o text
      /\ [u.buf EXCEPT ![instance] = <<>>] = [s.buf EXCEPT ![instance] = <<>>]
  BY PutInto
<1>2. raw_line(s, text) = t
  BY DEF raw_line
<1> HIDE DEF u
<1>3. /\ Told(t) /\ t.buf = [u.buf EXCEPT ![instance] = <<>>] /\ t.buf[instance] = <<>>
      /\ t.lines = IF instance = "live" THEN Append(u.lines, u.buf["live"]) ELSE <<>>
  BY <1>1, Flushes
<1> HIDE DEF t
<1>4. instance = "live" => u.buf["live"] = s.buf["live"] \o text
  BY <1>1
<1> QED
  BY <1>1, <1>2, <1>3, <1>4

LEMMA UnmarkedJoined ==
  ASSUME NEW X, NEW u \in Seq(X), NEW v \in Seq(X), Unmarked(u), Unmarked(v)
  PROVE  Unmarked(u \o v)
BY DEF Unmarked

\* A line without the word, after lines without it.
LEMMA RawMarkless ==
  ASSUME Buffers, NEW s, Told(s), Markless(s), NEW text \in Seq(Rest), Unmarked(text)
  PROVE  Markless(raw_line(s, text))
<1> DEFINE t == raw_line(s, text)
           line == s.buf["live"] \o text
<1>1. /\ t.buf[instance] = <<>> /\ t.lines = IF instance = "live" THEN Append(s.lines, line) ELSE <<>>
  BY RawLine
<1>2. s.lines \in Seq(Seq(Piece)) /\ s.buf["live"] \in Seq(Piece) /\ text \in Seq(Piece)
  BY OutputShape, RestPieces DEF Told
<1>3. Unmarked(t.buf[instance])
  BY <1>1 DEF Unmarked
<1>4. CASE instance = "live"
  <2>1. line \in Seq(Piece)
    BY <1>2
  <2>2. Unmarked(line)
    BY <1>2, <1>4, UnmarkedJoined DEF Markless
  <2>3. t.lines = Append(s.lines, line)
    BY <1>1, <1>4
  <2> HIDE DEF line, t
  <2>4. /\ DOMAIN t.lines = 1..Len(s.lines) + 1 /\ t.lines[Len(s.lines) + 1] = line
        /\ \A n \in 1..Len(s.lines) : t.lines[n] = s.lines[n]
        /\ Len(s.lines) \in Nat /\ DOMAIN s.lines = 1..Len(s.lines)
    BY <1>2, <2>1, <2>3
  <2>5. ASSUME NEW n \in DOMAIN t.lines PROVE Unmarked(t.lines[n])
    <3>1. CASE n = Len(s.lines) + 1
      BY <2>2, <2>4, <3>1
    <3>2. CASE n # Len(s.lines) + 1
      <4>1. n \in 1..Len(s.lines)
        BY <2>4, <3>2
      <4> QED
        BY <2>4, <4>1 DEF Markless
    <3> QED
      BY <3>1, <3>2
  <2> QED
    BY <1>3, <2>5 DEF Markless, t
<1>5. CASE instance # "live"
  <2>1. DOMAIN t.lines = {}
    BY <1>1, <1>5
  <2> HIDE DEF t
  <2> QED
    BY <1>3, <2>1 DEF Markless, t
<1> QED
  BY <1>4, <1>5

LEMMA WordLine ==
  ASSUME NEW word \in Words, word # "Backtrace"
  PROVE  <<word>> \in Seq(Rest) /\ Unmarked(<<word>>)
<1>1. word \in Rest
  BY DEF Rest
<1> QED
  BY <1>1 DEF Unmarked

LEMMA NowMarkless == 
  ASSUME Buffers
  PROVE  Markless(Now)
<1>1. outbuf[instance] \in Seq(Stmt) /\ "Backtrace" \notin Stmt
  BY InstanceTyped, NamesAssumption DEF Buffers, Words
<1>2. Unmarked(outbuf[instance])
  BY <1>1 DEF Unmarked
<1>3. Now.buf = outbuf /\ Now.lines = <<>>
  BY DEF Now
<1> QED
  BY <1>2, <1>3 DEF Markless

LEMMA TracerTold ==
  ASSUME Buffers, NEW s, Told(s)
  PROVE  Told(Tracer(s)) /\ (Markless(s) => Markless(Tracer(s)))
<1>1. <<"handler">> \in Seq(Rest) /\ Unmarked(<<"handler">>)
  BY WordLine DEF Words
<1> QED
  BY <1>1, RawLine, RawMarkless DEF Tracer

-----------------------------------------------------------------------------
(* Backtraces.                                                             *)

\* The functions of the stack were listed, the k innermost ones.
Listing(start, stack, k, t) ==
    /\ Told(t) /\ t.buf[instance] = <<>> /\ t.buf = start.buf
    /\ IF instance = "live"
       THEN /\ Len(t.lines) = Len(start.lines) + k
            /\ \A n \in 1..Len(start.lines) : t.lines[n] = start.lines[n]
            /\ \A n \in 1..k : t.lines[Len(start.lines) + n] = <<stack[Len(stack) + 1 - n]>>
       ELSE t.lines = <<>>

LEMMA ListOne ==
  ASSUME Buffers, NEW start, Told(start), NEW stack \in Seq(Func), NEW k \in Nat, k < Len(stack),
         NEW t, Listing(start, stack, k, t)
  PROVE  Listing(start, stack, k + 1, raw_line(t, <<stack[Len(stack) - k]>>))
<1> DEFINE f == stack[Len(stack) - k]
           r == raw_line(t, <<f>>)
           m == Len(start.lines)
<1>1. f \in Func /\ <<f>> \in Seq(Rest)
  <2>1. Len(stack) - k \in 1..Len(stack)
    OBVIOUS
  <2>2. f \in Func
    BY <2>1
  <2> HIDE DEF f
  <2> QED
    BY <2>2 DEF Rest
<1> HIDE DEF f
<1>2. /\ Told(r) /\ r.buf = [t.buf EXCEPT ![instance] = <<>>] /\ r.buf[instance] = <<>>
      /\ r.lines = IF instance = "live" THEN Append(t.lines, t.buf["live"] \o <<f>>) ELSE <<>>
  BY <1>1, RawLine DEF Listing
<1>3. t.buf \in [Instance -> Seq(Piece)] /\ t.lines \in Seq(Seq(Piece)) /\ start.lines \in Seq(Seq(Piece))
  BY OutputShape DEF Listing, Told
<1>4. r.buf = start.buf
  BY <1>2, <1>3 DEF Listing
<1>5. CASE instance = "live"
  <2>1. t.buf["live"] \o <<f>> = <<f>>
    <3>1. t.buf["live"] = <<>>
      BY <1>5 DEF Listing
    <3> QED
      BY <1>1, <3>1
  <2>2. r.lines = Append(t.lines, <<f>>)
    BY <1>2, <1>5, <2>1
  <2>3. <<f>> \in Seq(Piece) /\ Len(t.lines) = m + k /\ m \in Nat
    <3>1. <<f>> \in Seq(Piece)
      BY <1>1, RestPieces
    <3>2. m \in Nat
      BY <1>3
    <3>3. Len(t.lines) = m + k
      BY <1>5 DEF Listing
    <3> QED
      BY <3>1, <3>2, <3>3
  <2> HIDE DEF r
  <2>4. Len(r.lines) = m + (k + 1) /\ r.lines[m + (k + 1)] = <<f>> /\ \A n \in 1..m + k : r.lines[n] = t.lines[n]
    <3> DEFINE line == <<f>>
               u == t.lines
    <3>1. u \in Seq(Seq(Piece)) /\ line \in Seq(Piece) /\ r.lines = Append(u, line) /\ Len(u) = m + k /\ m + k \in Nat
      BY <1>3, <2>2, <2>3
    <3>2. m \in Nat
      BY <2>3
    <3> HIDE DEF line, u, m
    <3>4. m + k + 1 = m + (k + 1)
      BY <3>2
    <3>3. Len(r.lines) = m + k + 1 /\ r.lines[m + k + 1] = line /\ \A n \in 1..m + k : r.lines[n] = u[n]
      BY <3>1
    <3> QED
      BY <3>3, <3>4 DEF line, u
  <2>5. f = stack[Len(stack) + 1 - (k + 1)]
    BY DEF f
  <2>6. \A n \in 1..m : r.lines[n] = start.lines[n]
    <3>1. \A n \in 1..m : n \in 1..m + k
      BY <2>3
    <3>2. \A n \in 1..m : t.lines[n] = start.lines[n]
      BY <1>5 DEF Listing
    <3>3. \A n \in 1..m + k : r.lines[n] = t.lines[n]
      BY <2>4
    <3> HIDE DEF m
    <3> QED
      BY <3>1, <3>2, <3>3
  <2>7. ASSUME NEW n \in 1..k + 1 PROVE r.lines[m + n] = <<stack[Len(stack) + 1 - n]>>
    <3>1. CASE n = k + 1
      BY <2>4, <2>5, <3>1
    <3>2. CASE n # k + 1
      <4>1. n \in 1..k /\ m + n \in 1..m + k
        BY <2>3, <3>2
      <4> QED
        BY <1>5, <2>4, <4>1 DEF Listing
    <3> QED
      BY <3>1, <3>2
  <2> QED
    BY <1>2, <1>4, <1>5, <2>4, <2>6, <2>7 DEF Listing, r, f
<1>6. CASE instance # "live"
  BY <1>2, <1>4, <1>6 DEF Listing, f
<1> QED
  BY <1>5, <1>6

LEMMA Least ==
  ASSUME NEW n \in Nat, NEW s \in SUBSET (1..n), s # {}
  PROVE  Min(s) \in s /\ \A y \in s : Min(s) =< y
<1>1. \E x \in s : \A y \in s : x =< y
  BY Extremes
<1> QED
  BY <1>1 DEF Min

\* FoldRight lists the whole stack, from its end.
LEMMA Listed ==
  ASSUME Buffers, NEW start, Told(start), start.buf[instance] = <<>>, NEW stack \in Seq(Func)
  PROVE  Listing(start, stack, Len(stack), FoldRight(LAMBDA f, t : raw_line(t, <<f>>), stack, start))
<1> DEFINE N == Len(stack)
           S == 1..N
           U == {t \in Output : Told(t)}
           op(f, t) == raw_line(t, <<f>>)
           Body(it) == [s \in SUBSET S |->
                           IF s = {} THEN start
                           ELSE LET x == Min(s) IN op(stack[x], it[s \ {x}])]
           fold == FoldRight(LAMBDA f, t : raw_line(t, <<f>>), stack, start)
<1>1. N \in Nat /\ DOMAIN stack = S /\ \A n \in S : stack[n] \in Func
  OBVIOUS
<1>2. fold = (CHOOSE it : it = Body(it))[S]
  <2>1. fold = (CHOOSE it : it = [s \in SUBSET DOMAIN stack |->
                                     IF s = {} THEN start
                                     ELSE LET x == Min(s) IN op(stack[x], it[s \ {x}])])[DOMAIN stack]
    BY DEF FoldRight, MapThenFoldSet
  <2> HIDE DEF fold
  <2> QED
    BY <1>1, <2>1
<1> HIDE DEF fold
<1>3. start \in U
  BY DEF Told
<1>4. \A s \in SUBSET S : s # {} => Min(s) \in s
  BY <1>1, Least
<1>5. \E it : it = Body(it)
  <2> DEFINE pick == [s \in SUBSET S |-> Min(s)]
             F == [n \in S |-> [t \in U |-> raw_line(t, <<stack[n]>>)]]
  <2>1. F \in [S -> [U -> U]]
    <3>1. \A n \in S, t \in U : raw_line(t, <<stack[n]>>) \in U
      <4> SUFFICES ASSUME NEW n \in S, NEW t \in U PROVE raw_line(t, <<stack[n]>>) \in U
        OBVIOUS
      <4>1. <<stack[n]>> \in Seq(Rest)
        <5>1. stack[n] \in Rest
          BY <1>1 DEF Rest
        <5> QED
          BY <5>1
      <4>2. Told(raw_line(t, <<stack[n]>>))
        BY <4>1, RawLine
      <4> QED
        BY <4>2 DEF Told
    <3> HIDE DEF S, U
    <3> QED
      BY <3>1
  <2>2. \A s \in SUBSET S : s # {} => pick[s] \in s
    BY <1>4
  <2>3. PICK it \in [SUBSET S -> U] : Recurs(it, S, start, pick, F)
    <3>1. \A T : IsFiniteSet(T) => \A D : \A e \in D : \A p : \A G \in [T -> [D -> D]] :
            (\A s \in SUBSET T : s # {} => p[s] \in s) => \E it \in [SUBSET T -> D] : Recurs(it, T, e, p, G)
      BY SetRecursion
    <3>2. IsFiniteSet(S)
      BY <1>1, FS_Interval
    <3> HIDE DEF pick, F, S, U
    <3>3. \A D : \A e \in D : \A p : \A G \in [S -> [D -> D]] :
            (\A s \in SUBSET S : s # {} => p[s] \in s) => \E it \in [SUBSET S -> D] : Recurs(it, S, e, p, G)
      BY <3>1, <3>2
    <3> QED
      BY <1>3, <2>1, <2>2, <3>3
  <2>4. ASSUME NEW s \in SUBSET S PROVE it[s] = Body(it)[s]
    <3>1. CASE s = {}
      BY <2>3, <3>1 DEF Recurs
    <3>2. CASE s # {}
      <4> DEFINE x == Min(s)
      <4>1. x \in s /\ x \in S /\ pick[s] = x /\ s \ {x} \in SUBSET S
        BY <1>4, <3>2
      <4>2. it[s] = F[pick[s]][it[s \ {pick[s]}]]
        <5> HIDE DEF F, pick
        <5> QED BY <2>3, <3>2 DEF Recurs
      <4>3. it[s \ {x}] \in U
        BY <2>3, <4>1
      <4>4. it[s] = raw_line(it[s \ {x}], <<stack[x]>>)
        <5> HIDE DEF pick, x, U, S
        <5> QED BY <4>1, <4>2, <4>3
      <4> QED
        BY <3>2, <4>4
    <3> QED
      BY <3>1, <3>2
  <2>5. it = Body(it)
    <3>1. it = [s \in SUBSET S |-> it[s]]
      BY <2>3
    <3>2. Body(it) = [s \in SUBSET S |-> Body(it)[s]]
      OBVIOUS
    <3> HIDE DEF Body
    <3> QED
      BY <2>4, <3>1, <3>2
  <2> QED
    BY <2>5
<1> DEFINE c == CHOOSE it : it = Body(it)
<1>6. c = Body(c)
  <2> HIDE DEF Body
  <2> QED BY <1>5
<1> HIDE DEF c
<1>7. c[{}] = start /\ \A s \in SUBSET S : s # {} => c[s] = raw_line(c[s \ {Min(s)}], <<stack[Min(s)]>>)
  BY <1>6
<1> DEFINE A == {k \in Nat : k <= N => Listing(start, stack, k, c[N - k + 1 .. N])}
<1>8. 0 \in A
  <2>1. N - 0 + 1 .. N = {}
    BY <1>1
  <2>2. Listing(start, stack, 0, start)
    <3>1. instance # "live" => start.lines = <<>>
      BY DEF Told, instance
    <3>2. Len(start.lines) \in Nat
      BY OutputShape DEF Told
    <3> QED
      BY <3>1, <3>2 DEF Listing
  <2> HIDE DEF N
  <2> QED
    BY <1>7, <2>1, <2>2
<1>9. ASSUME NEW k \in Nat, k \in A PROVE k + 1 \in A
  <2> SUFFICES ASSUME k + 1 <= N PROVE Listing(start, stack, k + 1, c[N - (k + 1) + 1 .. N])
    OBVIOUS
  <2> DEFINE x == N - k
             s == x .. N
  <2>1. N - (k + 1) + 1 .. N = s /\ s \ {x} = N - k + 1 .. N
    BY <1>1
  <2>2. s \in SUBSET S /\ s # {} /\ x \in s
    BY <1>1
  <2>3. Min(s) = x
    <3>1. Min(s) \in s /\ Min(s) =< x
      BY <1>1, <2>2, Least
    <3> QED
      BY <1>1, <3>1
  <2>4. Listing(start, stack, k, c[s \ {x}])
    <3>1. k <= N
      BY <1>1
    <3>2. Listing(start, stack, k, c[N - k + 1 .. N])
      BY <1>9, <3>1
    <3> HIDE DEF s
    <3> QED
      BY <2>1, <3>2
  <2>5. c[s] = raw_line(c[s \ {x}], <<stack[x]>>)
    BY <1>7, <2>2, <2>3
  <2>6. k < Len(stack)
    BY <1>1
  <2> HIDE DEF s
  <2>7. Listing(start, stack, k + 1, raw_line(c[s \ {x}], <<stack[Len(stack) - k]>>))
    BY <2>4, <2>6, ListOne
  <2> QED
    BY <2>1, <2>5, <2>7
<1>10. Nat \subseteq A
  <2> HIDE DEF A
  <2> QED BY <1>8, <1>9, NaturalsFrom
<1>11. Listing(start, stack, N, c[S])
  <2>1. N \in A /\ N <= N
    <3> HIDE DEF A
    <3> QED BY <1>1, <1>10
  <2>2. N - N + 1 .. N = S
    BY <1>1
  <2> HIDE DEF N, S
  <2> QED
    BY <2>1, <2>2
<1>12. fold = c[S]
  BY <1>2 DEF c
<1> QED
  BY <1>11, <1>12 DEF fold

\* The lines show the functions of the stack once, the innermost first.
Marked(L) == {i \in DOMAIN L : ~Unmarked(L[i])}
Shows(L) ==
    /\ \A i \in Marked(L) : /\ i + Len(call_stack) <= Len(L)
                            /\ \A k \in 1..Len(call_stack) : Last(L[i + k]) = call_stack[Len(call_stack) + 1 - k]
    /\ call_stack # <<>> => \A i, j \in Marked(L) : i = j

LEMMA ShowsNone == \A L : (\A n \in DOMAIN L : Unmarked(L[n])) => Shows(L)
BY DEF Shows, Marked

LEMMA ShowsEmpty ==
  ASSUME call_stack = <<>>, NEW X, NEW L \in Seq(X)
  PROVE  Shows(L)
<1>1. Len(call_stack) = 0 /\ DOMAIN L = 1..Len(L) /\ Len(L) \in Nat
  OBVIOUS
<1> QED
  BY <1>1 DEF Shows, Marked

LEMMA ShowsMore ==
  ASSUME call_stack \in Seq(Func), NEW X, NEW L \in Seq(X), NEW u \in X, Shows(L), Unmarked(u)
  PROVE  Shows(Append(L, u))
<1> DEFINE M == Append(L, u)
           N == Len(call_stack)
<1>1. /\ DOMAIN L = 1..Len(L) /\ Len(L) \in Nat /\ DOMAIN M = 1..Len(L) + 1 /\ Len(M) = Len(L) + 1
      /\ M[Len(L) + 1] = u /\ (\A n \in 1..Len(L) : M[n] = L[n]) /\ N \in Nat
  OBVIOUS
<1> HIDE DEF M
<1>2. \A i \in Marked(M) : i \in Marked(L) /\ i \in 1..Len(L)
  BY <1>1 DEF Marked
<1>3. \A i \in Marked(M) : /\ i + N <= Len(M)
                           /\ \A k \in 1..N : Last(M[i + k]) = call_stack[N + 1 - k]
  <2> SUFFICES ASSUME NEW i \in Marked(M)
               PROVE  /\ i + N <= Len(M)
                      /\ \A k \in 1..N : Last(M[i + k]) = call_stack[N + 1 - k]
    OBVIOUS
  <2>1. i \in Marked(L) /\ i \in 1..Len(L)
    BY <1>2
  <2>2. i + N <= Len(L) /\ \A k \in 1..N : Last(L[i + k]) = call_stack[N + 1 - k]
    BY <2>1 DEF Shows
  <2> HIDE DEF N
  <2>3. \A k \in 1..N : i + k \in 1..Len(L)
    BY <1>1, <2>1, <2>2
  <2>4. \A k \in 1..N : M[i + k] = L[i + k]
    BY <1>1, <2>3
  <2>5. i + N <= Len(M)
    BY <1>1, <2>1, <2>2
  <2> QED
    BY <2>2, <2>4, <2>5
<1>4. call_stack # <<>> => \A i, j \in Marked(M) : i = j
  BY <1>2 DEF Shows
<1> QED
  BY <1>3, <1>4 DEF Shows, M

LEMMA BacktraceTold ==
  ASSUME Buffers, NEW s, Told(s), NEW stack \in Seq(Func)
  PROVE  Told(backtrace(s, stack)) /\ backtrace(s, stack).buf[instance] = <<>>
<1> DEFINE start == raw_line(s, <<"Backtrace">>)
<1>1. <<"Backtrace">> \in Seq(Rest) /\ <<"empty">> \in Seq(Rest)
  BY DEF Rest, Words
<1>2. Told(start) /\ start.buf[instance] = <<>>
  BY <1>1, RawLine
<1>3. CASE stack = <<>>
  <2>1. backtrace(s, stack) = raw_line(start, <<"empty">>)
    BY <1>3 DEF backtrace
  <2> DEFINE last == raw_line(start, <<"empty">>)
  <2> HIDE DEF start
  <2>2. Told(last) /\ last.buf[instance] = <<>>
    BY <1>1, <1>2, RawLine
  <2> HIDE DEF last
  <2>3. backtrace(s, stack) = last
    BY <2>1 DEF last
  <2> QED
    BY <2>2, <2>3
<1>4. CASE stack # <<>>
  <2>1. backtrace(s, stack) = FoldRight(LAMBDA f, t : raw_line(t, <<f>>), stack, start)
    BY <1>4 DEF backtrace
  <2> HIDE DEF start
  <2> QED
    BY <1>2, <2>1, Listed DEF Listing
<1> QED
  BY <1>3, <1>4

LEMMA BacktraceShows ==
  ASSUME Buffers, call_stack \in Seq(Func), NEW s, Told(s), Markless(s)
  PROVE  Shows(backtrace(s, call_stack).lines)
<1> DEFINE start == raw_line(s, <<"Backtrace">>)
           t == backtrace(s, call_stack)
           N == Len(call_stack)
           m == Len(start.lines)
<1>1. Told(t)
  BY BacktraceTold
<1>2. t.lines \in Seq(Seq(Piece))
  BY <1>1, OutputShape DEF Told
<1>3. CASE call_stack = <<>>
  BY <1>2, <1>3, ShowsEmpty
<1>4. CASE call_stack # <<>>
  <2>1. t = FoldRight(LAMBDA f, r : raw_line(r, <<f>>), call_stack, start)
    BY <1>4 DEF backtrace
  <2>2. <<"Backtrace">> \in Seq(Rest)
    BY DEF Rest, Words
  <2>3. /\ Told(start) /\ start.buf[instance] = <<>>
        /\ start.lines = IF instance = "live" THEN Append(s.lines, s.buf["live"] \o <<"Backtrace">>) ELSE <<>>
    BY <2>2, RawLine
  <2> HIDE DEF start, t
  <2>4. Listing(start, call_stack, N, t)
    BY <2>1, <2>3, Listed
  <2>5. CASE instance # "live"
    <3>1. t.lines = <<>>
      BY <2>4, <2>5 DEF Listing
    <3> QED
      BY <3>1, ShowsNone DEF t
  <2>6. CASE instance = "live"
    <3>1. s.lines \in Seq(Seq(Piece)) /\ start.lines \in Seq(Seq(Piece)) /\ s.buf["live"] \in Seq(Piece)
      BY <2>3, OutputShape DEF Told
    <3>2. start.lines = Append(s.lines, s.buf["live"] \o <<"Backtrace">>)
      BY <2>3, <2>6
    <3>3. /\ Len(s.lines) \in Nat /\ m = Len(s.lines) + 1 /\ DOMAIN s.lines = 1..Len(s.lines)
          /\ \A n \in 1..Len(s.lines) : start.lines[n] = s.lines[n]
      <4> DEFINE line == s.buf["live"] \o <<"Backtrace">>
      <4>1. line \in Seq(Piece)
        <5> DEFINE word == <<"Backtrace">>
        <5>1. word \in Seq(Piece)
          BY <2>2, RestPieces
        <5> HIDE DEF word
        <5>2. s.buf["live"] \o word \in Seq(Piece)
          BY <3>1, <5>1
        <5> QED
          BY <5>2 DEF word
      <4> HIDE DEF line
      <4> QED
        BY <3>1, <3>2, <4>1 DEF line
    <3>4. /\ Len(t.lines) = m + N
          /\ \A n \in 1..m : t.lines[n] = start.lines[n]
          /\ \A n \in 1..N : t.lines[m + n] = <<call_stack[N + 1 - n]>>
      BY <2>4, <2>6 DEF Listing
    <3>5. N \in Nat /\ m \in Nat /\ DOMAIN t.lines = 1..m + N
      BY <1>2, <3>3, <3>4
    <3> HIDE DEF N, m
    <3>6. ASSUME NEW i \in 1..m + N, i # m PROVE Unmarked(t.lines[i])
      <4>1. CASE i < m
        <5>1. i \in 1..Len(s.lines) /\ t.lines[i] = s.lines[i]
          BY <3>3, <3>4, <3>5, <4>1
        <5> QED
          BY <3>3, <5>1 DEF Markless
      <4>2. CASE i > m
        <5> DEFINE k == i - m
                   f == call_stack[N + 1 - k]
        <5>1. k \in 1..N /\ m + k = i /\ N + 1 - k \in 1..N
          BY <3>5, <4>2
        <5>2. t.lines[i] = <<f>>
          BY <3>4, <5>1
        <5>3. f \in Func
          BY <5>1 DEF N
        <5>4. f # "Backtrace"
          BY <5>3, NamesAssumption DEF Words
        <5> HIDE DEF f
        <5> QED
          BY <5>2, <5>4 DEF Unmarked
      <4> QED
        BY <3>5, <3>6, <4>1, <4>2
    <3>7. \A i \in Marked(t.lines) : i = m
      BY <3>5, <3>6 DEF Marked
    <3>8. \A k \in 1..N : Last(t.lines[m + k]) = call_stack[N + 1 - k]
      <4> SUFFICES ASSUME NEW k \in 1..N PROVE Last(t.lines[m + k]) = call_stack[N + 1 - k]
        OBVIOUS
      <4>1. t.lines[m + k] = <<call_stack[N + 1 - k]>>
        BY <3>4
      <4> QED
        BY <4>1 DEF Last
    <3>9. m + N <= Len(t.lines)
      BY <3>4, <3>5
    <3>10. Shows(t.lines)
      BY <3>7, <3>8, <3>9 DEF Shows, N
    <3> QED
      BY <3>10 DEF t
  <2> QED
    BY <2>5, <2>6
<1> QED
  BY <1>3, <1>4

-----------------------------------------------------------------------------
(* What was buffered begins what is printed.                               *)

LEMMA Flattening ==
  ASSUME NEW X, NEW L \in Seq(Seq(X)), L # <<>>
  PROVE  \E c : /\ FlattenSeq(L) = c[Len(L)]
                /\ \A i \in 1..Len(L) : c[i] = IF i = 1 THEN L[i] ELSE c[i - 1] \o L[i]
<1> DEFINE N == Len(L)
           Body(w) == [i \in 1..N |-> IF i = 1 THEN L[i] ELSE w[i - 1] \o L[i]]
           F == [n \in Nat |-> [u \in Seq(X) |-> IF n + 2 <= N THEN u \o L[n + 2] ELSE u]]
           E == Seq(X)
<1>1. N \in Nat /\ N >= 1 /\ \A i \in 1..N : L[i] \in Seq(X)
  OBVIOUS
<1>2. FlattenSeq(L) = (CHOOSE w : w = Body(w))[N]
  BY <1>1 DEF FlattenSeq
<1>3. F \in [Nat -> [E -> E]] /\ L[1] \in E
  <2>1. \A n \in Nat, u \in Seq(X) : n + 2 <= N => u \o L[n + 2] \in Seq(X)
    BY <1>1
  <2> HIDE DEF N
  <2> QED
    BY <1>1, <2>1
<1>4. PICK g \in [Nat -> E] : g[0] = L[1] /\ \A n \in Nat : g[n + 1] = F[n][g[n]]
  <2>1. Recursive(E)
    BY RecursiveAll
  <2> DEFINE start == L[1]
  <2>2. start \in E
    BY <1>3
  <2> HIDE DEF F, E, start
  <2>3. \E g \in [Nat -> E] : g[0] = start /\ \A n \in Nat : g[n + 1] = F[n][g[n]]
    BY <1>3, <2>1, <2>2 DEF Recursive
  <2> QED
    BY <2>3 DEF start
<1> DEFINE w == [i \in 1..N |-> g[i - 1]]
<1>5. \A i \in 1..N : i # 1 => g[i - 1] = g[i - 2] \o L[i]
  <2> SUFFICES ASSUME NEW i \in 1..N, i # 1 PROVE g[i - 1] = g[i - 2] \o L[i]
    OBVIOUS
  <2> DEFINE n == i - 2
  <2>1. n \in Nat /\ n + 1 = i - 1 /\ n + 2 = i /\ n + 2 <= N
    BY <1>1
  <2> HIDE DEF n, N
  <2>2. g[n] \in Seq(X) /\ g[n + 1] = F[n][g[n]]
    BY <1>4, <2>1
  <2>3. g[n + 1] = g[n] \o L[n + 2]
    BY <2>1, <2>2
  <2> QED
    BY <2>1, <2>3 DEF n
<1>6. w = Body(w)
  <2>1. \A i \in 1..N : Body(w)[i] = w[i]
    <3> SUFFICES ASSUME NEW i \in 1..N PROVE Body(w)[i] = w[i]
      OBVIOUS
    <3>1. CASE i = 1
      BY <1>4, <3>1
    <3>2. CASE i # 1
      <4>1. i - 1 \in 1..N /\ (i - 1) - 1 = i - 2
        BY <1>1, <3>2
      <4> HIDE DEF N
      <4> QED
        BY <1>5, <3>2, <4>1
    <3> QED
      BY <3>1, <3>2
  <2>2. w = [i \in 1..N |-> w[i]] /\ Body(w) = [i \in 1..N |-> Body(w)[i]]
    OBVIOUS
  <2> HIDE DEF Body, w
  <2> QED
    BY <2>1, <2>2
<1> DEFINE c == CHOOSE v : v = Body(v)
<1>7. c = Body(c)
  <2> HIDE DEF Body, w
  <2> QED BY <1>6
<1> HIDE DEF c
<1>8. \A i \in 1..N : c[i] = IF i = 1 THEN L[i] ELSE c[i - 1] \o L[i]
  BY <1>7
<1>9. FlattenSeq(L) = c[N]
  BY <1>2 DEF c
<1> QED
  BY <1>8, <1>9

LEMMA Flattened ==
  ASSUME NEW X, NEW L \in Seq(Seq(X)), L # <<>>
  PROVE  FlattenSeq(L) \in Seq(X) /\ Continued(L[1], FlattenSeq(L))
<1> DEFINE N == Len(L)
<1>1. N \in Nat /\ N >= 1 /\ \A i \in 1..N : L[i] \in Seq(X)
  OBVIOUS
<1>2. PICK c : /\ FlattenSeq(L) = c[N]
               /\ \A i \in 1..N : c[i] = IF i = 1 THEN L[i] ELSE c[i - 1] \o L[i]
  BY Flattening
<1> DEFINE A == {n \in Nat : n + 1 <= N => c[n + 1] \in Seq(X) /\ Continued(L[1], c[n + 1])}
<1>9. 0 \in A
  <2>1. 1 \in 1..N /\ L[1] \in Seq(X)
    BY <1>1
  <2>2. c[1] = L[1]
    BY <1>2, <2>1
  <2>3. Continued(L[1], L[1])
    BY <2>1 DEF Continued
  <2> QED
    BY <2>1, <2>2, <2>3
<1>10. ASSUME NEW n \in Nat, n \in A PROVE n + 1 \in A
  <2> SUFFICES ASSUME (n + 1) + 1 <= N PROVE c[(n + 1) + 1] \in Seq(X) /\ Continued(L[1], c[(n + 1) + 1])
    OBVIOUS
  <2> DEFINE i == (n + 1) + 1
             u == c[n + 1]
             v == L[i]
  <2>1. i \in 1..N /\ i # 1 /\ i - 1 = n + 1 /\ n + 1 <= N
    <3>1. (n + 1) + 1 <= N /\ N \in Nat
      BY <1>1
    <3> HIDE DEF N
    <3> QED
      BY <3>1
  <2>2. u \in Seq(X) /\ Continued(L[1], u)
    BY <1>10, <2>1
  <2>3. c[i] = u \o v /\ v \in Seq(X) /\ L[1] \in Seq(X)
    <3> HIDE DEF N, i
    <3>1. v \in Seq(X) /\ L[1] \in Seq(X)
      BY <1>1, <2>1
    <3>2. c[i] = c[i - 1] \o v
      BY <1>2, <2>1
    <3> QED
      BY <2>1, <3>1, <3>2
  <2> HIDE DEF u, i, v
  <2>4. c[i] \in Seq(X) /\ Continued(u, c[i])
    <3>1. u \o v \in Seq(X) /\ Continued(u, u \o v)
      BY <2>2, <2>3 DEF Continued
    <3> QED
      BY <2>3, <3>1
  <2>5. Continued(L[1], c[i])
    BY <2>2, <2>3, <2>4, ContinuedOn
  <2> QED
    BY <2>4, <2>5 DEF i
<1>11. Nat \subseteq A
  <2> HIDE DEF A
  <2> QED BY <1>9, <1>10, NaturalsFrom
<1>12. c[N] \in Seq(X) /\ Continued(L[1], c[N])
  <2>1. N - 1 \in Nat /\ (N - 1) + 1 = N /\ N <= N
    BY <1>1
  <2>2. N - 1 \in A
    <3> HIDE DEF A
    <3> QED BY <1>11, <2>1
  <2> HIDE DEF N
  <2> QED
    BY <2>1, <2>2
<1> QED
  BY <1>2, <1>12

LEMMA ContinuedInfix ==
  ASSUME NEW X, NEW u \in Seq(X), NEW Y, NEW v \in Seq(Y), Continued(u, v)
  PROVE  IsPrefix(u, v) /\ Infix(u, v)
<1>1. Len(u) \in Nat /\ Len(v) \in Nat /\ Len(u) <= Len(v) /\ \A i \in 1..Len(u) : v[i] = u[i]
  BY DEF Continued
<1>2. SubSeq(u, 1, Len(u)) = [i \in 1..Len(u) |-> u[i]] /\ SubSeq(v, 1, Len(u)) = [i \in 1..Len(u) |-> v[i]]
  BY <1>1
<1>3. u = [i \in 1..Len(u) |-> u[i]]
  OBVIOUS
<1>4. SubSeq(v, 1, Len(u)) = u
  BY <1>1, <1>2, <1>3
<1>5. SubSeq(v, 0 + 1, 0 + Len(u)) = u /\ 0 \in 0..(Len(v) - Len(u))
  BY <1>1, <1>4
<1> QED
  BY <1>1, <1>2, <1>5 DEF IsPrefix, Infix

-----------------------------------------------------------------------------
(* The invariant, and what a step may do: the bodies of the properties.    *)

Typed ==
    /\ enabled \in Int /\ decorate \in BOOLEAN /\ Buffers
    /\ made \in BOOLEAN /\ quiet \in BOOLEAN /\ dumping \in BOOLEAN /\ switched \in BOOLEAN /\ overrun \in BOOLEAN
    /\ nesting_level \in 0..MAXNESTLEVEL /\ call_stack \in Seq(Func)
    /\ frames \in Seq(Frame) /\ Len(frames) <= MaxOpen
    /\ mode \in {"running", "unwinding", "ended"}
    /\ ~made => ~dumping /\ call_stack = <<>>

\* A name is used again only when its statement is over.
Distinct ==
    \A i, j \in DOMAIN frames :
        IsStatement(frames[i]) /\ IsStatement(frames[j]) /\ frames[i].id = frames[j].id => i = j

\* As long as no operand switches, statements and buffers are those of one instance.
OneInstance ==
    ~switched => /\ \A i \in DOMAIN frames : IsStatement(frames[i]) => frames[i].instance = instance
                 /\ \A b \in Instance : b # instance => outbuf[b] = <<>>

Quoting ==
    \A i \in DOMAIN frames :
        IsStatement(frames[i]) /\ frames[i].kind # "DBGRAW" /\ ~frames[i].disturbed =>
            /\ decorate = (frames[i].kind = "DBGDUMP")
            /\ frames[i].quoted \subseteq {frames[i].kind = "DBGDUMP" /\ frames[i].instance = "live"}

Levels ==
    /\ call_stack = Scopes /\ nesting_level <= Depth
    /\ ~overrun => nesting_level = Depth /\ \A k \in 1..Depth : ScopesIn(frames)[k].level = k - 1

IInv == Typed /\ Distinct /\ OneInstance /\ OnlyOpenStatementsBuffered /\ Quoting /\ Levels

Mixed  == ~switched => \A i \in DOMAIN printed' : Ids(printed'[i]) \subseteq Open
Lossless ==
    IF printed' = <<>> THEN IsPrefix(outbuf["live"], outbuf'["live"])
    ELSE Contains(printed', <<"label">>) \/ Infix(outbuf["live"], FlattenSeq(printed'))
Silenced == enabled <= 0 => traced' = <<>> /\ (printed' # <<>> => switched /\ EndsLiveLine)
Aligned ==
    \A i \in DOMAIN traced' : ~overrun =>
        IF traced'[i].mark = "{" THEN traced'[i].indent = Depth ELSE traced'[i].indent = Top.level
Backtraced ==
    LET starts == {i \in DOMAIN printed' : Contains(printed'[i], "Backtrace")}
        shown(i) == [k \in DOMAIN Scopes |-> Last(printed'[i + k])]
    IN  /\ \A i \in starts : i + Len(Scopes) <= Len(printed') /\ shown(i) = Reverse(Scopes)
        /\ Scopes # <<>> => \A i, j \in starts : i = j

Says == Mixed /\ Lossless /\ Silenced /\ Aligned /\ Backtraced

LEMMA Statement_in == \A f : f \in Statements <=> \E i \in DOMAIN frames : frames[i] = f /\ IsStatement(f)
BY DEF Statements

LEMMA HeldOpen ==
  ASSUME IInv, ~switched
  PROVE  \A x \in Piece : x \in Stmt => x \in Open
<1>1. Rest \cap Stmt = {}
  BY NamesAssumption DEF Rest
<1>2. DOMAIN outbuf = Instance
  BY DEF IInv, Typed, Buffers
<1>3. \A b \in Instance : ToSet(outbuf[b]) \cap Stmt \subseteq Open
  BY <1>2 DEF IInv, OnlyOpenStatementsBuffered, Ids
<1> QED
  BY <1>1, <1>3 DEF Piece, Held, Instance

LEMMA StackScopes ==
  ASSUME IInv
  PROVE  Scopes = call_stack /\ call_stack \in Seq(Func) /\ DOMAIN Scopes = 1..Len(call_stack)
         /\ Depth = Len(call_stack) /\ Depth \in Nat
<1>1. Scopes = call_stack /\ call_stack \in Seq(Func)
  BY DEF IInv, Levels, Typed
<1>2. Depth \in Nat
  BY ScopesTyped DEF Depth, IInv, Typed
<1>3. DOMAIN Scopes = 1..Depth
  BY DEF Scopes
<1>4. Depth = Len(call_stack)
  <2> DEFINE n == Len(call_stack)
  <2>1. 1..Depth = 1..n /\ n \in Nat
    BY <1>1, <1>3
  <2> HIDE DEF n
  <2>2. Depth = n
    BY <1>2, <2>1
  <2> QED
    BY <2>2 DEF n
<1> QED
  BY <1>1, <1>2, <1>3, <1>4

\* Lines that show the stack show the scopes.
LEMMA ShownScopes ==
  ASSUME IInv, NEW X, NEW L \in Seq(Seq(X)), Shows(L), printed' = L
  PROVE  Backtraced
<1> DEFINE N == Len(call_stack)
<1>1. Scopes = call_stack /\ call_stack \in Seq(Func) /\ DOMAIN Scopes = 1..N /\ N \in Nat
  BY StackScopes
<1>2. ASSUME NEW i \in DOMAIN L, Contains(L[i], "Backtrace") PROVE i \in Marked(L)
  <2>1. L[i] \in Seq(X)
    OBVIOUS
  <2>2. DOMAIN L[i] = 1..Len(L[i])
    BY <2>1
  <2> QED
    BY <1>2, <2>2 DEF Contains, Marked, Unmarked
<1>3. ASSUME NEW i \in Marked(L)
      PROVE  i + N <= Len(L) /\ [k \in 1..N |-> Last(L[i + k])] = Reverse(call_stack)
  <2>1. i + N <= Len(L) /\ \A k \in 1..N : Last(L[i + k]) = call_stack[N + 1 - k]
    BY <1>3 DEF Shows
  <2>2. Reverse(call_stack) = [k \in 1..N |-> call_stack[(N - k) + 1]]
    BY DEF Reverse
  <2>3. \A k \in 1..N : (N - k) + 1 = N + 1 - k
    BY <1>1
  <2> HIDE DEF N
  <2> QED
    BY <2>1, <2>2, <2>3
<1>4. call_stack # <<>> => \A i, j \in Marked(L) : i = j
  BY DEF Shows
<1> HIDE DEF N
<1> QED
  BY <1>1, <1>2, <1>3, <1>4 DEF Backtraced, N

\* Nothing printed, nothing taken from the live buffer.
LEMMA Printless ==
  ASSUME IInv, Buffers', printed' = <<>>, Continued(outbuf["live"], outbuf'["live"])
  PROVE  Mixed /\ Lossless /\ Backtraced
<1>1. outbuf["live"] \in Seq(Stmt) /\ outbuf'["live"] \in Seq(Stmt)
  BY DEF IInv, Typed, Buffers, Instance
<1>2. Lossless
  BY <1>1, ContinuedInfix DEF Lossless
<1>3. <<>> \in Seq(Seq(Stmt)) /\ DOMAIN <<>> = {}
  OBVIOUS
<1>4. Backtraced
  BY <1>3, ShowsNone, ShownScopes
<1> QED
  BY <1>2, <1>3, <1>4 DEF Mixed

LEMMA Printing ==
  ASSUME IInv, Buffers', NEW s, Told(s), printed' = s.lines,
         s.lines = <<>> => Continued(outbuf["live"], outbuf'["live"])
  PROVE  /\ Mixed /\ Lossless
         /\ enabled <= 0 => printed' = <<>>
         /\ Shows(s.lines) => Backtraced
<1>1. s.lines \in Seq(Seq(Piece)) /\ outbuf["live"] \in Seq(Stmt) /\ outbuf'["live"] \in Seq(Stmt)
  BY OutputShape DEF Told, IInv, Typed, Buffers, Instance
<1>2. Mixed
  <2> SUFFICES ASSUME ~switched, NEW i \in DOMAIN s.lines, NEW x \in ToSet(s.lines[i]), x \in Stmt
               PROVE  x \in Open
    BY DEF Mixed, Ids
  <2>1. s.lines[i] \in Seq(Piece)
    BY <1>1
  <2>2. x \in Piece
    BY <2>1 DEF ToSet
  <2> QED
    BY <2>2, HeldOpen
<1>3. Lossless
  <2>1. CASE s.lines = <<>>
    BY <1>1, <2>1, ContinuedInfix DEF Lossless
  <2>2. CASE s.lines # <<>>
    <3> DEFINE L == s.lines
               first == L[1]
    <3>1. FlattenSeq(L) \in Seq(Piece) /\ Continued(first, FlattenSeq(L)) /\ first \in Seq(Piece)
      BY <1>1, <2>2, Flattened
    <3>2. Continued(outbuf["live"], first)
      BY <2>2 DEF Told
    <3> HIDE DEF L, first
    <3>3. Continued(outbuf["live"], FlattenSeq(L))
      BY <1>1, <3>1, <3>2, ContinuedOn
    <3>4. Infix(outbuf["live"], FlattenSeq(L))
      BY <1>1, <3>1, <3>3, ContinuedInfix
    <3> QED
      BY <2>2, <3>4 DEF Lossless, L
  <2> QED
    BY <2>1, <2>2
<1>4. enabled <= 0 => printed' = <<>>
  <2> SUFFICES ASSUME enabled <= 0 PROVE printed' = <<>>
    OBVIOUS
  <2>1. ~(enabled > 0)
    BY DEF IInv, Typed
  <2> QED
    BY <2>1 DEF instance, Told
<1>5. Shows(s.lines) => Backtraced
  BY <1>1, ShownScopes
<1> QED
  BY <1>2, <1>3, <1>4, <1>5

LEMMA Traceless == traced' = <<>> => Aligned
<1>1. DOMAIN <<>> = {}
  OBVIOUS
<1> QED
  BY <1>1 DEF Aligned

LEMMA InitInv == Init => IInv
<1> SUFFICES ASSUME Init PROVE IInv
  OBVIOUS
<1> USE DEF Init, OutInit, TracerInit
<1>1. ScopesIn(frames) = <<>> /\ Depth = 0 /\ frames = <<>> /\ DOMAIN frames = {} /\ Len(frames) = 0
  BY ScopesNone DEF Depth
<1>2. Buffers /\ DOMAIN outbuf = Instance /\ \A b \in Instance : outbuf[b] = <<>>
  BY DEF Buffers, Instance
<1>3. Typed
  <2>1. frames \in Seq(Frame) /\ Len(frames) <= MaxOpen /\ call_stack \in Seq(Func)
    BY <1>1, BoundAssumption
  <2>2. nesting_level \in 0..MAXNESTLEVEL
    BY LevelAssumption
  <2>3. /\ decorate \in BOOLEAN /\ made \in BOOLEAN /\ quiet \in BOOLEAN
        /\ dumping \in BOOLEAN /\ switched \in BOOLEAN /\ overrun \in BOOLEAN
    BY Zenon
  <2>5. enabled \in Int
    OBVIOUS
  <2>4. mode \in {"running", "unwinding", "ended"} /\ (~made => ~dumping /\ call_stack = <<>>)
    OBVIOUS
  <2> HIDE DEF Init
  <2> QED
    BY <1>2, <2>1, <2>2, <2>3, <2>4, <2>5 DEF Typed
<1>4. Distinct /\ Quoting
  BY <1>1 DEF Distinct, Quoting
<1>5. OneInstance
  BY <1>1, <1>2 DEF OneInstance
<1>6. OnlyOpenStatementsBuffered
  BY <1>2 DEF OnlyOpenStatementsBuffered, Ids, ToSet
<1>7. Levels
  <2>1. Scopes = <<>>
    BY <1>1 DEF Scopes
  <2> QED
    BY <1>1, <2>1 DEF Levels
<1> QED
  BY <1>3, <1>4, <1>5, <1>6, <1>7 DEF IInv

\* A buffer is left as it was, or empty.
Flushed == Buffers' /\ \A b \in Instance : outbuf'[b] = outbuf[b] \/ outbuf'[b] = <<>>

LEMMA LeftOver ==
  ASSUME Buffers, NEW t, Told(t), t.buf[instance] = <<>> \/ t.buf = outbuf
  PROVE  t.buf \in [Instance -> Seq(Stmt)] /\ \A b \in Instance : t.buf[b] = outbuf[b] \/ t.buf[b] = <<>>
<1>1. DOMAIN t.buf = Instance /\ \A b \in Instance : t.buf[b] = outbuf[b] \/ t.buf[b] = <<>>
  BY OutputShape, InstanceTyped DEF Told
<1>2. ASSUME NEW b \in Instance PROVE t.buf[b] \in Seq(Stmt)
  <2>1. outbuf[b] \in Seq(Stmt) /\ <<>> \in Seq(Stmt)
    BY DEF Buffers
  <2> QED
    BY <1>1, <2>1
<1>3. t.buf = [b \in Instance |-> t.buf[b]]
  BY <1>1, OutputShape DEF Told
<1> QED
  BY <1>1, <1>2, <1>3

LEMMA Leave ==
  ASSUME Buffers, NEW t, Told(t), outbuf' = t.buf, t.buf[instance] = <<>> \/ t.buf = outbuf
  PROVE  Flushed
BY LeftOver DEF Flushed, Buffers

LEMMA Stay == Buffers /\ UNCHANGED outbuf => Flushed
BY DEF Flushed, Buffers

\* The statements and scopes, and what they go with, are those of before.
SameProgram == UNCHANGED <<enabled, decorate, nesting_level, call_stack, overrun, frames, switched>>

LEMMA SameProgramInv ==
  ASSUME IInv, SameProgram, Flushed,
         made' \in BOOLEAN, quiet' \in BOOLEAN, dumping' \in BOOLEAN, mode' \in {"running", "unwinding", "ended"},
         made' \/ (~made /\ ~dumping')
  PROVE  IInv'
<1> USE DEF IInv, SameProgram
<1>1. Typed'
  BY DEF Typed, Flushed
<1>2. Distinct' /\ Quoting'
  BY DEF Distinct, Quoting
<1>3. OneInstance'
  BY DEF OneInstance, Flushed, instance
<1>4. OnlyOpenStatementsBuffered'
  <2> SUFFICES ASSUME ~switched', NEW b \in DOMAIN outbuf' PROVE Ids(outbuf'[b]) \subseteq Open'
    BY DEF OnlyOpenStatementsBuffered
  <2>1. DOMAIN outbuf = Instance /\ DOMAIN outbuf' = Instance
    BY DEF Flushed, Typed, Buffers
  <2>2. Open' = Open
    BY DEF Open, Statements
  <2>3. Ids(<<>>) = {}
    BY DEF Ids, ToSet
  <2>4. Ids(outbuf[b]) \subseteq Open
    BY <2>1 DEF OnlyOpenStatementsBuffered
  <2> QED
    BY <2>1, <2>2, <2>3, <2>4 DEF Flushed
<1>5. Levels'
  BY DEF Levels, Depth, Scopes
<1> QED
  BY <1>1, <1>2, <1>3, <1>4, <1>5

-----------------------------------------------------------------------------
(* One lemma for each action.                                              *)

\* Lines without a backtrace.
Plain(s) == Told(s) /\ Markless(s) /\ (s.buf[instance] = <<>> \/ s.buf = outbuf)

LEMMA PlainNow == IInv => Plain(Now)
<1>1. Now.buf = outbuf
  BY DEF Now
<1> QED
  BY <1>1, NowTold, NowMarkless DEF Plain, IInv, Typed

LEMMA PlainLine ==
  ASSUME IInv, NEW s, Plain(s), NEW text \in Seq(Rest), Unmarked(text)
  PROVE  Plain(raw_line(s, text))
BY RawLine, RawMarkless DEF Plain, IInv, Typed

LEMMA PlainTracer == ASSUME IInv, NEW s, Plain(s) PROVE Plain(Tracer(s))
<1>1. <<"handler">> \in Seq(Rest) /\ Unmarked(<<"handler">>)
  BY WordLine DEF Words
<1> QED
  BY <1>1, PlainLine DEF Tracer

\* What a step does that prints s.
LEMMA Heard ==
  ASSUME IInv, NEW s, Told(s), Shows(s.lines), s.buf[instance] = <<>> \/ s.buf = outbuf, Prints(s)
  PROVE  /\ Flushed /\ Mixed /\ Lossless /\ Backtraced
         /\ enabled <= 0 => printed' = <<>>
<1>1. Buffers /\ outbuf' = s.buf /\ printed' = s.lines
  BY DEF IInv, Typed, Prints
<1>2. Flushed
  BY <1>1, Leave
<1>3. s.lines = <<>> => Continued(outbuf["live"], outbuf'["live"])
  BY <1>1 DEF Told
<1>4. /\ Mixed /\ Lossless /\ Backtraced
      /\ enabled <= 0 => printed' = <<>>
  BY <1>1, <1>2, <1>3, Printing DEF Flushed
<1> QED
  BY <1>2, <1>4

LEMMA Spoken ==
  ASSUME IInv, NEW s, Told(s), Shows(s.lines), s.buf[instance] = <<>> \/ s.buf = outbuf,
         Prints(s), traced' = <<>>
  PROVE  Flushed /\ Says
BY Heard, Traceless DEF Silenced, Says

LEMMA Unheard ==
  ASSUME IInv, UNCHANGED outbuf, printed' = <<>>
  PROVE  Flushed /\ Mixed /\ Lossless /\ Backtraced
<1>1. Flushed
  BY Stay DEF IInv, Typed
<1>2. Continued(outbuf["live"], outbuf'["live"])
  <2>1. outbuf["live"] \in Seq(Stmt)
    BY DEF IInv, Typed, Buffers, Instance
  <2> QED
    BY <2>1 DEF Continued
<1> QED
  BY <1>1, <1>2, Printless DEF Flushed

LEMMA Unspoken ==
  ASSUME IInv, UNCHANGED outbuf, printed' = <<>>, traced' = <<>>
  PROVE  Flushed /\ Says
BY Unheard, Traceless DEF Silenced, Says

LEMMA Plainly ==
  ASSUME IInv, NEW s, Plain(s), Prints(s), traced' = <<>>
  PROVE  Flushed /\ Says
<1>1. Shows(s.lines)
  BY ShowsNone DEF Plain, Markless
<1> QED
  BY <1>1, Spoken DEF Plain

LEMMA NoIds == \A u \in Seq(Stmt) : Ids(u) = {} => u = <<>>
<1> SUFFICES ASSUME NEW u \in Seq(Stmt), u # <<>> PROVE Ids(u) # {}
  OBVIOUS
<1>1. u[1] \in Stmt /\ 1 \in DOMAIN u
  OBVIOUS
<1> QED
  BY <1>1 DEF Ids, ToSet

LEMMA EnableStep ==
  ASSUME IInv, NEW b \in BOOLEAN, enable(b)
  PROVE  IInv' /\ Says
<1>1. Says /\ Buffers' /\ UNCHANGED outbuf
  BY Unspoken DEF enable, Flushed
<1>2. /\ enabled' \in Int /\ switched' = (switched \/ Statements # {})
      /\ UNCHANGED <<decorate, made, dumping, quiet, nesting_level, call_stack, overrun, frames, mode>>
  BY DEF enable, Tracing, IInv, Typed
<1> USE DEF IInv
<1>3. Typed'
  <2>1. switched' \in BOOLEAN
    BY <1>2 DEF Typed
  <2> QED
    BY <1>1, <1>2, <2>1 DEF Typed
<1>4. Distinct' /\ Quoting' /\ Levels'
  BY <1>2 DEF Distinct, Quoting, Levels, Depth, Scopes
<1>5. Statements' = Statements /\ Open' = Open
  BY <1>2 DEF Statements, Open
<1>6. OnlyOpenStatementsBuffered'
  BY <1>1, <1>2, <1>5 DEF OnlyOpenStatementsBuffered
<1>7. OneInstance'
  <2> SUFFICES ASSUME ~switched', ~switched, Statements = {}
               PROVE  /\ \A i \in DOMAIN frames : ~IsStatement(frames[i])
                      /\ \A c \in Instance : outbuf[c] = <<>>
    BY <1>1, <1>2 DEF OneInstance
  <2>1. \A i \in DOMAIN frames : ~IsStatement(frames[i])
    BY Statement_in
  <2>2. Open = {}
    BY DEF Open
  <2>3. DOMAIN outbuf = Instance /\ \A c \in Instance : outbuf[c] \in Seq(Stmt)
    BY DEF Typed, Buffers
  <2>4. \A c \in Instance : Ids(outbuf[c]) = {}
    BY <2>2, <2>3 DEF OnlyOpenStatementsBuffered
  <2> QED
    BY <2>1, <2>3, <2>4, NoIds
<1> QED
  BY <1>1, <1>3, <1>4, <1>6, <1>7

LEMMA OffStep ==
  ASSUME IInv, NEW b \in BOOLEAN, off(b)
  PROVE  IInv' /\ Says
<1>1. Flushed /\ Says
  BY PlainNow, PlainTracer, Plainly DEF off
<1>2. SameProgram /\ made' = TRUE /\ quiet' \in BOOLEAN /\ UNCHANGED <<dumping, mode>>
  BY DEF off, SameProgram, Outs
<1> QED
  BY <1>1, <1>2, SameProgramInv DEF IInv, Typed

\* What an exception changes, and the end of the program.
LEMMA Unwound ==
  ASSUME IInv, Unwinds
  PROVE  SameProgram /\ made' = TRUE /\ mode' = "unwinding" /\ traced' = <<>> /\ UNCHANGED quiet
BY DEF Unwinds, SameProgram, Outs, Tracing

LEMMA ThrowTraceStep ==
  ASSUME IInv, DBG_throw
  PROVE  IInv' /\ Says
<1>1. Unwinds /\ Prints(throwtrace) /\ dumping' = TRUE
  BY DEF DBG_throw
<1>2. Plain(throwtrace)
  <2>1. throwtrace = raw_line(raw_line(Tracer(Now), <<"EXCEPTION">>), <<"at">>)
    BY DEF throwtrace, raw_line
  <2>2. /\ <<"EXCEPTION">> \in Seq(Rest) /\ Unmarked(<<"EXCEPTION">>)
        /\ <<"at">> \in Seq(Rest) /\ Unmarked(<<"at">>)
    BY WordLine DEF Words
  <2>3. Plain(Tracer(Now))
    BY PlainNow, PlainTracer
  <2>4. Plain(raw_line(Tracer(Now), <<"EXCEPTION">>))
    BY <2>2, <2>3, PlainLine
  <2> QED
    BY <2>1, <2>2, <2>4, PlainLine
<1>3. Flushed /\ Says
  BY <1>1, <1>2, Plainly, Unwound
<1> QED
  BY <1>1, <1>3, Unwound, SameProgramInv DEF IInv, Typed

LEMMA VerifyStep ==
  ASSUME IInv, verify
  PROVE  IInv' /\ Says
<1> DEFINE s == raw_line(raw_line(raw_line(Now, <<>>), <<"ASSERTION FAILED">>), <<"condition">>)
<1>1. Unwinds /\ Prints(Tracer(s)) /\ dumping' = TRUE
  BY DEF verify
<1>2. Plain(s)
  <2>1. /\ <<>> \in Seq(Rest) /\ Unmarked(<<>>)
        /\ <<"ASSERTION FAILED">> \in Seq(Rest) /\ Unmarked(<<"ASSERTION FAILED">>)
        /\ <<"condition">> \in Seq(Rest) /\ Unmarked(<<"condition">>)
    <3>1. <<>> \in Seq(Rest) /\ Unmarked(<<>>)
      BY DEF Unmarked
    <3> QED
      BY <3>1, WordLine DEF Words
  <2>2. Plain(raw_line(Now, <<>>))
    BY <2>1, PlainNow, PlainLine
  <2>3. Plain(raw_line(raw_line(Now, <<>>), <<"ASSERTION FAILED">>))
    BY <2>1, <2>2, PlainLine
  <2> QED
    BY <2>1, <2>3, PlainLine
<1> HIDE DEF s
<1>3. Flushed /\ Says
  BY <1>1, <1>2, PlainTracer, Plainly, Unwound
<1> QED
  BY <1>1, <1>3, Unwound, SameProgramInv DEF IInv, Typed

LEMMA ThrowCatchStep ==
  ASSUME IInv, throw \/ catch
  PROVE  IInv' /\ Says
<1>1. SameProgram /\ UNCHANGED <<outbuf, made, dumping, quiet>> /\ printed' = <<>> /\ traced' = <<>>
  BY DEF throw, catch, SameProgram, Outs, Tracing
<1>2. mode' \in {"running", "unwinding", "ended"}
  BY DEF throw, catch
<1>3. Flushed /\ Says
  BY <1>1, Unspoken
<1> QED
  BY <1>1, <1>2, <1>3, SameProgramInv DEF IInv, Typed

\* The end of the program.
LEMMA Ended ==
  ASSUME IInv, Ends
  PROVE  SameProgram /\ mode' = "ended" /\ traced' = <<>> /\ UNCHANGED <<made, quiet>>
BY DEF Ends, SameProgram, Outs, Tracing

\* A backtrace, after lines without one.
LEMMA Traces ==
  ASSUME IInv, NEW s, Plain(s)
  PROVE  LET t == backtrace(s, call_stack)
         IN  Told(t) /\ t.buf[instance] = <<>> /\ Shows(t.lines)
BY BacktraceTold, BacktraceShows DEF Plain, IInv, Typed

LEMMA ExitStep ==
  ASSUME IInv, exit
  PROVE  IInv' /\ Says
<1>1. Ends /\ dumping' = still_dumping /\ dumping' \in BOOLEAN /\ (~made => ~dumping')
  BY DEF exit, still_dumping, IInv, Typed
<1>2. Flushed /\ Says
  <2>1. CASE dumping
    BY <1>1, <2>1, Ended, PlainNow, Traces, Spoken DEF exit
  <2>2. CASE ~dumping
    BY <1>1, <2>2, Ended, PlainNow, Plainly DEF exit
  <2> QED
    BY <2>1, <2>2
<1> QED
  BY <1>1, <1>2, Ended, SameProgramInv DEF IInv, Typed

\* dbg_terminate_handler()
LEMMA TerminateStep ==
  ASSUME IInv, terminate
  PROVE  IInv' /\ Says
<1>1. Ends /\ dumping' \in BOOLEAN /\ (~made => ~dumping')
  <2>1. Ends /\ (dumping' = dumping \/ (made /\ dumping' = still_dumping))
    BY DEF terminate
  <2>2. dumping \in BOOLEAN /\ still_dumping \in BOOLEAN /\ (~made => ~dumping)
    BY DEF IInv, Typed, still_dumping
  <2>3. CASE dumping' = dumping
    BY <2>1, <2>2, <2>3
  <2>4. CASE made /\ dumping' = still_dumping
    BY <2>1, <2>2, <2>4
  <2> QED
    BY <2>1, <2>3, <2>4
<1>2. Flushed /\ Says
  <2>1. CASE Prints(Now)
    BY <1>1, <2>1, Ended, PlainNow, Plainly
  <2>2. CASE ~Prints(Now)
    <3> DEFINE first == backtrace(Now, call_stack)
               told == raw_line(first, <<"TERMINATING">>)
    <3>1. Prints(IF still_dumping THEN backtrace(told, call_stack) ELSE told)
      BY <2>2 DEF terminate
    <3>2. Told(first) /\ first.buf[instance] = <<>> /\ Shows(first.lines)
      BY PlainNow, Traces
    <3> DEFINE word == <<"TERMINATING">>
    <3>3. word \in Seq(Rest) /\ Unmarked(word)
      BY WordLine DEF Words
    <3> HIDE DEF first, word
    <3>4. /\ Told(told) /\ told.buf[instance] = <<>>
          /\ told.lines = IF instance = "live" THEN Append(first.lines, first.buf["live"] \o word) ELSE <<>>
      BY <3>2, <3>3, RawLine DEF IInv, Typed, word
    <3> HIDE DEF told
    <3>5. Shows(told.lines)
      <4>1. CASE instance = "live"
        <5>1. first.lines \in Seq(Seq(Piece)) /\ word \in Seq(Piece)
          BY <3>2, <3>3, OutputShape, RestPieces DEF Told
        <5>2. first.buf["live"] \o word = word
          BY <3>2, <4>1, <5>1
        <5>3. told.lines = Append(first.lines, word)
          BY <3>4, <4>1, <5>2
        <5> QED
          BY <3>2, <3>3, <5>1, <5>3, ShowsMore DEF IInv, Typed
      <4>2. CASE instance # "live"
        <5>1. DOMAIN told.lines = {}
          BY <3>4, <4>2
        <5> QED
          BY <5>1, ShowsNone
      <4> QED
        BY <4>1, <4>2
    <3>6. CASE still_dumping
      <4> DEFINE second == backtrace(told, call_stack)
      <4>1. Told(second) /\ second.buf[instance] = <<>>
        BY <3>4, BacktraceTold DEF IInv, Typed
      <4>2. call_stack = <<>>
        BY <3>6 DEF still_dumping
      <4> HIDE DEF second
      <4>3. Shows(second.lines)
        BY <4>1, <4>2, OutputShape, ShowsEmpty DEF Told
      <4>4. Prints(second)
        BY <3>1, <3>6 DEF second, told, first, word
      <4> QED
        BY <1>1, <4>1, <4>3, <4>4, Ended, Spoken
    <3>7. CASE ~still_dumping
      <4>1. Prints(told)
        BY <3>1, <3>7 DEF told, first, word
      <4> QED
        BY <1>1, <3>4, <3>5, <4>1, Ended, Spoken
    <3> QED
      BY <3>6, <3>7
  <2> QED
    BY <2>1, <2>2
<1> QED
  BY <1>1, <1>2, Ended, SameProgramInv DEF IInv, Typed

LEMMA AbortStep ==
  ASSUME IInv, DBGABORT
  PROVE  IInv' /\ Says
<1> DEFINE s == Tracer(raw_line(Now, <<"ABORTING">>))
<1>1. SameProgram /\ mode' = "ended" /\ traced' = <<>> /\ made' = TRUE /\ quiet' = quiet
  BY DEF DBGABORT, SameProgram, Outs, Tracing
<1>2. dumping' \in BOOLEAN
  BY DEF DBGABORT, still_dumping
<1>3. Plain(s)
  <2>1. <<"ABORTING">> \in Seq(Rest) /\ Unmarked(<<"ABORTING">>)
    BY WordLine DEF Words
  <2> QED
    BY <2>1, PlainNow, PlainLine, PlainTracer
<1>4. Prints(backtrace(s, call_stack))
  BY DEF DBGABORT
<1> HIDE DEF s
<1>5. Flushed /\ Says
  BY <1>1, <1>3, <1>4, Traces, Spoken
<1> QED
  BY <1>1, <1>2, <1>5, SameProgramInv DEF IInv, Typed

\* The statements stay where they are, but for those that end.
LEMMA StatementsStay ==
  ASSUME IInv, frames' \in Seq(Frame), UNCHANGED decorate,
         \A i \in DOMAIN frames' : IsStatement(frames'[i]) => i \in DOMAIN frames /\ frames'[i] = frames[i]
  PROVE  Distinct' /\ Quoting'
BY DEF IInv, Distinct, Quoting

LEMMA BuffersStay ==
  ASSUME IInv, frames' \in Seq(Frame), Flushed, UNCHANGED <<enabled, switched>>,
         \A i \in DOMAIN frames' : IsStatement(frames'[i]) => i \in DOMAIN frames /\ frames'[i] = frames[i],
         \A i \in DOMAIN frames : IsStatement(frames[i]) => i \in DOMAIN frames' /\ frames'[i] = frames[i]
  PROVE  OneInstance' /\ OnlyOpenStatementsBuffered'
<1>1. OneInstance'
  BY DEF IInv, OneInstance, Flushed, instance
<1>2. Open' = Open
  <2>1. Statements' = Statements
    BY DEF Statements
  <2> QED
    BY <2>1 DEF Open
<1>3. OnlyOpenStatementsBuffered'
  <2> SUFFICES ASSUME ~switched', NEW b \in DOMAIN outbuf' PROVE Ids(outbuf'[b]) \subseteq Open'
    BY DEF OnlyOpenStatementsBuffered
  <2>1. DOMAIN outbuf = Instance /\ DOMAIN outbuf' = Instance
    BY DEF Flushed, IInv, Typed, Buffers
  <2>2. Ids(<<>>) = {}
    BY DEF Ids, ToSet
  <2>3. Ids(outbuf[b]) \subseteq Open
    BY <2>1 DEF IInv, OnlyOpenStatementsBuffered
  <2> QED
    BY <1>2, <2>1, <2>2, <2>3 DEF Flushed
<1> QED
  BY <1>1, <1>3

LEMMA TraceLine ==
  ASSUME NEW mark, NEW f, NEW level, trace_line(mark, f, level)
  PROVE  \/ traced' = <<>>
         \/ instance = "live" /\ traced' = <<[mark |-> mark, func |-> f, indent |-> level]>>
BY DEF trace_line, flush_trace_line

Indented(mark, level) == ~overrun => IF mark = "{" THEN level = Depth ELSE level = Top.level

LEMMA Traced ==
  ASSUME IInv, NEW mark, NEW f, NEW level, trace_line(mark, f, level), Indented(mark, level)
  PROVE  Aligned /\ (enabled <= 0 => traced' = <<>>)
<1>1. CASE traced' = <<>>
  BY <1>1, Traceless
<1>2. CASE traced' # <<>>
  <2> DEFINE r == [mark |-> mark, func |-> f, indent |-> level]
  <2>1. instance = "live" /\ traced' = <<r>> /\ r.mark = mark /\ r.indent = level
    BY <1>2, TraceLine
  <2> HIDE DEF r
  <2>2. DOMAIN traced' = {1} /\ traced'[1] = r
    <3>1. Len(<<r>>) = 1 /\ <<r>>[1] = r /\ DOMAIN <<r>> = 1..Len(<<r>>)
      OBVIOUS
    <3> QED
      BY <2>1, <3>1
  <2>3. Aligned
    BY <2>1, <2>2 DEF Aligned, Indented
  <2>4. enabled \in Int /\ enabled > 0
    BY <2>1 DEF instance, IInv, Typed
  <2>5. ~(enabled <= 0)
    BY <2>4
  <2> QED
    BY <2>3, <2>5
<1> QED
  BY <1>1, <1>2

LEMMA ScopeStep ==
  ASSUME IInv, NEW f \in Func, DBGTRACE(f)
  PROVE  IInv' /\ Says
<1> DEFINE g == [func |-> f, level |-> nesting_level]
<1> USE DEF IInv
<1>0. frames \in Seq(Frame) /\ nesting_level \in 0..MAXNESTLEVEL /\ Depth \in Nat /\ Len(frames) \in Nat
      /\ MAXNESTLEVEL \in Nat /\ MaxOpen \in Nat
  BY StackScopes, LevelAssumption, BoundAssumption DEF Typed
<1>1. /\ frames' = Append(frames, g) /\ call_stack' = Append(call_stack, f) /\ Len(frames) < MaxOpen
      /\ nesting_level' = IF nesting_level < MAXNESTLEVEL THEN nesting_level + 1 ELSE nesting_level
      /\ overrun' = (overrun \/ Depth = MAXNESTLEVEL) /\ made' = TRUE
      /\ trace_line("{", f, nesting_level) /\ Prints(Tracer(Now))
      /\ UNCHANGED <<enabled, decorate, dumping, quiet, mode, switched>>
  BY DEF DBGTRACE, enter_scope, Outs
<1>13. nesting_level' = IF nesting_level < MAXNESTLEVEL THEN nesting_level + 1 ELSE nesting_level
  BY <1>1
<1>14. Len(frames) < MaxOpen
  BY <1>1
<1>2. g \in Scope /\ g \in Frame /\ ~IsStatement(g) /\ g.func = f /\ g.level = nesting_level
  <2>1. g \in Scope
    BY <1>0 DEF Scope
  <2> QED
    BY <2>1, Kinds DEF Frame
<1> HIDE DEF g
<1>3. /\ frames' \in Seq(Frame) /\ Len(frames') = Len(frames) + 1
      /\ DOMAIN frames = 1..Len(frames) /\ DOMAIN frames' = 1..Len(frames) + 1
      /\ frames'[Len(frames) + 1] = g /\ \A i \in 1..Len(frames) : frames'[i] = frames[i]
  <2> DEFINE gs == Append(frames, g)
  <2>1. /\ gs \in Seq(Frame) /\ Len(gs) = Len(frames) + 1
        /\ DOMAIN frames = 1..Len(frames) /\ DOMAIN gs = 1..Len(frames) + 1
        /\ gs[Len(frames) + 1] = g /\ \A i \in 1..Len(frames) : gs[i] = frames[i]
    BY <1>0, <1>2, AppendShape
  <2>2. frames' = gs
    BY <1>1
  <2> HIDE DEF gs
  <2> QED
    BY <2>1, <2>2
<1>4. /\ \A i \in DOMAIN frames' : IsStatement(frames'[i]) => i \in DOMAIN frames /\ frames'[i] = frames[i]
      /\ \A i \in DOMAIN frames : IsStatement(frames[i]) => i \in DOMAIN frames' /\ frames'[i] = frames[i]
  <2>1. \A i \in 1..Len(frames) + 1 : i = Len(frames) + 1 \/ i \in 1..Len(frames)
    BY <1>0
  <2>2. \A i \in 1..Len(frames) : i \in 1..Len(frames) + 1
    BY <1>0
  <2> QED
    BY <1>2, <1>3, <2>1, <2>2
<1>5. /\ Flushed /\ Mixed /\ Lossless /\ Backtraced
      /\ enabled <= 0 => printed' = <<>>
  <2>1. Plain(Tracer(Now))
    BY PlainNow, PlainTracer
  <2>2. Shows(Tracer(Now).lines)
    BY <2>1, ShowsNone DEF Plain, Markless
  <2> QED
    BY <1>1, <2>1, <2>2, Heard DEF Plain
<1>6. Aligned /\ (enabled <= 0 => traced' = <<>>)
  <2>1. ~overrun => nesting_level = Depth
    BY DEF Levels
  <2> QED
    BY <1>1, <2>1, Traced DEF Indented
<1>7. Says
  BY <1>5, <1>6 DEF Says, Silenced
<1>8. ScopesIn(frames') = Append(ScopesIn(frames), g)
  BY <1>0, <1>1, <1>2, ScopesAppend
<1>9. /\ ScopesIn(frames) \in Seq(Scope) /\ Len(ScopesIn(frames)) = Depth
      /\ Depth' = Depth + 1 /\ ScopesIn(frames')[Depth + 1] = g
      /\ \A k \in 1..Depth : ScopesIn(frames')[k] = ScopesIn(frames)[k]
  <2>1. ScopesIn(frames) \in Seq(Scope)
    BY <1>0, ScopesTyped
  <2>2. Depth' = Len(ScopesIn(frames'))
    BY DEF Depth
  <2> QED
    BY <1>2, <1>8, <2>1, <2>2 DEF Depth
<1>10. Typed'
  <2>1. nesting_level' \in 0..MAXNESTLEVEL
    <3>1. CASE nesting_level < MAXNESTLEVEL
      BY <1>0, <1>13, <3>1
    <3>2. CASE ~(nesting_level < MAXNESTLEVEL)
      BY <1>0, <1>13, <3>2
    <3> QED
      BY <3>1, <3>2
  <2>2. call_stack' \in Seq(Func)
    BY <1>1, AppendShape DEF Typed
  <2>3. Len(frames') <= MaxOpen
    BY <1>0, <1>3, <1>14
  <2>4. overrun' \in BOOLEAN
    BY <1>1 DEF Typed
  <2> QED
    BY <1>1, <1>3, <1>5, <2>1, <2>2, <2>3, <2>4 DEF Typed, Flushed
<1>11. Levels'
  <2>1. Scopes' = call_stack'
    <3>1. Scopes' = [k \in 1..Depth + 1 |-> ScopesIn(frames')[k].func]
      BY <1>9 DEF Scopes
    <3>2. call_stack = Scopes /\ call_stack \in Seq(Func) /\ Len(call_stack) = Depth
      BY StackScopes
    <3>3. call_stack' = [k \in 1..Depth + 1 |-> IF k = Depth + 1 THEN f ELSE call_stack[k]]
      <4> DEFINE u == Append(call_stack, f)
                 v == [k \in 1..Depth + 1 |-> IF k = Depth + 1 THEN f ELSE call_stack[k]]
      <4>1. /\ u \in Seq(Func) /\ Len(u) = Depth + 1 /\ u[Depth + 1] = f
            /\ \A k \in 1..Depth : u[k] = call_stack[k]
        BY <3>2, AppendShape
      <4> HIDE DEF u
      <4>2. u = [k \in 1..Depth + 1 |-> u[k]]
        BY <4>1
      <4>3. \A k \in 1..Depth + 1 : k = Depth + 1 \/ k \in 1..Depth
        BY <1>0
      <4>4. u = v
        BY <4>1, <4>2, <4>3
      <4> QED
        BY <1>1, <4>4 DEF u
    <3>4. \A k \in 1..Depth : Scopes[k] = ScopesIn(frames)[k].func
      BY DEF Scopes
    <3>5. \A k \in 1..Depth + 1 : ScopesIn(frames')[k].func = IF k = Depth + 1 THEN f ELSE call_stack[k]
      <4>1. \A k \in 1..Depth + 1 : k = Depth + 1 \/ k \in 1..Depth
        BY <1>0
      <4> QED
        BY <1>2, <1>9, <3>2, <3>4, <4>1
    <3> QED
      BY <3>1, <3>3, <3>5
  <2>2. nesting_level <= Depth /\ (~overrun => nesting_level = Depth)
    BY DEF Levels
  <2>3. nesting_level' <= Depth'
    <3>1. CASE nesting_level < MAXNESTLEVEL
      BY <1>0, <1>13, <1>9, <2>2, <3>1
    <3>2. CASE ~(nesting_level < MAXNESTLEVEL)
      BY <1>0, <1>13, <1>9, <2>2, <3>2
    <3> QED
      BY <3>1, <3>2
  <2>4. ~overrun' => nesting_level' = Depth'
    <3> SUFFICES ASSUME ~overrun' PROVE nesting_level' = Depth'
      OBVIOUS
    <3>1. nesting_level = Depth /\ Depth # MAXNESTLEVEL
      BY <1>1, <2>2
    <3>2. nesting_level < MAXNESTLEVEL
      BY <1>0, <3>1
    <3> QED
      BY <1>0, <1>1, <1>9, <3>1, <3>2
  <2>5. ~overrun' => \A k \in 1..Depth' : ScopesIn(frames')[k].level = k - 1
    <3> SUFFICES ASSUME ~overrun', NEW k \in 1..Depth' PROVE ScopesIn(frames')[k].level = k - 1
      OBVIOUS
    <3>1. ~overrun /\ nesting_level = Depth
      BY <1>1, <2>2
    <3>2. CASE k = Depth + 1
      BY <1>0, <1>2, <1>9, <3>1, <3>2
    <3>3. CASE k # Depth + 1
      <4>1. k \in 1..Depth
        BY <1>0, <1>9, <3>3
      <4> QED
        BY <1>9, <3>1, <4>1 DEF Levels
    <3> QED
      BY <3>2, <3>3
  <2> QED
    BY <2>1, <2>3, <2>4, <2>5 DEF Levels
<1>12. Distinct' /\ Quoting' /\ OneInstance' /\ OnlyOpenStatementsBuffered'
  BY <1>1, <1>3, <1>4, <1>5, StatementsStay, BuffersStay
<1> QED
  BY <1>7, <1>10, <1>11, <1>12

LEMMA EndScopeStep ==
  ASSUME IInv, end_scope
  PROVE  IInv' /\ Says
<1> DEFINE N == Len(frames)
<1>0. frames \in Seq(Frame) /\ frames # <<>> /\ nesting_level \in 0..MAXNESTLEVEL /\ MAXNESTLEVEL \in Nat
      /\ Len(frames) <= MaxOpen /\ MaxOpen \in Nat
  BY LevelAssumption, BoundAssumption DEF IInv, Typed, end_scope
<1>1. /\ frames' = Front(frames) /\ call_stack' = Front(call_stack) /\ ~IsStatement(Top)
      /\ trace_line("}", Top.func, nesting_level') /\ printed' = <<>>
      /\ UNCHANGED <<enabled, decorate, outbuf, made, dumping, quiet, mode, switched>>
  BY DEF end_scope, leave_scope, Outs
<1>2. nesting_level' = IF nesting_level > 0 THEN nesting_level - 1 ELSE nesting_level
  BY DEF end_scope, leave_scope
<1>3. overrun' = (overrun /\ Depth > 1)
  BY DEF end_scope
<1>4. /\ Front(frames) \in Seq(Frame) /\ Top \in Frame
      /\ N \in Nat /\ N >= 1 /\ Len(Front(frames)) = N - 1
      /\ \A n \in 1..N - 1 : Front(frames)[n] = frames[n]
  BY <1>0, FrontAppend DEF Top
<1>5. DOMAIN frames = 1..N /\ DOMAIN frames' = 1..N - 1
  <2> DEFINE gs == Front(frames)
  <2>1. DOMAIN frames = 1..N
    BY <1>0
  <2>2. gs \in Seq(Frame) /\ Len(gs) = N - 1
    BY <1>4
  <2> HIDE DEF gs, N
  <2>3. DOMAIN gs = 1..N - 1
    BY <2>2
  <2> QED
    BY <1>1, <2>1, <2>3 DEF gs
<1>6. frames[N] = Top
  BY DEF Top, Last
<1>7. /\ \A i \in DOMAIN frames' : IsStatement(frames'[i]) => i \in DOMAIN frames /\ frames'[i] = frames[i]
      /\ \A i \in DOMAIN frames : IsStatement(frames[i]) => i \in DOMAIN frames' /\ frames'[i] = frames[i]
  <2>1. \A i \in 1..N - 1 : i \in 1..N
    BY <1>4
  <2>2. \A i \in 1..N : i = N \/ i \in 1..N - 1
    BY <1>4
  <2> HIDE DEF N
  <2> QED
    BY <1>1, <1>4, <1>5, <1>6, <2>1, <2>2
<1>8. Flushed /\ Mixed /\ Lossless /\ Backtraced
  BY <1>1, Unheard
<1> DEFINE R == ScopesIn(Front(frames))
           D == Len(R)
<1>9. ScopesIn(frames) = Append(R, Top) /\ R \in Seq(Scope) /\ Top \in Scope
  <2>1. Top \in Scope
    BY <1>1, <1>4, Kinds DEF Frame
  <2>2. R \in Seq(Scope)
    BY <1>4, ScopesTyped
  <2> QED
    BY <1>0, <1>1, <2>1, <2>2, ScopesFront DEF Top
<1>10. ScopesIn(frames') = R /\ Depth' = D
  BY <1>1 DEF Depth
<1> HIDE DEF R
<1>11. /\ D \in Nat /\ Depth = D + 1 /\ ScopesIn(frames)[D + 1] = Top
       /\ \A k \in 1..D : ScopesIn(frames)[k] = R[k]
  BY <1>9, AppendShape DEF Depth
<1> HIDE DEF N, D
<1>12. nesting_level <= D + 1 /\ (~overrun => nesting_level = D + 1)
  BY <1>11 DEF IInv, Levels
<1>13. nesting_level' \in 0..MAXNESTLEVEL /\ nesting_level' <= D
  <2>1. CASE nesting_level > 0
    BY <1>0, <1>2, <1>11, <1>12, <2>1
  <2>2. CASE ~(nesting_level > 0)
    BY <1>0, <1>2, <1>11, <1>12, <2>2
  <2> QED
    BY <2>1, <2>2
<1>14. ~overrun => nesting_level' = D
  BY <1>0, <1>2, <1>11, <1>12
<1>15. ~overrun' => (overrun => D = 0)
  <2> SUFFICES ASSUME ~overrun', overrun PROVE D = 0
    OBVIOUS
  <2>1. ~(Depth > 1)
    BY <1>3, Zenon
  <2> QED
    BY <1>11, <2>1
<1>16. ~overrun => \A k \in 1..D + 1 : ScopesIn(frames)[k].level = k - 1
  BY <1>11 DEF IInv, Levels
<1>17. Says
  <2>1. Indented("}", nesting_level')
    <3> SUFFICES ASSUME ~overrun PROVE nesting_level' = Top.level
      BY DEF Indented
    <3>1. D + 1 \in 1..D + 1 /\ (D + 1) - 1 = D
      BY <1>11
    <3>2. Top.level = D
      BY <1>11, <1>16, <3>1
    <3> QED
      BY <1>14, <3>2
  <2>2. Aligned /\ (enabled <= 0 => traced' = <<>>)
    BY <1>1, <2>1, Traced
  <2> QED
    BY <1>1, <1>8, <2>2 DEF Says, Silenced
<1>18. call_stack # <<>> /\ call_stack' \in Seq(Func) /\ Scopes' = call_stack'
  <2>1. Scopes = call_stack /\ call_stack \in Seq(Func) /\ Depth = Len(call_stack)
    BY StackScopes
  <2>2. Len(call_stack) = D + 1
    BY <1>11, <2>1
  <2>3. call_stack # <<>>
    BY <1>11, <2>2
  <2>4. /\ Front(call_stack) \in Seq(Func) /\ Len(Front(call_stack)) = Len(call_stack) - 1
        /\ \A n \in 1..Len(call_stack) - 1 : Front(call_stack)[n] = call_stack[n]
    BY <2>1, <2>3, FrontAppend
  <2>5. Len(call_stack) - 1 = D
    BY <1>11, <2>2
  <2>6. Front(call_stack) = [k \in 1..D |-> Front(call_stack)[k]]
    BY <2>4, <2>5
  <2>7. Scopes' = [k \in 1..D |-> R[k].func]
    BY <1>10 DEF Scopes
  <2>8. \A k \in 1..D : k \in 1..Depth /\ Scopes[k] = ScopesIn(frames)[k].func
    BY <1>11 DEF Scopes
  <2>9. \A k \in 1..D : Front(call_stack)[k] = R[k].func
    BY <1>11, <2>1, <2>4, <2>5, <2>8
  <2> QED
    BY <1>1, <2>3, <2>4, <2>6, <2>7, <2>9
<1>19. Typed'
  <2>1. Len(frames') <= MaxOpen
    <3>1. Len(frames') = N - 1 /\ N <= MaxOpen
      BY <1>0, <1>1, <1>4 DEF N
    <3> QED
      BY <1>0, <1>4, <3>1
  <2>2. overrun' \in BOOLEAN
    BY <1>3
  <2>3. ~made' => ~dumping' /\ call_stack' = <<>>
    BY <1>1, <1>18 DEF IInv, Typed
  <2>4. frames' \in Seq(Frame)
    BY <1>1, <1>4
  <2> QED
    BY <1>1, <1>8, <1>13, <1>18, <2>1, <2>2, <2>3, <2>4 DEF IInv, Typed, Flushed
<1>20. Levels'
  <2>1. ~overrun' => nesting_level' = D
    BY <1>0, <1>11, <1>13, <1>14, <1>15
  <2>2. ~overrun' => \A k \in 1..D : R[k].level = k - 1
    <3> SUFFICES ASSUME ~overrun', NEW k \in 1..D PROVE R[k].level = k - 1
      OBVIOUS
    <3>1. ~overrun
      BY <1>11, <1>15
    <3>2. k \in 1..D + 1
      BY <1>11
    <3> QED
      BY <1>11, <1>16, <3>1, <3>2
  <2> QED
    BY <1>10, <1>13, <1>18, <2>1, <2>2 DEF Levels
<1>21. Distinct' /\ Quoting' /\ OneInstance' /\ OnlyOpenStatementsBuffered'
  <2>1. frames' \in Seq(Frame)
    BY <1>1, <1>4
  <2> QED
    BY <1>1, <1>7, <1>8, <2>1, StatementsStay, BuffersStay
<1> QED
  BY <1>17, <1>19, <1>20, <1>21 DEF IInv

-----------------------------------------------------------------------------
(* Statements begin, are put to the buffers, and end.                      *)

LEMMA IntoShape ==
  ASSUME NEW s, NEW i, NEW text, s = [buf |-> s.buf, lines |-> s.lines]
  PROVE  Into(s, i, text) = [buf |-> [s.buf EXCEPT ![i] = s.buf[i] \o text], lines |-> s.lines]
<1> DEFINE v == s.buf[i] \o text
<1>1. Into(s, i, text) = [s EXCEPT !.buf[i] = v]
  BY DEF Into
<1> HIDE DEF v
<1>2. [s EXCEPT !.buf[i] = v] = [buf |-> [s.buf EXCEPT ![i] = v], lines |-> s.lines]
  BY PutShape
<1> QED
  BY <1>1, <1>2 DEF v

\* A statement is put to a buffer after what was there, or left there by t.
LEMMA PutId ==
  ASSUME IInv, NEW buf \in [Instance -> Seq(Stmt)], \A b \in Instance : buf[b] = outbuf[b] \/ buf[b] = <<>>,
         NEW i \in Instance, NEW id \in Stmt, outbuf' = [buf EXCEPT ![i] = buf[i] \o <<id>>]
  PROVE  /\ Buffers' /\ DOMAIN outbuf' = Instance
         /\ \A b \in Instance : b # i => outbuf'[b] = buf[b]
         /\ \A b \in Instance : Ids(outbuf'[b]) \subseteq Ids(outbuf[b]) \cup {id}
         /\ \A u \in Seq(Stmt) : Continued(u, buf["live"]) => Continued(u, outbuf'["live"])
<1>1. <<id>> \in Seq(Stmt) /\ \A b \in Instance : outbuf[b] \in Seq(Stmt) /\ buf[b] \in Seq(Stmt)
  BY DEF IInv, Typed, Buffers
<1>2. /\ outbuf'[i] = buf[i] \o <<id>> /\ DOMAIN outbuf' = Instance
      /\ \A b \in Instance : b # i => outbuf'[b] = buf[b]
  OBVIOUS
<1> DEFINE word == <<id>>
<1>3. outbuf'[i] \in Seq(Stmt) /\ Continued(buf[i], outbuf'[i])
  <2>1. word \in Seq(Stmt) /\ buf[i] \in Seq(Stmt) /\ outbuf'[i] = buf[i] \o word
    BY <1>1, <1>2
  <2> HIDE DEF word
  <2>2. buf[i] \o word \in Seq(Stmt) /\ Continued(buf[i], buf[i] \o word)
    BY <2>1 DEF Continued
  <2> QED
    BY <2>1, <2>2
<1>4. Buffers'
  <2>1. \A b \in Instance : outbuf'[b] \in Seq(Stmt)
    BY <1>1, <1>2, <1>3
  <2>2. outbuf' = [b \in Instance |-> outbuf'[b]]
    BY <1>2
  <2> QED
    BY <2>1, <2>2 DEF Buffers
<1>5. ASSUME NEW b \in Instance PROVE Ids(outbuf'[b]) \subseteq Ids(outbuf[b]) \cup {id}
  <2>0. Ids(buf[b]) \subseteq Ids(outbuf[b])
    BY DEF Ids, ToSet
  <2>1. CASE b # i
    BY <1>2, <2>0, <2>1
  <2>2. CASE b = i
    <3>1. \A x \in ToSet(buf[i] \o <<id>>) : x \in ToSet(buf[i]) \/ x = id
      <4> SUFFICES ASSUME NEW n \in DOMAIN (buf[i] \o <<id>>)
                   PROVE  (buf[i] \o <<id>>)[n] \in ToSet(buf[i]) \/ (buf[i] \o <<id>>)[n] = id
        BY DEF ToSet
      <4>1. n \in 1..Len(buf[i]) + 1 /\ Len(buf[i]) \in Nat
        BY <1>1
      <4>2. CASE n = Len(buf[i]) + 1
        BY <1>1, <4>1, <4>2
      <4>3. CASE n # Len(buf[i]) + 1
        <5>1. n \in 1..Len(buf[i])
          BY <4>1, <4>3
        <5>2. (buf[i] \o <<id>>)[n] = buf[i][n]
          BY <1>1, <5>1
        <5> QED
          BY <1>1, <5>1, <5>2 DEF ToSet
      <4> QED
        BY <4>2, <4>3
    <3> QED
      BY <1>2, <2>0, <2>2, <3>1 DEF Ids
  <2> QED
    BY <2>1, <2>2
<1>6. ASSUME NEW u \in Seq(Stmt), Continued(u, buf["live"]) PROVE Continued(u, outbuf'["live"])
  <2>0. "live" \in Instance
    BY DEF Instance
  <2>1. CASE i = "live"
    BY <1>1, <1>3, <1>6, <2>1, ContinuedOn
  <2>2. CASE i # "live"
    BY <1>2, <1>6, <2>0, <2>2
  <2> QED
    BY <2>1, <2>2
<1> QED
  BY <1>2, <1>4, <1>5, <1>6

LEMMA OpenedShape ==
  ASSUME NEW id \in Stmt, NEW kind \in Kind
  PROVE  /\ Opened(id, kind) \in Frame /\ IsStatement(Opened(id, kind))
         /\ Opened(id, kind).id = id /\ Opened(id, kind).kind = kind /\ Opened(id, kind).instance = instance
         /\ Opened(id, kind).quoted = {}
<1>1. Opened(id, kind) \in Statement
  <2>1. {} \in SUBSET BOOLEAN /\ 0 \in Nat /\ FALSE \in BOOLEAN
    OBVIOUS
  <2> QED
    BY <2>1, InstanceTyped DEF Opened, Statement
<1>2. /\ Opened(id, kind).id = id /\ Opened(id, kind).kind = kind /\ Opened(id, kind).instance = instance
      /\ Opened(id, kind).quoted = {}
  BY DEF Opened
<1> QED
  BY <1>1, <1>2, Kinds DEF Frame

\* What a statement that begins leaves of the others.
Alike(f, g) ==
    /\ IsStatement(f) <=> IsStatement(g)
    /\ ~IsStatement(f) => f = g
    /\ IsStatement(f) => f.id = g.id /\ f.instance = g.instance

LEMMA Begins ==
  ASSUME IInv, NEW id \in Stmt, NEW kind \in Kind, Begin(id, kind),
         NEW gs \in Seq(Frame), Len(gs) = Len(frames), \A i \in 1..Len(frames) : Alike(frames[i], gs[i]),
         frames' = Append(gs, Opened(id, kind))
  PROVE  /\ frames' \in Seq(Frame) /\ Len(frames') <= MaxOpen
         /\ DOMAIN frames = 1..Len(frames) /\ DOMAIN frames' = 1..Len(frames) + 1 /\ Len(frames) \in Nat
         /\ frames'[Len(frames) + 1] = Opened(id, kind) /\ \A i \in 1..Len(frames) : frames'[i] = gs[i]
         /\ \A i \in DOMAIN frames' : i = Len(frames) + 1 \/ i \in 1..Len(frames)
         /\ Distinct' /\ Levels' /\ Open \cup {id} \subseteq Open'
         /\ ~switched => \A i \in DOMAIN frames' : IsStatement(frames'[i]) => frames'[i].instance = instance
<1> DEFINE g == Opened(id, kind)
           N == Len(frames)
<1>1. g \in Frame /\ IsStatement(g) /\ g.id = id /\ g.instance = instance
  BY OpenedShape
<1>2. /\ N \in Nat /\ N < MaxOpen /\ MaxOpen \in Nat /\ \A frame \in Statements : frame.id # id
      /\ frames \in Seq(Frame) /\ Len(gs) = N
  BY BoundAssumption DEF IInv, Typed, Begin
<1>3. UNCHANGED <<nesting_level, call_stack, overrun, switched>>
  BY DEF Begin, Tracing
<1>4. frames' = Append(gs, g)
  OBVIOUS
<1> HIDE DEF g
<1>5. /\ frames' \in Seq(Frame) /\ Len(frames') = N + 1 /\ DOMAIN frames' = 1..N + 1 /\ DOMAIN frames = 1..N
      /\ frames'[N + 1] = g /\ \A i \in 1..N : frames'[i] = gs[i]
  <2> DEFINE hs == Append(gs, g)
  <2>1. hs \in Seq(Frame) /\ Len(hs) = N + 1 /\ DOMAIN hs = 1..N + 1 /\ hs[N + 1] = g /\ \A i \in 1..N : hs[i] = gs[i]
    BY <1>1, <1>2, AppendShape
  <2>2. DOMAIN frames = 1..N
    BY <1>2
  <2> HIDE DEF hs
  <2> QED
    BY <1>4, <2>1, <2>2 DEF hs
<1> HIDE DEF N
<1>6. Len(frames') <= MaxOpen
  BY <1>2, <1>5
<1>7. \A i \in DOMAIN frames' : i = N + 1 \/ i \in 1..N
  BY <1>2, <1>5
<1>8. \A i \in 1..N : IsStatement(frames[i]) => frames[i].id # id
  BY <1>2, <1>5, Statement_in
<1>9. \A i \in 1..N : Alike(frames[i], gs[i])
  BY DEF N
<1>10. Distinct'
  <2> SUFFICES ASSUME NEW i \in DOMAIN frames', NEW j \in DOMAIN frames', IsStatement(frames'[i]),
                      IsStatement(frames'[j]), frames'[i].id = frames'[j].id
               PROVE  i = j
    BY DEF Distinct
  <2>1. \A k \in 1..N : IsStatement(frames'[k]) => IsStatement(frames[k]) /\ frames'[k].id = frames[k].id
    BY <1>5, <1>9 DEF Alike
  <2>2. CASE i \in 1..N /\ j \in 1..N
    BY <1>5, <2>1, <2>2 DEF IInv, Distinct
  <2>3. CASE ~(i \in 1..N /\ j \in 1..N)
    BY <1>1, <1>5, <1>7, <1>8, <2>1, <2>3
  <2> QED
    BY <2>2, <2>3
<1>11. Levels'
  <2>1. ScopesIn(gs) = ScopesIn(frames)
    BY <1>2, <1>9, ScopesSame DEF Alike, N
  <2>2. ScopesIn(frames') = ScopesIn(frames)
    BY <1>1, <1>4, <2>1, ScopesAppend
  <2>3. Depth' = Depth /\ Scopes' = Scopes
    BY <2>2 DEF Depth, Scopes
  <2> QED
    BY <1>3, <2>2, <2>3 DEF IInv, Levels
<1>12. Open \cup {id} \subseteq Open'
  <2>1. \A f : f \in Statements' <=> \E i \in DOMAIN frames' : frames'[i] = f /\ IsStatement(f)
    BY DEF Statements
  <2>2. id \in Open'
    <3>1. N + 1 \in DOMAIN frames'
      BY <1>2, <1>5
    <3>2. g \in Statements'
      BY <1>1, <1>5, <2>1, <3>1
    <3> QED
      BY <1>1, <3>2 DEF Open
  <2>3. ASSUME NEW f \in Statements PROVE f.id \in Open'
    <3>1. PICK i \in DOMAIN frames : frames[i] = f /\ IsStatement(f)
      BY Statement_in
    <3>2. i \in 1..N /\ i \in 1..N + 1
      BY <1>2, <1>5
    <3>3. IsStatement(frames'[i]) /\ frames'[i].id = f.id
      BY <1>5, <1>9, <3>1, <3>2 DEF Alike
    <3>4. frames'[i] \in Statements'
      BY <1>5, <2>1, <3>2, <3>3
    <3> QED
      BY <3>3, <3>4 DEF Open
  <2> QED
    BY <2>2, <2>3 DEF Open
<1>13. ASSUME ~switched, NEW i \in DOMAIN frames', IsStatement(frames'[i]) PROVE frames'[i].instance = instance
  <2>1. CASE i = N + 1
    BY <1>1, <1>5, <2>1
  <2>2. CASE i \in 1..N
    <3>1. IsStatement(frames[i]) /\ frames'[i].instance = frames[i].instance
      BY <1>5, <1>9, <1>13, <2>2 DEF Alike
    <3> QED
      BY <1>5, <1>13, <2>2, <3>1 DEF IInv, OneInstance
  <2> QED
    BY <1>7, <2>1, <2>2
<1> QED
  BY <1>2, <1>5, <1>6, <1>7, <1>10, <1>11, <1>12, <1>13 DEF N, g

LEMMA RawStep ==
  ASSUME IInv, NEW id \in Stmt, DBGRAW(id)
  PROVE  IInv' /\ Says
<1> DEFINE N == Len(frames)
<1>1. /\ Begin(id, "DBGRAW") /\ frames' = Append(frames, Opened(id, "DBGRAW")) /\ printed' = <<>>
      /\ UNCHANGED <<decorate, outbuf, made>>
  BY DEF DBGRAW
<1>2. UNCHANGED <<enabled, dumping, quiet, nesting_level, call_stack, overrun, mode, switched>> /\ traced' = <<>>
  BY DEF DBGRAW, Begin, Tracing
<1>3. "DBGRAW" \in Kind /\ frames \in Seq(Frame) /\ \A i \in 1..N : Alike(frames[i], frames[i])
  BY DEF Kind, Alike, IInv, Typed
<1>4. /\ frames' \in Seq(Frame) /\ Len(frames') <= MaxOpen
      /\ DOMAIN frames = 1..N /\ DOMAIN frames' = 1..N + 1
      /\ frames'[N + 1] = Opened(id, "DBGRAW") /\ \A i \in 1..N : frames'[i] = frames[i]
      /\ \A i \in DOMAIN frames' : i = N + 1 \/ i \in 1..N
      /\ Distinct' /\ Levels' /\ Open \cup {id} \subseteq Open'
      /\ ~switched => \A i \in DOMAIN frames' : IsStatement(frames'[i]) => frames'[i].instance = instance
  BY <1>1, <1>3, Begins
<1> HIDE DEF N
<1>5. Flushed /\ Says
  BY <1>1, <1>2, Unspoken
<1>6. Typed'
  BY <1>1, <1>2, <1>4, <1>5 DEF IInv, Typed, Flushed
<1>7. Quoting'
  <2> SUFFICES ASSUME NEW i \in DOMAIN frames', IsStatement(frames'[i]), frames'[i].kind # "DBGRAW", ~frames'[i].disturbed
               PROVE  /\ decorate' = (frames'[i].kind = "DBGDUMP")
                      /\ frames'[i].quoted \subseteq {frames'[i].kind = "DBGDUMP" /\ frames'[i].instance = "live"}
    BY DEF Quoting
  <2>1. i \in 1..N /\ frames'[i] = frames[i]
    BY <1>3, <1>4, OpenedShape
  <2> QED
    BY <1>1, <1>4, <2>1 DEF IInv, Quoting
<1>8. OneInstance'
  BY <1>1, <1>2, <1>4 DEF IInv, OneInstance, instance
<1>9. OnlyOpenStatementsBuffered'
  BY <1>1, <1>2, <1>4 DEF IInv, OnlyOpenStatementsBuffered
<1> QED
  BY <1>4, <1>5, <1>6, <1>7, <1>8, <1>9 DEF IInv

\* DBG and DBGDUMP, the first of which may tell about the terminate handler.
LEMMA LineStep ==
  ASSUME IInv, NEW id \in Stmt, NEW kind \in {"DBG", "DBGDUMP"}, dumper_line(id, kind)
  PROVE  IInv' /\ Says
<1> DEFINE N == Len(frames)
           gs == [i \in DOMAIN frames |-> IF IsStatement(frames[i]) THEN [frames[i] EXCEPT !.disturbed = TRUE]
                                                                  ELSE frames[i]]
           s == Tracer(Now)
<1>1. /\ Begin(id, kind) /\ frames' = Append(gs, Opened(id, kind))
      /\ made' = TRUE /\ Prints(Into(s, instance, <<id>>)) /\ decorate' = (kind = "DBGDUMP")
  BY DEF dumper_line
<1>2. UNCHANGED <<enabled, dumping, quiet, nesting_level, call_stack, overrun, mode, switched>> /\ traced' = <<>>
  BY <1>1 DEF Begin, Tracing
<1>3. kind \in Kind /\ frames \in Seq(Frame) /\ N \in Nat /\ DOMAIN frames = 1..N
  BY DEF Kind, IInv, Typed
<1>4. /\ gs \in Seq(Frame) /\ Len(gs) = N /\ \A i \in 1..N : Alike(frames[i], gs[i])
      /\ \A i \in 1..N : IsStatement(gs[i]) => gs[i].disturbed
  <2>1. ASSUME NEW i \in 1..N
        PROVE  gs[i] \in Frame /\ Alike(frames[i], gs[i]) /\ (IsStatement(gs[i]) => gs[i].disturbed)
    <3> DEFINE f == frames[i]
               g == [f EXCEPT !.disturbed = TRUE]
    <3>1. f \in Frame /\ gs[i] = IF IsStatement(f) THEN g ELSE f
      BY <1>3
    <3>2. CASE IsStatement(f)
      <4>1. f \in Statement
        BY <3>1, <3>2, Kinds DEF Frame
      <4>2. g \in Statement /\ g.id = f.id /\ g.instance = f.instance /\ g.disturbed
        BY <4>1 DEF Statement
      <4>3. gs[i] = g /\ IsStatement(g)
        BY <3>1, <3>2, <4>2, Kinds
      <4> HIDE DEF g, gs, f
      <4>4. Alike(f, g)
        BY <3>2, <4>2, <4>3 DEF Alike
      <4> QED
        BY <4>2, <4>3, <4>4 DEF Frame, f
    <3>3. CASE ~IsStatement(f)
      <4>1. gs[i] = f
        BY <3>1, <3>3
      <4> QED
        BY <3>1, <3>3, <4>1 DEF Alike
    <3> QED
      BY <3>2, <3>3
  <2>2. gs = [i \in 1..N |-> gs[i]]
    BY <1>3
  <2> HIDE DEF gs, N
  <2>3. gs \in Seq(Frame) /\ Len(gs) = N
    BY <1>3, <2>1, <2>2
  <2> QED
    BY <2>1, <2>3
<1> HIDE DEF gs
<1>5. /\ frames' \in Seq(Frame) /\ Len(frames') <= MaxOpen
      /\ DOMAIN frames' = 1..N + 1
      /\ frames'[N + 1] = Opened(id, kind) /\ \A i \in 1..N : frames'[i] = gs[i]
      /\ \A i \in DOMAIN frames' : i = N + 1 \/ i \in 1..N
      /\ Distinct' /\ Levels' /\ Open \cup {id} \subseteq Open'
      /\ ~switched => \A i \in DOMAIN frames' : IsStatement(frames'[i]) => frames'[i].instance = instance
  BY <1>1, <1>3, <1>4, Begins
<1> HIDE DEF N
<1>6. Plain(s) /\ Told(s) /\ s \in Output
  BY PlainNow, PlainTracer DEF Plain, Told
<1> HIDE DEF s
<1>7. s.buf \in [Instance -> Seq(Stmt)] /\ \A b \in Instance : s.buf[b] = outbuf[b] \/ s.buf[b] = <<>>
  BY <1>6, LeftOver DEF Plain, IInv, Typed
<1>8. outbuf' = [s.buf EXCEPT ![instance] = s.buf[instance] \o <<id>>] /\ printed' = s.lines
  <2> DEFINE word == <<id>>
             buf == [s.buf EXCEPT ![instance] = s.buf[instance] \o word]
  <2>0. outbuf' = Into(s, instance, word).buf /\ printed' = Into(s, instance, word).lines
    BY <1>1 DEF Prints
  <2> HIDE DEF word
  <2>1. s = [buf |-> s.buf, lines |-> s.lines]
    BY <1>6, OutputShape
  <2>2. Into(s, instance, word) = [buf |-> buf, lines |-> s.lines]
    BY <2>1, IntoShape
  <2>3. outbuf' = buf /\ printed' = s.lines
    <3> HIDE DEF buf
    <3> QED BY <2>0, <2>2
  <2> QED
    BY <2>3 DEF word
<1>9. /\ Buffers' /\ DOMAIN outbuf' = Instance
      /\ \A b \in Instance : b # instance => outbuf'[b] = s.buf[b]
      /\ \A b \in Instance : Ids(outbuf'[b]) \subseteq Ids(outbuf[b]) \cup {id}
      /\ \A u \in Seq(Stmt) : Continued(u, s.buf["live"]) => Continued(u, outbuf'["live"])
  BY <1>7, <1>8, InstanceTyped, PutId
<1>10. Says
  <2>1. s.lines = <<>> => Continued(outbuf["live"], outbuf'["live"])
    <3>1. outbuf["live"] \in Seq(Stmt)
      BY DEF IInv, Typed, Buffers, Instance
    <3> QED
      BY <1>6, <1>9, <3>1 DEF Told
  <2>2. Shows(s.lines)
    BY <1>6, ShowsNone DEF Plain, Markless
  <2>3. Mixed /\ Lossless /\ Backtraced /\ (enabled <= 0 => printed' = <<>>)
    BY <1>6, <1>8, <1>9, <2>1, <2>2, Printing
  <2> QED
    BY <1>2, <2>3, Traceless DEF Says, Silenced
<1>11. Typed'
  <2>1. decorate' \in BOOLEAN /\ made' \in BOOLEAN
    BY <1>1
  <2>2. ~made' => ~dumping' /\ call_stack' = <<>>
    BY <1>1
  <2> QED
    BY <1>2, <1>5, <1>9, <2>1, <2>2 DEF IInv, Typed
<1>12. Quoting'
  <2> SUFFICES ASSUME NEW i \in DOMAIN frames', IsStatement(frames'[i]), frames'[i].kind # "DBGRAW", ~frames'[i].disturbed
               PROVE  /\ decorate' = (frames'[i].kind = "DBGDUMP")
                      /\ frames'[i].quoted \subseteq {frames'[i].kind = "DBGDUMP" /\ frames'[i].instance = "live"}
    BY DEF Quoting
  <2>1. i = N + 1
    BY <1>4, <1>5
  <2>2. frames'[i].kind = kind /\ frames'[i].quoted = {}
    BY <1>3, <1>5, <2>1, OpenedShape
  <2> QED
    BY <1>1, <2>2
<1>13. OneInstance'
  <2> SUFFICES ASSUME ~switched'
               PROVE  /\ \A i \in DOMAIN frames' : IsStatement(frames'[i]) => frames'[i].instance = instance'
                      /\ \A b \in Instance : b # instance' => outbuf'[b] = <<>>
    BY DEF OneInstance
  <2>1. instance' = instance /\ ~switched
    BY <1>2 DEF instance
  <2>2. \A b \in Instance : b # instance => outbuf[b] = <<>>
    BY <2>1 DEF IInv, OneInstance
  <2> QED
    BY <1>5, <1>7, <1>9, <2>1, <2>2
<1>14. OnlyOpenStatementsBuffered'
  <2> SUFFICES ASSUME ~switched', NEW b \in Instance PROVE Ids(outbuf'[b]) \subseteq Open'
    BY <1>9 DEF OnlyOpenStatementsBuffered
  <2>1. Ids(outbuf[b]) \subseteq Open
    <3>1. DOMAIN outbuf = Instance
      BY DEF IInv, Typed, Buffers
    <3> QED
      BY <1>2, <3>1 DEF IInv, OnlyOpenStatementsBuffered
  <2> QED
    BY <1>5, <1>9, <2>1
<1> QED
  BY <1>5, <1>10, <1>11, <1>12, <1>13, <1>14 DEF IInv

LEMMA FlattenOne == ASSUME NEW X, NEW u \in Seq(X) PROVE FlattenSeq(<<u>>) = u
<1> DEFINE L == <<u>>
<1>1. L \in Seq(Seq(X)) /\ L # <<>> /\ Len(L) = 1 /\ L[1] = u
  OBVIOUS
<1> HIDE DEF L
<1>2. PICK c : FlattenSeq(L) = c[Len(L)] /\ \A i \in 1..Len(L) : c[i] = IF i = 1 THEN L[i] ELSE c[i - 1] \o L[i]
  BY <1>1, Flattening
<1> QED
  BY <1>1, <1>2 DEF L

LEMMA FlattenTwo == ASSUME NEW X, NEW u \in Seq(X), NEW v \in Seq(X) PROVE FlattenSeq(<<u, v>>) = u \o v
<1> DEFINE L == <<u, v>>
<1>1. L \in Seq(Seq(X)) /\ L # <<>> /\ Len(L) = 2 /\ L[1] = u /\ L[2] = v
  OBVIOUS
<1> HIDE DEF L
<1>2. PICK c : FlattenSeq(L) = c[Len(L)] /\ \A i \in 1..Len(L) : c[i] = IF i = 1 THEN L[i] ELSE c[i - 1] \o L[i]
  BY <1>1, Flattening
<1>3. 1 \in 1..2 /\ 2 \in 1..2 /\ 2 - 1 = 1 /\ 2 # 1
  OBVIOUS
<1>4. c[1] = u /\ c[2] = c[1] \o v
  BY <1>1, <1>2, <1>3
<1> QED
  BY <1>1, <1>2, <1>4 DEF L

\* The innermost frame is a statement.
LEMMA TopStatement ==
  ASSUME IInv, frames # <<>>, IsStatement(Top)
  PROVE  /\ Top \in Statement /\ Top.id \in Stmt /\ Top.id \in Open /\ Top.instance \in Instance
         /\ Len(frames) \in Nat /\ Len(frames) >= 1 /\ DOMAIN frames = 1..Len(frames)
         /\ frames[Len(frames)] = Top /\ Top = Last(frames)
         /\ ~switched => Top.instance = instance
<1>1. frames \in Seq(Frame) /\ Len(frames) \in Nat /\ Len(frames) >= 1 /\ DOMAIN frames = 1..Len(frames)
  BY DEF IInv, Typed
<1>2. frames[Len(frames)] = Top /\ Top = Last(frames)
  BY DEF Top, Last
<1>3. Len(frames) \in DOMAIN frames /\ Top \in Frame
  BY <1>1, <1>2
<1>4. Top \in Statement
  BY <1>3, Kinds DEF Frame
<1>5. Top.id \in Stmt /\ Top.instance \in Instance
  BY <1>4 DEF Statement
<1>6. Top \in Statements
  BY <1>2, <1>3, Statement_in
<1>7. Top.id \in Open
  BY <1>6 DEF Open
<1>8. ~switched => Top.instance = instance
  BY <1>2, <1>3 DEF IInv, OneInstance
<1> QED
  BY <1>1, <1>2, <1>4, <1>5, <1>7, <1>8

LEMMA ItemStep ==
  ASSUME IInv, NEW cstr \in BOOLEAN, put_item(cstr)
  PROVE  IInv' /\ Says
<1> DEFINE N == Len(frames)
           i == IF Top.kind = "DBGRAW" THEN Top.instance ELSE instance
           q == IF cstr THEN Top.quoted \cup {quotes(Top)} ELSE Top.quoted
           n1 == Top.items + 1
           g == [Top EXCEPT !.items = n1, !.quoted = q]
           word == <<Top.id>>
<1>1. frames # <<>> /\ IsStatement(Top)
  BY DEF put_item
<1>2. /\ Top \in Statement /\ Top.id \in Stmt /\ Top.id \in Open /\ Top.instance \in Instance
      /\ N \in Nat /\ N >= 1 /\ DOMAIN frames = 1..N /\ frames[N] = Top
      /\ ~switched => Top.instance = instance
  BY <1>1, TopStatement
<1>3. frames' = [frames EXCEPT ![N] = g]
  BY DEF put_item
<1>4. outbuf' = Into(Now, i, word).buf /\ printed' = <<>> /\ traced' = <<>>
  BY DEF put_item
<1>5. UNCHANGED <<enabled, decorate, made, dumping, quiet, nesting_level, call_stack, overrun, mode, switched>>
  BY DEF put_item, Outs, Tracing
<1>6. i \in Instance /\ (~switched => i = instance)
  BY <1>2, InstanceTyped
<1>7. q \in SUBSET BOOLEAN
  <2>1. Top.quoted \in SUBSET BOOLEAN /\ quotes(Top) \in BOOLEAN
    BY <1>2 DEF Statement, IInv, Typed, quotes
  <2> QED
    BY <2>1
<1> HIDE DEF i, q
<1>8. g \in Statement /\ g.id = Top.id /\ g.kind = Top.kind /\ g.instance = Top.instance
      /\ g.disturbed = Top.disturbed /\ g.quoted = q
  <2>1. n1 \in Nat
    BY <1>2 DEF Statement
  <2> HIDE DEF n1
  <2>2. g \in Statement
    BY <1>2, <1>7, <2>1 DEF Statement
  <2>3. DOMAIN Top = {"id", "kind", "instance", "items", "quoted", "disturbed"}
    BY <1>2 DEF Statement
  <2>4. g.id = Top.id /\ g.kind = Top.kind /\ g.instance = Top.instance
    BY <2>3
  <2>5. g.disturbed = Top.disturbed /\ g.quoted = q
    BY <2>3
  <2> QED
    BY <2>2, <2>4, <2>5
<1> HIDE DEF g
<1>9. IsStatement(g) /\ g \in Frame /\ frames \in Seq(Frame) /\ N <= MaxOpen
  BY <1>8, Kinds DEF Frame, IInv, Typed
<1>10. frames' \in Seq(Frame) /\ Len(frames') = N /\ DOMAIN frames' = 1..N
       /\ \A n \in 1..N : frames'[n] = IF n = N THEN g ELSE frames[n]
  <2> DEFINE gs == [frames EXCEPT ![N] = g]
  <2>1. gs = [n \in 1..N |-> IF n = N THEN g ELSE frames[n]]
    BY <1>2
  <2>2. \A n \in 1..N : frames[n] \in Frame
    BY <1>9
  <2> HIDE DEF N, gs
  <2>3. gs \in Seq(Frame) /\ Len(gs) = N
    BY <1>2, <1>9, <2>1, <2>2
  <2>4. DOMAIN gs = 1..N /\ \A n \in 1..N : gs[n] = IF n = N THEN g ELSE frames[n]
    BY <2>1
  <2> QED
    BY <1>3, <2>3, <2>4 DEF gs, N
<1>11. outbuf' = [outbuf EXCEPT ![i] = outbuf[i] \o word]
  <2>1. Now = [buf |-> Now.buf, lines |-> Now.lines] /\ Now.buf = outbuf
    BY DEF Now
  <2> HIDE DEF word
  <2> DEFINE s == Now
             buf == [s.buf EXCEPT ![i] = s.buf[i] \o word]
  <2> HIDE DEF s
  <2>2. Into(s, i, word) = [buf |-> buf, lines |-> s.lines]
    BY <2>1, IntoShape DEF s
  <2>3. Into(s, i, word).buf = buf
    <3> HIDE DEF buf
    <3> QED BY <2>2
  <2> QED
    BY <1>4, <2>1, <2>3 DEF s
<1>12. /\ Buffers' /\ DOMAIN outbuf' = Instance
       /\ \A b \in Instance : b # i => outbuf'[b] = outbuf[b]
       /\ \A b \in Instance : Ids(outbuf'[b]) \subseteq Ids(outbuf[b]) \cup {Top.id}
       /\ \A u \in Seq(Stmt) : Continued(u, outbuf["live"]) => Continued(u, outbuf'["live"])
  <2>1. outbuf \in [Instance -> Seq(Stmt)]
    BY DEF IInv, Typed, Buffers
  <2> QED
    BY <1>2, <1>6, <1>11, <2>1, PutId
<1> HIDE DEF word, N
<1>13. Says
  <2>1. Continued(outbuf["live"], outbuf'["live"])
    <3>1. outbuf["live"] \in Seq(Stmt)
      BY DEF IInv, Typed, Buffers, Instance
    <3>2. Continued(outbuf["live"], outbuf["live"])
      BY <3>1 DEF Continued
    <3> QED
      BY <1>12, <3>1, <3>2
  <2>2. Mixed /\ Lossless /\ Backtraced
    BY <1>4, <1>12, <2>1, Printless
  <2> QED
    BY <1>4, <2>2, Traceless DEF Says, Silenced
<1>14. Typed'
  <2>1. Len(frames') <= MaxOpen
    BY <1>9, <1>10
  <2> QED
    BY <1>5, <1>10, <1>12, <2>1 DEF IInv, Typed
<1>15. \A n \in 1..N : Alike(frames[n], frames'[n])
  BY <1>1, <1>2, <1>8, <1>9, <1>10 DEF Alike
<1>16. Distinct'
  <2>1. \A n \in 1..N : IsStatement(frames'[n]) => IsStatement(frames[n]) /\ frames'[n].id = frames[n].id
    BY <1>15 DEF Alike
  <2> QED
    BY <1>2, <1>10, <2>1 DEF IInv, Distinct
<1>17. Quoting'
  <2> SUFFICES ASSUME NEW n \in 1..N, IsStatement(frames'[n]), frames'[n].kind # "DBGRAW", ~frames'[n].disturbed
               PROVE  /\ decorate' = (frames'[n].kind = "DBGDUMP")
                      /\ frames'[n].quoted \subseteq {frames'[n].kind = "DBGDUMP" /\ frames'[n].instance = "live"}
    BY <1>10 DEF Quoting
  <2>1. CASE n = N
    <3>1. /\ decorate = (Top.kind = "DBGDUMP")
          /\ Top.quoted \subseteq {Top.kind = "DBGDUMP" /\ Top.instance = "live"}
      BY <1>1, <1>2, <1>8, <1>10, <2>1 DEF IInv, Quoting
    <3>2. q \subseteq {Top.kind = "DBGDUMP" /\ Top.instance = "live"}
      BY <3>1 DEF q, quotes
    <3> QED
      BY <1>5, <1>8, <1>10, <2>1, <3>1, <3>2
  <2>2. CASE n # N
    BY <1>2, <1>5, <1>10, <2>2 DEF IInv, Quoting
  <2> QED
    BY <2>1, <2>2
<1>18. OneInstance'
  <2> SUFFICES ASSUME ~switched'
               PROVE  /\ \A n \in DOMAIN frames' : IsStatement(frames'[n]) => frames'[n].instance = instance'
                      /\ \A b \in Instance : b # instance' => outbuf'[b] = <<>>
    BY DEF OneInstance
  <2>1. instance' = instance /\ ~switched
    BY <1>5 DEF instance
  <2>2. \A n \in 1..N : IsStatement(frames[n]) => frames[n].instance = instance
    BY <1>2, <2>1 DEF IInv, OneInstance
  <2>3. \A n \in 1..N : IsStatement(frames'[n]) => IsStatement(frames[n]) /\ frames'[n].instance = frames[n].instance
    BY <1>15 DEF Alike
  <2>4. \A b \in Instance : b # instance => outbuf'[b] = <<>>
    BY <1>6, <1>12, <2>1 DEF IInv, OneInstance
  <2> QED
    BY <1>10, <2>1, <2>2, <2>3, <2>4
<1>19. OnlyOpenStatementsBuffered'
  <2> SUFFICES ASSUME ~switched', NEW b \in Instance PROVE Ids(outbuf'[b]) \subseteq Open'
    BY <1>12 DEF OnlyOpenStatementsBuffered
  <2>1. Ids(outbuf[b]) \subseteq Open
    <3>1. DOMAIN outbuf = Instance
      BY DEF IInv, Typed, Buffers
    <3> QED
      BY <1>5, <3>1 DEF IInv, OnlyOpenStatementsBuffered
  <2>2. ASSUME NEW f \in Statements PROVE f.id \in Open'
    <3>1. PICK n \in DOMAIN frames : frames[n] = f /\ IsStatement(f)
      BY Statement_in
    <3>2. n \in DOMAIN frames' /\ IsStatement(frames'[n]) /\ frames'[n].id = f.id
      BY <1>2, <1>10, <1>15, <3>1 DEF Alike
    <3>3. frames'[n] \in Statements'
      BY <3>2 DEF Statements
    <3> QED
      BY <3>2, <3>3 DEF Open
  <2>3. Open \subseteq Open'
    BY <2>2 DEF Open
  <2> QED
    BY <1>2, <1>12, <2>1, <2>3
<1>20. Levels'
  <2>1. ScopesIn(frames') = ScopesIn(frames)
    BY <1>9, <1>10, <1>15, ScopesSame DEF Alike, N
  <2>2. Depth' = Depth /\ Scopes' = Scopes
    BY <2>1 DEF Depth, Scopes
  <2> QED
    BY <1>5, <2>1, <2>2 DEF IInv, Levels
<1> QED
  BY <1>13, <1>14, <1>16, <1>17, <1>18, <1>19, <1>20 DEF IInv

LEMMA FlushShape ==
  ASSUME NEW s, NEW i
  PROVE  /\ flush(s, i).buf = [s.buf EXCEPT ![i] = <<>>]
         /\ flush(s, i).lines = IF i = "live" THEN Append(s.lines, s.buf[i]) ELSE s.lines
BY DEF flush

\* A line that begins on the instance of an enclosing statement ends there.
LEMMA EndLineStep ==
  ASSUME IInv, end_line
  PROVE  IInv' /\ Says
<1> DEFINE N == Len(frames)
           i == Top.instance
           held == outbuf["live"]
<1>1. frames # <<>> /\ IsStatement(Top) /\ frames' = Front(frames) /\ traced' = <<>>
  BY DEF end_line
<1>2. /\ Top \in Statement /\ Top.id \in Open /\ i \in Instance
      /\ N \in Nat /\ N >= 1 /\ DOMAIN frames = 1..N /\ frames[N] = Top /\ Top = Last(frames)
      /\ ~switched => i = instance
  BY <1>1, TopStatement
<1>3. outbuf' = [outbuf EXCEPT ![i] = <<>>] /\ printed' = IF i = "live" THEN <<held>> ELSE <<>>
  <2>1. Now.buf = outbuf /\ Now.lines = <<>>
    BY DEF Now
  <2>2. Append(<<>>, held) = <<held>>
    OBVIOUS
  <2>3. outbuf' = flush(Now, i).buf /\ printed' = flush(Now, i).lines
    BY DEF end_line, Prints
  <2> HIDE DEF i
  <2>4. outbuf' = [outbuf EXCEPT ![i] = <<>>]
    BY <2>1, <2>3, FlushShape
  <2>5. CASE i = "live"
    BY <2>1, <2>2, <2>3, <2>4, <2>5, FlushShape
  <2>6. CASE i # "live"
    BY <2>1, <2>3, <2>4, <2>6, FlushShape
  <2> QED
    BY <2>5, <2>6
<1>4. UNCHANGED <<enabled, decorate, made, dumping, quiet, nesting_level, call_stack, overrun, mode>>
  BY DEF end_line, Outs, Tracing
<1>5. switched' = (switched /\ (Statements # {Top} \/ \E b \in DOMAIN outbuf : outbuf'[b] # <<>>))
  BY DEF end_line
<1>6. frames \in Seq(Frame) /\ N <= MaxOpen /\ MaxOpen \in Nat
  BY BoundAssumption DEF IInv, Typed
<1>7. /\ frames' \in Seq(Frame) /\ Len(frames') = N - 1 /\ DOMAIN frames' = 1..N - 1
      /\ \A n \in 1..N - 1 : frames'[n] = frames[n]
  <2> DEFINE gs == Front(frames)
  <2>1. gs \in Seq(Frame) /\ Len(gs) = N - 1 /\ \A n \in 1..N - 1 : gs[n] = frames[n]
    BY <1>1, <1>6, FrontAppend
  <2> HIDE DEF gs, N
  <2>2. DOMAIN gs = 1..N - 1
    BY <2>1
  <2> QED
    BY <1>1, <2>1, <2>2 DEF gs, N
<1>8. outbuf \in [Instance -> Seq(Stmt)] /\ held \in Seq(Stmt) /\ "live" \in Instance
  BY DEF IInv, Typed, Buffers, Instance
<1> HIDE DEF N, i, held
<1>9. /\ Flushed /\ DOMAIN outbuf' = Instance /\ outbuf'[i] = <<>>
      /\ \A b \in Instance : b # i => outbuf'[b] = outbuf[b]
  <2>1. \A b \in Instance : outbuf'[b] = IF b = i THEN <<>> ELSE outbuf[b]
    BY <1>3, <1>8
  <2>2. outbuf' \in [Instance -> Seq(Stmt)]
    <3>0. <<>> \in Seq(Stmt) /\ \A b \in Instance : outbuf[b] \in Seq(Stmt)
      BY <1>8
    <3>1. \A b \in Instance : outbuf'[b] \in Seq(Stmt)
      BY <2>1, <3>0
    <3>2. outbuf' = [b \in Instance |-> outbuf'[b]]
      BY <1>3, <1>8
    <3> QED
      BY <3>1, <3>2
  <2> QED
    BY <1>2, <2>1, <2>2 DEF Flushed, Buffers
<1>10. Says
  <2>1. CASE i = "live"
    <3> DEFINE L == <<held>>
    <3>1. printed' = L /\ L \in Seq(Seq(Stmt)) /\ DOMAIN L = {1} /\ L[1] = held /\ L # <<>>
      <4>1. Len(L) = 1 /\ DOMAIN L = 1..Len(L) /\ L[1] = held
        OBVIOUS
      <4>2. DOMAIN L = {1}
        BY <4>1
      <4> QED
        BY <1>3, <1>8, <2>1, <4>1, <4>2
    <3>2. FlattenSeq(L) = held
      BY <1>8, FlattenOne
    <3> HIDE DEF L
    <3>3. Lossless
      <4>1. Continued(held, held)
        BY <1>8 DEF Continued
      <4>2. Infix(held, FlattenSeq(L))
        BY <1>8, <3>2, <4>1, ContinuedInfix
      <4> QED
        BY <3>1, <4>2 DEF Lossless, held
    <3>4. Mixed
      BY <1>8, <3>1 DEF Mixed, held, IInv, OnlyOpenStatementsBuffered
    <3>5. Unmarked(held)
      <4>1. "Backtrace" \notin Stmt
        BY NamesAssumption DEF Words
      <4> QED
        BY <1>8, <4>1 DEF Unmarked
    <3>6. Shows(L)
      BY <3>1, <3>5, ShowsNone
    <3>7. Backtraced
      BY <3>1, <3>6, ShownScopes
    <3>8. Silenced
      <4> SUFFICES ASSUME enabled <= 0 PROVE switched /\ EndsLiveLine
        BY <1>1 DEF Silenced
      <4>1. switched
        <5> SUFFICES ASSUME ~switched PROVE FALSE
          BY DEF IInv, Typed
        <5>1. instance = "live"
          BY <1>2, <2>1
        <5> QED
          BY <5>1 DEF instance, IInv, Typed
      <4>2. EndsLiveLine
        BY <1>1, <2>1, <3>1 DEF EndsLiveLine, i, held, L
      <4> QED
        BY <4>1, <4>2
    <3> QED
      BY <1>1, <3>3, <3>4, <3>7, <3>8, Traceless DEF Says
  <2>2. CASE i # "live"
    <3>1. printed' = <<>> /\ outbuf'["live"] = outbuf["live"]
      BY <1>3, <1>8, <1>9, <2>2
    <3>2. Continued(outbuf["live"], outbuf'["live"])
      BY <1>8, <3>1 DEF Continued, held
    <3> QED
      BY <1>1, <1>9, <3>1, <3>2, Printless, Traceless DEF Says, Silenced, Flushed
  <2> QED
    BY <2>1, <2>2
<1>11. Typed'
  <2>1. Len(frames') <= MaxOpen
    BY <1>2, <1>6, <1>7
  <2>2. switched' \in BOOLEAN
    BY <1>5
  <2> QED
    BY <1>4, <1>7, <1>9, <2>1, <2>2 DEF IInv, Typed, Flushed
<1>12. \A n \in 1..N - 1 : n \in 1..N /\ n # N
  BY <1>2
<1>13. Distinct' /\ Quoting'
  BY <1>2, <1>4, <1>7, <1>12, StatementsStay
\* Unless an operand switched and a buffer or a statement is left, all buffers are empty.
<1>14. ASSUME ~switched' PROVE \A b \in Instance : outbuf'[b] = <<>>
  <2>1. CASE switched
    BY <1>5, <1>8, <1>14, <2>1
  <2>2. CASE ~switched
    BY <1>2, <1>9, <2>2 DEF IInv, OneInstance
  <2> QED
    BY <2>1, <2>2
<1>15. OneInstance'
  <2> SUFFICES ASSUME ~switched', NEW n \in 1..N - 1, IsStatement(frames'[n])
               PROVE  frames'[n].instance = instance
    BY <1>4, <1>7, <1>14 DEF OneInstance, instance
  <2>1. n \in DOMAIN frames /\ frames'[n] = frames[n] /\ n # N
    BY <1>2, <1>7, <1>12
  <2>2. CASE switched
    <3>1. Statements = {Top}
      BY <1>5, <2>2
    <3>2. frames[n] = Top
      BY <2>1, <3>1, Statement_in
    <3>3. N \in DOMAIN frames
      BY <1>2
    <3> QED
      BY <1>1, <1>2, <2>1, <3>2, <3>3 DEF IInv, Distinct
  <2>3. CASE ~switched
    BY <2>1, <2>3 DEF IInv, OneInstance
  <2> QED
    BY <2>2, <2>3
<1>16. OnlyOpenStatementsBuffered'
  BY <1>9, <1>14 DEF OnlyOpenStatementsBuffered, Ids, ToSet
<1>17. Levels'
  <2>1. ScopesIn(frames') = ScopesIn(frames)
    BY <1>1, <1>2, <1>6, ScopesFront
  <2>2. Depth' = Depth /\ Scopes' = Scopes
    BY <2>1 DEF Depth, Scopes
  <2> QED
    BY <1>4, <2>1, <2>2 DEF IInv, Levels
<1> QED
  BY <1>10, <1>11, <1>13, <1>15, <1>16, <1>17 DEF IInv

\* A line of the one text, after an empty buffer.
LEMMA LineAlone ==
  ASSUME NEW X, NEW B \in [Instance -> Seq(X)], B[instance] = <<>>, NEW L, NEW u \in Seq(X)
  PROVE  flush(Into([buf |-> B, lines |-> L], instance, u), instance) =
           [buf |-> B, lines |-> IF instance = "live" THEN Append(L, u) ELSE L]
<1> DEFINE s == [buf |-> B, lines |-> L]
           C == [B EXCEPT ![instance] = B[instance] \o u]
           t == [buf |-> C, lines |-> L]
<1>1. s.buf = B /\ s.lines = L /\ s = [buf |-> s.buf, lines |-> s.lines]
  OBVIOUS
<1> HIDE DEF s
<1>2. Into(s, instance, u) = t
  BY <1>1, IntoShape
<1>3. instance \in Instance /\ C[instance] = u /\ [C EXCEPT ![instance] = <<>>] = B
  <2>1. instance \in Instance
    BY InstanceTyped
  <2>2. <<>> \o u = u
    OBVIOUS
  <2>3. C[instance] = u
    BY <2>1, <2>2
  <2>4. [C EXCEPT ![instance] = <<>>] = [B EXCEPT ![instance] = <<>>]
    BY <2>1
  <2>5. [B EXCEPT ![instance] = <<>>] = B
    BY <2>1
  <2> HIDE DEF C
  <2> QED
    BY <2>1, <2>3, <2>4, <2>5
<1> HIDE DEF C
<1>4. t.buf = C /\ t.lines = L
  OBVIOUS
<1> HIDE DEF t
<1>5. flush(t, instance) = [buf |-> [t.buf EXCEPT ![instance] = <<>>],
                            lines |-> IF instance = "live" THEN Append(t.lines, t.buf[instance]) ELSE t.lines]
  BY DEF flush
<1> QED
  BY <1>2, <1>3, <1>4, <1>5 DEF s

LEMMA IntoTwice ==
  ASSUME NEW X, NEW B \in [Instance -> Seq(X)], B[instance] = <<>>, NEW L, NEW u \in Seq(X), NEW v \in Seq(X)
  PROVE  Into(Into([buf |-> B, lines |-> L], instance, u), instance, v) = Into([buf |-> B, lines |-> L], instance, u \o v)
<1> DEFINE s == [buf |-> B, lines |-> L]
           w == u \o v
           C == [B EXCEPT ![instance] = B[instance] \o u]
           t == [buf |-> C, lines |-> L]
           D == [C EXCEPT ![instance] = C[instance] \o v]
<1>1. s.buf = B /\ s.lines = L /\ s = [buf |-> s.buf, lines |-> s.lines]
  OBVIOUS
<1>2. t.buf = C /\ t.lines = L /\ t = [buf |-> t.buf, lines |-> t.lines]
  OBVIOUS
<1>3. D = [B EXCEPT ![instance] = B[instance] \o w]
  <2>1. instance \in Instance /\ <<>> \o u = u /\ <<>> \o w = w
    BY InstanceTyped
  <2>2. C[instance] = u
    BY <2>1
  <2>3. D = [C EXCEPT ![instance] = w] /\ [B EXCEPT ![instance] = B[instance] \o w] = [B EXCEPT ![instance] = w]
    BY <2>1, <2>2
  <2>4. [C EXCEPT ![instance] = w] = [B EXCEPT ![instance] = w]
    BY <2>1
  <2> QED
    BY <2>3, <2>4
<1> HIDE DEF s, t, w
<1>4. Into(s, instance, u) = t
  BY <1>1, IntoShape DEF t
<1> HIDE DEF C
<1>5. Into(t, instance, v) = [buf |-> D, lines |-> L]
  BY <1>2, IntoShape
<1>6. Into(s, instance, w) = [buf |-> [B EXCEPT ![instance] = B[instance] \o w], lines |-> L]
  BY <1>1, IntoShape
<1> HIDE DEF D
<1>7. Into(Into(s, instance, u), instance, v) = Into(s, instance, w)
  BY <1>3, <1>4, <1>5, <1>6
<1> QED
  BY <1>7 DEF s, w

LEMMA InfixIn ==
  ASSUME NEW X, NEW p \in Seq(X), NEW q \in Seq(X), NEW r \in Seq(X)
  PROVE  Infix(q, p \o (q \o r))
<1> DEFINE w == p \o (q \o r)
           n == Len(p)
           m == Len(q)
<1>1. n \in Nat /\ m \in Nat /\ w \in Seq(X) /\ Len(w) = n + (m + Len(r)) /\ Len(r) \in Nat
  OBVIOUS
<1>2. \A k \in 1..m : w[n + k] = q[k]
  <2> DEFINE v == q \o r
  <2>1. v \in Seq(X) /\ \A k \in 1..m : v[k] = q[k] /\ k \in 1..Len(v)
    OBVIOUS
  <2> HIDE DEF v
  <2>2. \A k \in 1..Len(v) : (p \o v)[n + k] = v[k]
    BY <2>1
  <2> QED
    BY <2>1, <2>2 DEF v
<1> HIDE DEF w, n
<1>3. SubSeq(w, n + 1, n + m) = [k \in 1..m |-> w[n + k]]
  BY <1>1
<1>4. q = [k \in 1..m |-> q[k]]
  OBVIOUS
<1>5. SubSeq(w, n + 1, n + m) = q
  <2> HIDE DEF m
  <2> QED BY <1>2, <1>3, <1>4
<1>6. n \in 0..(Len(w) - m)
  BY <1>1
<1> QED
  BY <1>5, <1>6 DEF Infix, w

LEMMA Appended ==
  ASSUME NEW X, NEW x \in X, NEW y \in X
  PROVE  Append(<<>>, x) = <<x>> /\ Append(<<y>>, x) = <<y, x>>
<1>1. Append(<<>>, x) = <<x>>
  OBVIOUS
<1> DEFINE u == Append(<<y>>, x)
           v == <<y, x>>
<1>2. u \in Seq(X) /\ Len(u) = 2 /\ u[1] = y /\ u[2] = x
  OBVIOUS
<1>3. v \in Seq(X) /\ Len(v) = 2 /\ v[1] = y /\ v[2] = x
  OBVIOUS
<1> HIDE DEF u, v
<1>4. \A n \in 1..2 : n = 1 \/ n = 2
  OBVIOUS
<1>5. u = v
  BY <1>2, <1>3, <1>4, SeqEqual
<1> QED
  BY <1>1, <1>5 DEF u, v

\* DBG_: the line it is nested in goes into its own.
LEMMA DumpvalStep ==
  ASSUME IInv, NEW cstr \in BOOLEAN, dumpval(cstr)
  PROVE  IInv' /\ Says
<1> DEFINE B == [outbuf EXCEPT ![instance] = <<>>]
           held == outbuf[instance]
           P == ToSet(held) \cup Words
           h == <<"handler">>
           a == <<"label">>
           v == held \o <<"value">>
           u == IF cstr THEN a ELSE a \o v
           H == IF made \/ instance # "live" THEN <<>> ELSE <<h>>
           start == [Now EXCEPT !.buf[instance] = <<>>]
           result == flush(IF cstr THEN Into(Tracer(start), instance, a)
                                   ELSE Into(Into(Tracer(start), instance, a), instance, v), instance)
<1>1. Prints(result) /\ made' = TRUE /\ traced' = <<>>
  BY DEF dumpval
<1>2. SameProgram /\ UNCHANGED <<dumping, quiet, mode>>
  BY DEF dumpval, SameProgram, Outs, Tracing
<1>3. outbuf \in [Instance -> Seq(Stmt)] /\ instance \in Instance /\ held \in Seq(Stmt)
  BY InstanceTyped DEF IInv, Typed, Buffers
<1>4. h \in Seq(P) /\ a \in Seq(P) /\ <<"value">> \in Seq(P) /\ held \in Seq(P)
  <2>1. held \in Seq(P)
    BY <1>3, SeqOfOwn
  <2>2. \A word \in Words : <<word>> \in Seq(P)
    OBVIOUS
  <2>3. {"handler", "label", "value"} \subseteq Words
    BY DEF Words
  <2> HIDE DEF P, held
  <2> QED
    BY <2>1, <2>2, <2>3
<1>5. B \in [Instance -> Seq(Stmt)] /\ B[instance] = <<>> /\ \A b \in Instance : b # instance => B[b] = outbuf[b]
  <2>1. <<>> \in Seq(Stmt)
    OBVIOUS
  <2> HIDE DEF held
  <2> QED
    BY <1>3, <2>1
<1>6. start = [buf |-> B, lines |-> <<>>]
  <2>1. Now = [buf |-> Now.buf, lines |-> Now.lines] /\ Now.buf = outbuf /\ Now.lines = <<>>
    BY DEF Now
  <2> DEFINE s == Now
             w == <<>>
  <2>2. [s EXCEPT !.buf[instance] = w] = [buf |-> [s.buf EXCEPT ![instance] = w], lines |-> s.lines]
    <3> HIDE DEF s, w
    <3> QED BY <2>1, PutShape DEF s
  <2> QED
    BY <2>1, <2>2
<1> DEFINE E == Stmt \cup Words
<1>7. /\ B \in [Instance -> Seq(E)] /\ h \in Seq(E) /\ a \in Seq(E) /\ v \in Seq(E) /\ u \in Seq(E)
      /\ u \in Seq(P) /\ v \in Seq(P)
  <2>1. {"handler", "label", "value"} \subseteq Words
    BY DEF Words
  <2>2. h \in Seq(E) /\ a \in Seq(E) /\ <<"value">> \in Seq(E)
    BY <2>1
  <2>3. held \in Seq(E) /\ B \in [Instance -> Seq(E)]
    <3>1. \A w \in Seq(Stmt) : w \in Seq(E)
      OBVIOUS
    <3>2. DOMAIN B = Instance /\ \A b \in Instance : B[b] \in Seq(E)
      BY <1>5, <3>1
    <3>3. B = [b \in Instance |-> B[b]]
      BY <1>5
    <3> HIDE DEF B, held, E
    <3> QED
      BY <1>3, <3>1, <3>2, <3>3
  <2> DEFINE z == <<"value">>
  <2>4. z \in Seq(E) /\ z \in Seq(P)
    BY <1>4, <2>2
  <2> HIDE DEF z, a, held, E, P
  <2>5. held \o z \in Seq(E) /\ held \o z \in Seq(P)
    BY <1>4, <2>3, <2>4
  <2>6. a \o (held \o z) \in Seq(E) /\ a \o (held \o z) \in Seq(P)
    BY <1>4, <2>2, <2>5
  <2> QED
    BY <1>4, <2>2, <2>3, <2>5, <2>6 DEF z
<1> HIDE DEF B, E, start
<1>8. Tracer(start) = [buf |-> B, lines |-> H]
  <2> DEFINE none == <<>>
  <2>1. Append(<<>>, h) = <<h>>
    OBVIOUS
  <2> HIDE DEF h
  <2>2. raw_line(start, h) = [buf |-> B, lines |-> IF instance = "live" THEN Append(<<>>, h) ELSE <<>>]
    <3> HIDE DEF none
    <3>1. flush(Into([buf |-> B, lines |-> none], instance, h), instance) =
           [buf |-> B, lines |-> IF instance = "live" THEN Append(none, h) ELSE none]
      BY <1>5, <1>7, LineAlone
    <3> QED
      BY <1>6, <3>1 DEF raw_line, none
  <2>3. Tracer(start) = IF made THEN start ELSE raw_line(start, h)
    BY DEF Tracer, h
  <2>4. CASE made
    BY <1>6, <2>3, <2>4
  <2>5. CASE ~made
    BY <2>1, <2>2, <2>3, <2>5
  <2> QED
    BY <2>4, <2>5
<1> HIDE DEF a, v, H
<1>9. result = [buf |-> B, lines |-> IF instance = "live" THEN Append(H, u) ELSE H]
  <2> DEFINE s == [buf |-> B, lines |-> H]
  <2>1. CASE cstr
    <3>1. flush(Into(s, instance, a), instance) = [buf |-> B, lines |-> IF instance = "live" THEN Append(H, a) ELSE H]
      BY <1>5, <1>7, LineAlone
    <3> QED
      BY <1>8, <2>1, <3>1
  <2>2. CASE ~cstr
    <3> DEFINE w == a \o v
    <3>1. Into(Into(s, instance, a), instance, v) = Into(s, instance, w)
      BY <1>5, <1>7, IntoTwice
    <3>2. w \in Seq(E) /\ u = w
      BY <1>7, <2>2
    <3> HIDE DEF w
    <3>3. flush(Into(s, instance, w), instance) = [buf |-> B, lines |-> IF instance = "live" THEN Append(H, w) ELSE H]
      <4>1. B \in [Instance -> Seq(E)] /\ B[instance] = <<>> /\ w \in Seq(E)
        BY <1>5, <1>7, <3>2
      <4> HIDE DEF result, u
      <4> QED
        BY <4>1, LineAlone
    <3>4. result = flush(Into(s, instance, w), instance)
      BY <1>8, <2>2, <3>1
    <3> QED
      BY <3>2, <3>3, <3>4
  <2> QED
    BY <2>1, <2>2
<1>10. outbuf' = B /\ printed' = IF instance = "live" THEN Append(H, u) ELSE H
  <2> HIDE DEF result, u
  <2> QED BY <1>1, <1>9 DEF Prints
<1>11. Flushed
  BY <1>5, <1>10 DEF Flushed, Buffers
<1>12. Says
  <2>1. CASE instance # "live"
    <3>1. H = <<>> /\ printed' = <<>>
      BY <1>10, <2>1 DEF H
    <3>2. outbuf'["live"] = outbuf["live"]
      BY <1>5, <1>10, <2>1 DEF Instance
    <3>3. Continued(outbuf["live"], outbuf'["live"])
      <4>1. outbuf["live"] \in Seq(Stmt)
        BY <1>3 DEF Instance
      <4> QED
        BY <3>2, <4>1 DEF Continued
    <3> QED
      BY <1>1, <1>11, <3>1, <3>3, Printless, Traceless DEF Says, Silenced, Flushed
  <2>2. CASE instance = "live"
    <3> HIDE DEF P, u, h
    <3> DEFINE L == Append(H, u)
    <3>1. L = IF made THEN <<u>> ELSE <<h, u>>
      <4>1. Append(<<>>, u) = <<u>> /\ Append(<<h>>, u) = <<h, u>>
        BY <1>4, <1>7, Appended
      <4>2. H = IF made THEN <<>> ELSE <<h>>
        BY <2>2 DEF H
      <4> QED
        BY <4>1, <4>2
    <3>2. /\ u \in Seq(P) /\ h \in Seq(P) /\ printed' = L
      BY <1>4, <1>7, <1>10, <2>2
    <3>3. /\ L \in Seq(Seq(P)) /\ L # <<>> /\ Len(L) \in {1, 2} /\ DOMAIN L = 1..Len(L)
          /\ \A n \in DOMAIN L : L[n] \in {h, u}
          /\ \E n \in 1..Len(L) : L[n] = u
      <4>1. CASE made
        <5>1. L = <<u>>
          BY <3>1, <4>1
        <5> HIDE DEF L
        <5>2. L \in Seq(Seq(P)) /\ Len(L) = 1 /\ L[1] = u /\ DOMAIN L = 1..1
          BY <3>2, <5>1
        <5>3. \A n \in 1..1 : n = 1
          OBVIOUS
        <5>4. L # <<>>
          BY <5>1
        <5>5. 1 \in 1..Len(L)
          BY <5>2
        <5> QED
          BY <5>2, <5>3, <5>4, <5>5
      <4>2. CASE ~made
        <5>1. L = <<h, u>>
          BY <3>1, <4>2
        <5> HIDE DEF L
        <5>2. L \in Seq(Seq(P)) /\ Len(L) = 2 /\ L[1] = h /\ L[2] = u /\ DOMAIN L = 1..2
          BY <3>2, <5>1
        <5>3. \A n \in 1..2 : n = 1 \/ n = 2
          OBVIOUS
        <5>4. 2 \in 1..Len(L)
          BY <5>2
        <5> QED
          BY <5>2, <5>3, <5>4
      <4> HIDE DEF L
      <4> QED
        BY <4>1, <4>2, Zenon
    <3>4. Unmarked(h) /\ Unmarked(u)
      <4>1. "Backtrace" \notin Stmt
        BY NamesAssumption DEF Words
      <4>2. Unmarked(h)
        BY DEF Unmarked, h
      <4>3. Unmarked(held)
        <5> HIDE DEF held
        <5> QED BY <1>3, <4>1 DEF Unmarked
      <4> DEFINE z == <<"value">>
      <4>4. Unmarked(z) /\ Unmarked(a)
        BY DEF Unmarked, a
      <4>5. v = held \o z
        BY DEF v
      <4> HIDE DEF z, held
      <4>6. Unmarked(v)
        BY <1>4, <4>3, <4>4, <4>5, UnmarkedJoined DEF z
      <4>7. Unmarked(a \o v)
        BY <1>4, <1>7, <4>4, <4>6, UnmarkedJoined
      <4> QED
        BY <4>2, <4>4, <4>7 DEF u
    <3>5. Backtraced
      <4> HIDE DEF L
      <4>1. Shows(L)
        BY <3>3, <3>4, ShowsNone
      <4> QED
        BY <3>2, <3>3, <4>1, ShownScopes
    <3>6. Mixed
      <4> SUFFICES ASSUME ~switched, NEW n \in DOMAIN L, NEW x \in ToSet(L[n]), x \in Stmt PROVE x \in Open
        BY <3>2 DEF Mixed, Ids
      <4> HIDE DEF L
      <4>1. L[n] \in Seq(P)
        BY <3>3
      <4>2. x \in P
        BY <4>1 DEF ToSet
      <4>3. x \in ToSet(held)
        BY <4>2, NamesAssumption DEF P
      <4>4. instance \in DOMAIN outbuf
        BY <1>3
      <4> QED
        BY <4>3, <4>4 DEF IInv, OnlyOpenStatementsBuffered, Ids
    <3>7. Lossless
      <4>1. CASE cstr
        <5>1. u = <<"label">>
          BY <4>1 DEF u, a
        <5> HIDE DEF L
        <5>2. Contains(L, <<"label">>)
          BY <3>3, <5>1 DEF Contains
        <5> QED
          BY <3>2, <3>3, <5>2 DEF Lossless
      <4>2. CASE ~cstr
        <5> DEFINE z == <<"value">>
        <5>1. u = a \o v /\ v = held \o z /\ held = outbuf["live"]
          BY <2>2, <4>2 DEF u, v
        <5>2. z \in Seq(P) /\ held \in Seq(P) /\ a \in Seq(P) /\ v \in Seq(P)
          BY <1>4, <1>7
        <5> HIDE DEF z, held
        <5>3. Infix(held, FlattenSeq(L))
          <6>1. CASE made
            <7>1. L = <<u>>
              BY <3>1, <6>1
            <7> HIDE DEF L
            <7>2. FlattenSeq(L) = a \o (held \o z)
              BY <3>2, <5>1, <7>1, FlattenOne
            <7> QED
              BY <5>2, <7>2, InfixIn
          <6>2. CASE ~made
            <7>1. L = <<h, u>>
              BY <3>1, <6>2
            <7> HIDE DEF L
            <7>2. FlattenSeq(L) = h \o u
              BY <3>2, <7>1, FlattenTwo
            <7>3. h \o (a \o v) = (h \o a) \o v
              BY <3>2, <5>2, SMTT(30)
            <7>4. h \o a \in Seq(P)
              BY <3>2, <5>2
            <7> DEFINE p == h \o a
            <7>5. FlattenSeq(L) = p \o (held \o z) /\ p \in Seq(P)
              BY <5>1, <7>2, <7>3, <7>4
            <7> HIDE DEF p
            <7> QED
              BY <5>2, <7>5, InfixIn
          <6> QED
            BY <6>1, <6>2
        <5> HIDE DEF L
        <5> QED
          BY <3>2, <3>3, <5>1, <5>3 DEF Lossless
      <4> QED
        BY <4>1, <4>2
    <3>8. Silenced
      <4> SUFFICES ASSUME enabled <= 0 PROVE FALSE
        BY DEF Silenced
      <4> QED
        BY <2>2 DEF instance, IInv, Typed
    <3> QED
      BY <1>1, <3>5, <3>6, <3>7, <3>8, Traceless DEF Says
  <2> QED
    BY <2>1, <2>2
<1> QED
  BY <1>1, <1>2, <1>11, <1>12, SameProgramInv DEF IInv, Typed

-----------------------------------------------------------------------------
(* The theorems.                                                           *)

LEMMA StepInv ==
  ASSUME IInv, Next
  PROVE  IInv' /\ Says
<1>1. CASE \E b \in BOOLEAN : enable(b) \/ off(b) \/ put_item(b) \/ dumpval(b)
  BY <1>1, EnableStep, OffStep, ItemStep, DumpvalStep
<1>2. CASE \E f \in Func : DBGTRACE(f)
  BY <1>2, ScopeStep
<1>3. CASE \E id \in Stmt : DBGRAW(id) \/ dumper_line(id, "DBG") \/ dumper_line(id, "DBGDUMP")
  BY <1>3, RawStep, LineStep
<1>4. CASE end_scope
  BY <1>4, EndScopeStep
<1>5. CASE end_line
  BY <1>5, EndLineStep
<1>6. CASE DBG_throw \/ verify \/ throw \/ catch
  BY <1>6, ThrowTraceStep, VerifyStep, ThrowCatchStep
<1>7. CASE exit \/ terminate \/ DBGABORT
  BY <1>7, ExitStep, TerminateStep, AbortStep
<1> QED
  BY <1>1, <1>2, <1>3, <1>4, <1>5, <1>6, <1>7 DEF Next

LEMMA UnchangedInv == IInv /\ UNCHANGED vars => IInv'
<1> SUFFICES ASSUME IInv, UNCHANGED vars PROVE IInv'
  OBVIOUS
<1>1. SameProgram /\ UNCHANGED <<outbuf, made, quiet, dumping, mode>>
  BY DEF vars, Outs, Tracing, SameProgram
<1>2. Flushed
  BY <1>1, Stay DEF IInv, Typed
<1> QED
  BY <1>1, <1>2, SameProgramInv DEF IInv, Typed

LEMMA Orderly == IInv => OutputFollowsProgram
<1> SUFFICES ASSUME IInv PROVE OutputFollowsProgram
  OBVIOUS
<1>1. TypeInv
  <2>1. DOMAIN outbuf = {"live", "silent"}
    BY DEF IInv, Typed, Buffers, Instance
  <2>2. {made, quiet, dumping, switched, overrun} \subseteq BOOLEAN
    BY DEF IInv, Typed
  <2> QED
    BY <2>1, <2>2 DEF IInv, Typed, TypeInv
<1>2. QuotedInDumps
  <2> SUFFICES ASSUME NEW f \in Statements, f.kind # "DBGRAW", ~f.disturbed
               PROVE  f.quoted \subseteq {f.kind = "DBGDUMP" /\ f.instance = "live"}
    BY DEF QuotedInDumps
  <2>1. PICK i \in DOMAIN frames : frames[i] = f /\ IsStatement(f)
    BY Statement_in
  <2> QED
    BY <2>1 DEF IInv, Quoting
<1>3. IndentTellsDepth
  BY DEF IInv, Levels, IndentTellsDepth
<1> QED
  BY <1>1, <1>2, <1>3 DEF OutputFollowsProgram, IInv

LEMMA Always == Spec => []IInv
<1>1. IInv /\ [Next]_vars => IInv'
  BY StepInv, UnchangedInv
<1> QED
  BY InitInv, <1>1, PTL DEF Spec

\* However statements, scopes, exceptions and operands that do all of this are nested: the shared
\* buffers hold parts of open statements only, a C string is quoted in a DBGDUMP that began enabled
\* and nowhere else, and the indentation tells the depth (FlushLine, dumper_line(), Tracer).
THEOREM OutputIsOrderly == Spec => []OutputFollowsProgram
BY Always, Orderly, PTL

\* A line has parts of open statements only (FlushLine::flush(), raw_line()).
THEOREM LinesAreUnmixed == Spec => LinesMixOnlyWhenNested
<1>1. IInv /\ [Next]_vars =>
        [~switched => \A i \in DOMAIN printed' : Ids(printed'[i]) \subseteq Open]_vars
  BY StepInv DEF Says, Mixed
<1> QED
  BY Always, <1>1, PTL DEF Spec, LinesMixOnlyWhenNested

\* What is in the buffer is in the next line, or in the lines of that step, in that order (the
\* destructors of FlushLine, raw_line(), dumpval(), dump_call_stack()).
THEOREM NothingIsLost == Spec => NothingLost
<1>1. IInv /\ [Next]_vars =>
        [IF printed' = <<>> THEN IsPrefix(outbuf["live"], outbuf'["live"])
         ELSE Contains(printed', <<"label">>) \/ Infix(outbuf["live"], FlattenSeq(printed'))]_vars
  BY StepInv DEF Says, Lossless
<1> QED
  BY Always, <1>1, PTL DEF Spec, NothingLost

\* A disabled output is silent, whatever is traced, thrown or dumped, but for the end of a statement
\* in the middle of which it was disabled (Out::instance()).
THEOREM DisabledIsSilent == Spec => SilentWhenDisabled
<1>1. IInv /\ [Next]_vars =>
        [enabled <= 0 => traced' = <<>> /\ (printed' # <<>> => switched /\ EndsLiveLine)]_vars
  BY StepInv DEF Says, Silenced
<1> QED
  BY Always, <1>1, PTL DEF Spec, SilentWhenDisabled

\* The braces of a scope align, and a backtrace lists the open scopes, once (Tracer).
THEOREM ScopesAreShown == Spec => ScopesShown
<1>1. IInv /\ [Next]_vars =>
        [\A i \in DOMAIN traced' : ~overrun =>
           IF traced'[i].mark = "{" THEN traced'[i].indent = Depth
                                    ELSE traced'[i].indent = Top.level]_vars
  BY StepInv DEF Says, Aligned
<1>2. IInv /\ [Next]_vars =>
        [LET starts == {i \in DOMAIN printed' : Contains(printed'[i], "Backtrace")}
             shown(i) == [k \in DOMAIN Scopes |-> Last(printed'[i + k])]
         IN  /\ \A i \in starts : i + Len(Scopes) <= Len(printed') /\ shown(i) = Reverse(Scopes)
             /\ Scopes # <<>> => \A i, j \in starts : i = j]_vars
  BY StepInv DEF Says, Backtraced
<1>3. Spec => BracesAlign
  BY Always, <1>1, PTL DEF Spec, BracesAlign
<1>4. Spec => BacktraceTellsOpenScopes
  BY Always, <1>2, PTL DEF Spec, BacktraceTellsOpenScopes
<1> QED
  BY <1>3, <1>4 DEF ScopesShown
=============================================================================
