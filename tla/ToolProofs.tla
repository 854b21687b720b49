----------------------------- MODULE ToolProofs -----------------------------
(***************************************************************************)
(* Proofs about the tools that act on the machine, for any number of calls *)
(* and callers, and whatever other applications do meanwhile.              *)
(*                                                                         *)
(* Mouse and keyboard: no tool leaves a key or a button down, a call that  *)
(* ran alone is received as it was meant, a verified answer has seen the   *)
(* screen change, and input is validated once a call.                      *)
(*                                                                         *)
(* Files: what is on disk stays a tree whatever calls interleave, a call   *)
(* that answers and ran alone did what it says, and the pages read of a    *)
(* file add up to it.                                                      *)
(*                                                                         *)
(* The clipboard: what get_clipboard and set_clipboard answer is so,       *)
(* although their callers give up at a timeout and their functions go on.  *)
(*                                                                         *)
(* Windows: what a listing or a walk finds is so, and keys typed go to the *)
(* window named, although all callers share one callback.                  *)
(***************************************************************************)
EXTENDS DesktopInput, Files, Clipboard, WindowTools, SequenceTheorems, FiniteSetTheorems, TLAPS

-----------------------------------------------------------------------------
(* Mouse and keyboard                                                        *)

Keys ==
  Mods \cup Specials \cup AlNum \cup {"left"}
    \cup {r.key : r \in {r \in InputRequests : r.tool \in {"key_down", "key_up"}}}
Points == ScreenPoints \cup {CHOOSE p \in ScreenPoints : TRUE}
Event ==
  [do : {"elevation", "refuse", "classify", "wheel"}] \cup [do : {"move"}, to : ScreenPoints]
    \cup [do : {"down", "up"}, key : Keys] \cup [do : {"down", "up"}, key : Keys, to : ScreenPoints]
Arrival == [key : Keys, mods : SUBSET Mods, at : Points]
Screens == {"old", "new"}
InputCalls ==
  [at : {"pre1", "pre2", "send", "post1", "post2", "answer", "ok", "failed"}, r : InputRequests,
   todo : Seq(Event), got : Seq(Arrival), before : Screens, since : SUBSET Screens, verified : BOOLEAN,
   mine : Nat, validated : Nat, from : SUBSET Keys]
InputTypes ==
  /\ held \in SUBSET Keys /\ kept \in SUBSET Keys /\ cursor \in Points
  /\ elevated \in BOOLEAN /\ shown \in Screens /\ changes \in Nat
  /\ lastClickVal \in Nat /\ clicked \in Nat
  /\ inputCall \in [InputCallers -> InputCalls \cup {NoInputCall}]
  /\ interleaved \in SUBSET InputCallers /\ inputCalls \in Nat

\* Where a call ends without sending the rest.
Stops(e) == e.do \in {"elevation", "refuse"}
\* What goes down at n comes up again, before the call can end.
ComesUp(es, n) == \E m \in n + 1..Len(es) :
  es[m].do = "up" /\ es[m].key = es[n].key /\ \A j \in n..m : ~Stops(es[j])
AllUp(es) == \A n \in 1..Len(es) : es[n].do = "down" => ComesUp(es, n)
LeavesDown(r) == r.tool \in {"key_down", "mouse_down"}
\* A call that has these events to send releases k before it can end.
Releases(es, k) ==
  \E m \in 1..Len(es) : es[m].do = "up" /\ es[m].key = k /\ \A j \in 1..m : ~Stops(es[j])
Owes(call, k) == call.at = "send" /\ Releases(call.todo, k)
AllOwed == \A k \in held \ kept : \E c \in InputCallers : Owes(inputCall[c], k)
StillUp(call) == call.at \in {"pre1", "pre2", "send"} => LeavesDown(call.r) \/ AllUp(call.todo)

\* A call that may soon look at the screen has noted what it shows, or has an event to send first.
FirstIsInput(es) == es # <<>> /\ es[1].do # "classify"
Noted(call) ==
  /\ call.at \in {"pre1", "pre2"} => call.got = <<>> /\ FirstIsInput(call.todo)
  /\ call.at = "send" => shown \in call.since \/ FirstIsInput(call.todo)
  /\ call.at \in {"post1", "post2", "answer"} => shown \in call.since
  /\ call.at \in {"pre1", "pre2", "send", "post1", "post2"} => ~call.verified
  /\ call.at \in {"answer", "ok"} /\ call.verified /\ call.r.post.kind = "text" => call.r.post.word \in call.since

\* The slot holds the newest validation or none; one that was answered is not in it any more.
SlotNewest == lastClickVal \in {0, clicked}
Numbered(call) == call.at \notin {"idle", "failed"} =>
  /\ call.mine <= clicked /\ call.validated <= clicked
  /\ call.at # "ok" => call.validated = 0
  /\ call.validated # 0 => call.validated # lastClickVal /\ call.validated >= call.mine
CallFits(call) == StillUp(call) /\ Noted(call) /\ Numbered(call)
InputInv ==
  /\ InputTypes /\ AllOwed /\ SlotNewest /\ ValidatedOnce
  /\ \A c \in InputCallers : CallFits(inputCall[c])

\* (What a recursive definition computes is shown by the least number for which it does not.)
LEMMA LeastNumber ==
  ASSUME NEW T \in SUBSET Nat, T # {}
  PROVE  \E n \in T : \A m \in T : n <= m
<1> DEFINE R == OpToRel(<, Nat)
<1>1. IsWellFoundedOn(R, Nat)
  BY NatLessThanWellFounded
<1>2. \A x \in Nat, y \in Nat : <<y, x>> \in R <=> y < x
  BY DEF OpToRel
<1> HIDE DEF R
<1>3. T \subseteq Nat
  OBVIOUS
<1>4. PICK n \in T : \A m \in T : ~(<<m, n>> \in R)
  BY <1>1, <1>3, WFMin, Zenon
<1>5. ASSUME NEW m \in T PROVE n <= m
  <2>1. m \in Nat /\ n \in Nat /\ ~(m < n)
    BY <1>2, <1>3, <1>4
  <2>2. QED
    BY <2>1
<1>6. QED
  BY <1>5, Zenon

\* What Joined adds up, part by part.
Sums(f, ss) ==
  /\ DOMAIN f = 0..Len(ss) /\ f[0] = <<>>
  /\ \A n \in 1..Len(ss) : f[n] = f[n - 1] \o ss[n]

LEMMA JoinedSums ==
  ASSUME NEW ss, Len(ss) \in Nat
  PROVE  \E f : Sums(f, ss) /\ Joined(ss) = f[Len(ss)]
<1> DEFINE len == Len(ss)
           Next(f, n) == IF n = 0 THEN <<>> ELSE f[n - 1] \o ss[n]
           Fits(f, k) == f = [n \in 0..k |-> f[n]] /\ \A n \in 0..k : f[n] = Next(f, n)
<1> HIDE DEF len
<1>1. len \in Nat
  BY DEF len
<1>2. \E f : f = [n \in 0..len |-> Next(f, n)]
  <2> DEFINE T == {k \in 0..len : ~\E f : Fits(f, k)}
  <2>1. ASSUME T # {} PROVE FALSE
    <3>1. T \in SUBSET Nat
      BY <1>1
    <3> HIDE DEF T
    <3>2. PICK k \in T : \A m \in T : k <= m
      BY <2>1, <3>1, LeastNumber
    <3>3. k \in 0..len /\ ~\E f : Fits(f, k)
      BY <3>2 DEF T
    <3>4. k # 0
      <4>1. Fits([n \in 0..0 |-> <<>>], 0)
        OBVIOUS
      <4>2. QED
        BY <3>3, <4>1
    <3>5. k - 1 \in 0..len /\ k - 1 \notin T
      BY <1>1, <3>2, <3>3, <3>4
    <3>6. PICK f : Fits(f, k - 1)
      BY <3>5 DEF T
    <3> DEFINE g == [n \in 0..k |-> IF n = k THEN f[k - 1] \o ss[k] ELSE f[n]]
    <3>7. ASSUME NEW n \in 0..k PROVE g[n] = Next(g, n)
      <4>1. CASE n = k
        <5>1. k - 1 \in 0..k /\ k - 1 # k /\ k \in 0..k
          BY <1>1, <3>3, <3>4
        <5>2. g[k - 1] = f[k - 1] /\ g[k] = f[k - 1] \o ss[k]
          BY <5>1
        <5>3. QED
          BY <3>4, <4>1, <5>2
      <4>2. CASE n # k
        <5>1. n \in 0..k - 1 /\ (n # 0 => n - 1 \in 0..k - 1 /\ n - 1 # k)
          BY <1>1, <3>3, <4>2
        <5>2. g[n] = f[n] /\ (n # 0 => g[n - 1] = f[n - 1])
          BY <1>1, <3>3, <5>1
        <5>3. f[n] = Next(f, n)
          BY <3>6, <5>1
        <5>4. QED
          BY <4>2, <5>1, <5>2, <5>3
      <4>3. QED
        BY <4>1, <4>2
    <3>8. Fits(g, k)
      BY <3>7
    <3>9. QED
      BY <3>3, <3>8
  <2>2. PICK f : Fits(f, len)
    <3>1. len \in 0..len /\ len \notin T
      BY <1>1, <2>1
    <3>2. QED
      BY <3>1
  <2>3. f = [n \in 0..len |-> f[n]]
    BY <2>2, Zenon
  <2>4. [n \in 0..len |-> f[n]] = [n \in 0..len |-> Next(f, n)]
    BY <2>2
  <2>5. QED
    BY <2>3, <2>4, Zenon
<1>3. PICK f : f = [n \in 0..len |-> Next(f, n)] /\ Joined(ss) = f[len]
  <2> DEFINE c == CHOOSE g : g = [n \in 0..len |-> Next(g, n)]
  <2>1. c = [n \in 0..len |-> Next(c, n)]
    BY <1>2, Zenon
  <2>2. Joined(ss) = c[len]
    BY <1>1 DEF Joined, len
  <2>3. QED
    BY <2>1, <2>2
<1>4. DOMAIN f = 0..len /\ \A n \in 0..len : f[n] = Next(f, n)
  BY <1>3
<1>5. Sums(f, ss)
  <2>1. f[0] = <<>>
    <3>1. 0 \in 0..len
      BY <1>1
    <3>2. QED
      BY <1>4, <3>1
  <2>2. \A n \in 1..len : f[n] = f[n - 1] \o ss[n]
    BY <1>1, <1>4
  <2>3. QED
    BY <1>4, <2>1, <2>2 DEF Sums, len
<1>6. QED
  BY <1>3, <1>5 DEF len

\* What holds of nothing and of two such one after the other holds of all of them joined.
LEMMA JoinedStays ==
  ASSUME NEW G, NEW ss, Len(ss) \in Nat, \A n \in 1..Len(ss) : ss[n] \in G,
         <<>> \in G, \A a, b \in G : a \o b \in G
  PROVE  Joined(ss) \in G
<1>1. PICK f : Sums(f, ss) /\ Joined(ss) = f[Len(ss)]
  BY JoinedSums
<1> DEFINE T == {n \in 0..Len(ss) : f[n] \notin G}
<1>2. ASSUME T # {} PROVE FALSE
  <2>1. T \in SUBSET Nat
    OBVIOUS
  <2> HIDE DEF T
  <2>2. PICK k \in T : \A m \in T : k <= m
    BY <1>2, <2>1, LeastNumber
  <2>3. k \in 0..Len(ss) /\ f[k] \notin G
    BY <2>2 DEF T
  <2>4. k # 0
    BY <1>1, <2>3 DEF Sums
  <2>5. k - 1 \in 0..Len(ss) /\ k - 1 \notin T /\ k \in 1..Len(ss)
    BY <2>2, <2>3, <2>4
  <2>6. f[k - 1] \in G
    BY <2>5 DEF T
  <2>7. f[k] = f[k - 1] \o ss[k] /\ ss[k] \in G
    BY <1>1, <2>5 DEF Sums
  <2>8. QED
    BY <2>3, <2>6, <2>7
<1>3. Len(ss) \in 0..Len(ss) /\ Len(ss) \notin T
  BY <1>2
<1>4. QED
  BY <1>1, <1>3

\* Where the parts of a sum are found in it.
LEMMA After ==
  ASSUME NEW E, NEW a \in Seq(E), NEW b \in Seq(E)
  PROVE  /\ Len(a \o b) = Len(a) + Len(b) /\ Len(a) \in Nat /\ Len(b) \in Nat
         /\ \A i \in 1..Len(a) : i \in 1..Len(a \o b) /\ (a \o b)[i] = a[i]
         /\ \A i \in 1..Len(b) : Len(a) + i \in 1..Len(a \o b) /\ (a \o b)[Len(a) + i] = b[i]
         /\ \A i \in 1..Len(a \o b) : i \in 1..Len(a) \/ \E j \in 1..Len(b) : i = Len(a) + j
<1>1. Len(a) \in Nat /\ Len(b) \in Nat /\ Len(a \o b) = Len(a) + Len(b)
  OBVIOUS
<1>2. \A i \in 1..Len(a) + Len(b) : (a \o b)[i] = IF i <= Len(a) THEN a[i] ELSE b[i - Len(a)]
  BY ConcatProperties
<1>3. ASSUME NEW i \in 1..Len(a) PROVE i \in 1..Len(a \o b) /\ (a \o b)[i] = a[i]
  <2>1. i \in 1..Len(a) + Len(b) /\ i <= Len(a)
    BY <1>1
  <2>2. QED
    BY <1>1, <1>2, <2>1
<1>4. ASSUME NEW i \in 1..Len(b) PROVE Len(a) + i \in 1..Len(a \o b) /\ (a \o b)[Len(a) + i] = b[i]
  <2>1. Len(a) + i \in 1..Len(a) + Len(b) /\ ~(Len(a) + i <= Len(a)) /\ Len(a) + i - Len(a) = i
    BY <1>1
  <2>2. QED
    BY <1>1, <1>2, <2>1
<1>5. ASSUME NEW i \in 1..Len(a \o b), i \notin 1..Len(a) PROVE \E j \in 1..Len(b) : i = Len(a) + j
  <2>1. i - Len(a) \in 1..Len(b) /\ i = Len(a) + (i - Len(a))
    BY <1>1, <1>5
  <2>2. QED
    BY <2>1
<1>6. QED
  BY <1>1, <1>3, <1>4, <1>5

\* What is in one of them is in all of them joined.
LEMMA JoinedHolds ==
  ASSUME NEW E, NEW ss \in Seq(Seq(E)), NEW n \in 1..Len(ss), NEW i \in 1..Len(ss[n])
  PROVE  \E j \in 1..Len(Joined(ss)) : Joined(ss)[j] = ss[n][i]
<1>1. PICK f : Sums(f, ss) /\ Joined(ss) = f[Len(ss)]
  BY JoinedSums
<1>len. Len(ss) \in Nat /\ ss[n] \in Seq(E)
  OBVIOUS
<1>2. \A m \in 0..Len(ss) : f[m] \in Seq(E)
  <2> DEFINE T == {m \in 0..Len(ss) : f[m] \notin Seq(E)}
  <2>1. ASSUME T # {} PROVE FALSE
    <3>1. T \in SUBSET Nat
      OBVIOUS
    <3> HIDE DEF T
    <3>2. PICK k \in T : \A m \in T : k <= m
      BY <2>1, <3>1, LeastNumber
    <3>3. k \in 0..Len(ss) /\ f[k] \notin Seq(E)
      BY <3>2 DEF T
    <3>4. f[0] \in Seq(E)
      BY <1>1 DEF Sums
    <3>5. k - 1 \in 0..Len(ss) /\ k - 1 \notin T /\ k \in 1..Len(ss)
      BY <3>2, <3>3, <3>4
    <3>6. f[k - 1] \in Seq(E) /\ ss[k] \in Seq(E)
      BY <3>5 DEF T
    <3>7. f[k] = f[k - 1] \o ss[k]
      BY <1>1, <3>5 DEF Sums
    <3>8. QED
      BY <3>3, <3>6, <3>7
  <2>2. QED
    BY <2>1
<1> DEFINE Has(m) == \E j \in 1..Len(f[m]) : f[m][j] = ss[n][i]
           T == {m \in n..Len(ss) : ~Has(m)}
<1>3. Has(n)
  <2>0. n - 1 \in 0..Len(ss)
    BY <1>len
  <2>1. f[n] = f[n - 1] \o ss[n] /\ f[n - 1] \in Seq(E)
    BY <1>1, <1>2, <2>0 DEF Sums
  <2>2. Len(f[n - 1]) + i \in 1..Len(f[n]) /\ f[n][Len(f[n - 1]) + i] = ss[n][i]
    <3>1. PICK a \in Seq(E), b \in Seq(E) : a = f[n - 1] /\ b = ss[n]
      BY <2>1, <1>len
    <3>2. i \in 1..Len(b)
      BY <3>1
    <3>3. Len(a) + i \in 1..Len(a \o b) /\ (a \o b)[Len(a) + i] = b[i]
      BY <3>2, After
    <3>4. QED
      BY <2>1, <3>1, <3>3
  <2>3. QED
    BY <2>2
<1>4. ASSUME T # {} PROVE FALSE
  <2>1. T \in SUBSET Nat
    BY <1>len
  <2> HIDE DEF T
  <2>2. PICK k \in T : \A m \in T : k <= m
    BY <1>4, <2>1, LeastNumber
  <2>3. k \in n..Len(ss) /\ ~Has(k)
    BY <2>2 DEF T
  <2>4. k # n
    BY <1>3, <2>3
  <2> HIDE DEF Has
  <2>5. k - 1 \in n..Len(ss) /\ k - 1 \notin T /\ k \in 1..Len(ss) /\ k - 1 \in 0..Len(ss)
    BY <1>len, <2>2, <2>3, <2>4
  <2>6. Has(k - 1)
    BY <2>5 DEF T
  <2>7. PICK j \in 1..Len(f[k - 1]) : f[k - 1][j] = ss[n][i]
    BY <2>6 DEF Has
  <2>8. f[k] = f[k - 1] \o ss[k] /\ f[k - 1] \in Seq(E) /\ ss[k] \in Seq(E)
    <3>1. f[k - 1] \in Seq(E)
      BY <1>2, <2>5
    <3>2. f[k] = f[k - 1] \o ss[k]
      BY <1>1, <2>5 DEF Sums
    <3>3. ss[k] \in Seq(E)
      BY <2>5
    <3>4. QED
      BY <3>1, <3>2, <3>3
  <2>9. j \in 1..Len(f[k]) /\ f[k][j] = f[k - 1][j]
    <3>1. PICK a \in Seq(E), b \in Seq(E) : a = f[k - 1] /\ b = ss[k]
      BY <2>8
    <3>2. j \in 1..Len(a)
      BY <3>1
    <3>3. j \in 1..Len(a \o b) /\ (a \o b)[j] = a[j]
      BY <3>2, After
    <3>4. QED
      BY <2>8, <3>1, <3>3
  <2>10. QED
    BY <2>3, <2>7, <2>9 DEF Has
<1>5. Len(ss) \in n..Len(ss) /\ Len(ss) \notin T
  <2>1. Len(ss) \in n..Len(ss)
    BY <1>len
  <2> HIDE DEF T
  <2>2. QED
    BY <1>4, <2>1
<1>6. QED
  BY <1>1, <1>5

\* What is released in time stays so when more comes before or after it.
LEMMA ComesUpStays ==
  ASSUME NEW E, NEW a \in Seq(E), NEW b \in Seq(E)
  PROVE  /\ \A n \in 1..Len(a) : ComesUp(a, n) => ComesUp(a \o b, n)
         /\ \A n \in 1..Len(b) : ComesUp(b, n) => ComesUp(a \o b, Len(a) + n)
<1> DEFINE ab == a \o b
<1>1. Len(ab) = Len(a) + Len(b) /\ Len(a) \in Nat /\ Len(b) \in Nat
  BY After
<1>2. \A i \in 1..Len(a) : i \in 1..Len(ab) /\ ab[i] = a[i]
  BY After
<1>3. \A i \in 1..Len(b) : Len(a) + i \in 1..Len(ab) /\ ab[Len(a) + i] = b[i]
  BY After
<1> HIDE DEF ab
<1>4. ASSUME NEW n \in 1..Len(a), ComesUp(a, n) PROVE ComesUp(ab, n)
  <2>1. PICK m \in n + 1..Len(a) : a[m].do = "up" /\ a[m].key = a[n].key /\ \A j \in n..m : ~Stops(a[j])
    BY <1>4 DEF ComesUp
  <2>2. m \in 1..Len(a) /\ m \in n + 1..Len(ab)
    BY <1>1
  <2>3. ab[m] = a[m] /\ ab[n] = a[n]
    BY <1>2, <2>2
  <2>4. ASSUME NEW j \in n..m PROVE ~Stops(ab[j])
    <3>1. j \in 1..Len(a)
      BY <1>1
    <3>2. QED
      BY <1>2, <2>1, <3>1
  <2>5. QED
    BY <2>1, <2>2, <2>3, <2>4 DEF ComesUp
<1>5. ASSUME NEW n \in 1..Len(b), ComesUp(b, n) PROVE ComesUp(ab, Len(a) + n)
  <2>1. PICK m \in n + 1..Len(b) : b[m].do = "up" /\ b[m].key = b[n].key /\ \A j \in n..m : ~Stops(b[j])
    BY <1>5 DEF ComesUp
  <2>2. m \in 1..Len(b) /\ Len(a) + m \in Len(a) + n + 1..Len(ab)
    BY <1>1
  <2>3. ab[Len(a) + m] = b[m] /\ ab[Len(a) + n] = b[n]
    BY <1>3, <2>2
  <2>4. ASSUME NEW j \in Len(a) + n..Len(a) + m PROVE ~Stops(ab[j])
    <3>1. j - Len(a) \in 1..Len(b) /\ j - Len(a) \in n..m /\ Len(a) + (j - Len(a)) = j
      BY <1>1
    <3>2. QED
      BY <1>3, <2>1, <3>1
  <2>5. QED
    BY <2>1, <2>2, <2>3, <2>4 DEF ComesUp
<1>6. QED
  BY <1>4, <1>5 DEF ab

LEMMA ConcatUp ==
  ASSUME NEW E, NEW a \in Seq(E), NEW b \in Seq(E), AllUp(a), AllUp(b)
  PROVE  AllUp(a \o b)
<1> SUFFICES ASSUME NEW i \in 1..Len(a \o b), (a \o b)[i].do = "down" PROVE ComesUp(a \o b, i)
  BY DEF AllUp
<1>1. CASE i \in 1..Len(a)
  <2>1. (a \o b)[i] = a[i]
    BY <1>1, After
  <2>2. ComesUp(a, i)
    BY <1>1, <2>1 DEF AllUp
  <2>3. QED
    BY <1>1, <2>2, ComesUpStays
<1>2. ASSUME NEW j \in 1..Len(b), i = Len(a) + j PROVE ComesUp(a \o b, i)
  <2>1. (a \o b)[i] = b[j]
    BY <1>2, After
  <2>2. ComesUp(b, j)
    BY <2>1 DEF AllUp
  <2>3. QED
    BY <1>2, <2>2, ComesUpStays
<1>3. i \in 1..Len(a) \/ \E j \in 1..Len(b) : i = Len(a) + j
  BY After
<1>4. QED
  BY <1>1, <1>2, <1>3

\* Keys going down and up, and those of them whose modifiers alone may stay down.
Strokes == [do : {"down", "up"}, key : Keys]
Released == {es \in Seq(Strokes) : AllUp(es)}
AllButMods == {es \in Seq(Strokes) :
  \A n \in 1..Len(es) : es[n].do = "down" => ComesUp(es, n) \/ es[n].key \in Mods}

LEMMA StrokesGoOn == \A e \in Strokes : ~Stops(e) /\ e \in Event
  BY DEF Strokes, Stops, Event

LEMMA ReleasedConcat == <<>> \in Released /\ \A a, b \in Released : a \o b \in Released
<1>1. <<>> \in Released
  BY EmptySeq DEF Released, AllUp
<1>2. ASSUME NEW a \in Released, NEW b \in Released PROVE a \o b \in Released
  <2>1. a \in Seq(Strokes) /\ b \in Seq(Strokes) /\ AllUp(a) /\ AllUp(b)
    BY DEF Released
  <2>2. AllUp(a \o b)
    BY <2>1, ConcatUp
  <2>3. a \o b \in Seq(Strokes)
    BY <2>1
  <2>4. QED
    BY <2>2, <2>3 DEF Released
<1>3. QED
  BY <1>1, <1>2

LEMMA AllButModsConcat == <<>> \in AllButMods /\ \A a, b \in AllButMods : a \o b \in AllButMods
<1>1. <<>> \in AllButMods
  BY EmptySeq DEF AllButMods
<1>2. ASSUME NEW a \in AllButMods, NEW b \in AllButMods PROVE a \o b \in AllButMods
  <2>1. a \in Seq(Strokes) /\ b \in Seq(Strokes)
    BY DEF AllButMods
  <2>2. ASSUME NEW i \in 1..Len(a \o b), (a \o b)[i].do = "down"
        PROVE  ComesUp(a \o b, i) \/ (a \o b)[i].key \in Mods
    <3>1. CASE i \in 1..Len(a)
      <4>1. (a \o b)[i] = a[i]
        BY <2>1, <3>1, After
      <4>2. ComesUp(a, i) \/ a[i].key \in Mods
        BY <2>2, <3>1, <4>1 DEF AllButMods
      <4>3. ComesUp(a, i) => ComesUp(a \o b, i)
        BY <2>1, <3>1, ComesUpStays
      <4>4. QED
        BY <4>1, <4>2, <4>3
    <3>2. ASSUME NEW j \in 1..Len(b), i = Len(a) + j PROVE ComesUp(a \o b, i) \/ (a \o b)[i].key \in Mods
      <4>1. (a \o b)[i] = b[j]
        BY <2>1, <3>2, After
      <4>2. ComesUp(b, j) \/ b[j].key \in Mods
        BY <2>2, <4>1 DEF AllButMods
      <4>3. ComesUp(b, j) => ComesUp(a \o b, i)
        BY <2>1, <3>2, ComesUpStays
      <4>4. QED
        BY <4>1, <4>2, <4>3
    <3>3. i \in 1..Len(a) \/ \E j \in 1..Len(b) : i = Len(a) + j
      BY <2>1, After
    <3>4. QED
      BY <3>1, <3>2, <3>3
  <2>3. a \o b \in Seq(Strokes)
    BY <2>1
  <2>4. QED
    BY <2>2, <2>3 DEF AllButMods
<1>3. QED
  BY <1>1, <1>2

LEMMA KeySorts ==
  /\ Mods \subseteq Keys /\ Specials \subseteq Keys /\ AlNum \subseteq Keys /\ "left" \in Keys
  /\ \A r \in DOMAIN CharToVK : CharToVK[r].vk \in AlNum /\ CharToVK[r].shift \in BOOLEAN
<1>1. \A r \in DOMAIN CharToVK : CharToVK[r].vk \in AlNum /\ CharToVK[r].shift \in BOOLEAN
  <2>1. ASSUME NEW r \in {"a", "A", "1", "!"}
        PROVE  CharToVK[r] = [vk |-> IF r \in {"a", "A"} THEN "a" ELSE "1", shift |-> r \in {"A", "!"}]
    BY DEF CharToVK
  <2>2. DOMAIN CharToVK = {"a", "A", "1", "!"}
    BY DEF CharToVK
  <2>3. ASSUME NEW r \in {"a", "A", "1", "!"} PROVE CharToVK[r].vk \in AlNum
    BY <2>1 DEF AlNum
  <2>4. ASSUME NEW r \in {"a", "A", "1", "!"} PROVE CharToVK[r].shift \in BOOLEAN
    <3>1. CharToVK[r].shift = (r \in {"A", "!"})
      BY <2>1
    <3>2. (r \in {"A", "!"}) \in BOOLEAN
      OBVIOUS
    <3>3. QED
      BY <3>1, <3>2, Zenon
  <2>5. QED
    BY <2>2, <2>3, <2>4
<1>2. QED
  BY <1>1 DEF Keys

\* A key pressed is released at once, and a capital's shift after it.
LEMMA PressReleased ==
  ASSUME NEW k \in Keys
  PROVE  SendVKPress(k) \in Released
<1>1. SendVKPress(k) \in Seq(Strokes)
  BY DEF SendVKPress, Down, Up, Strokes
<1>2. ComesUp(SendVKPress(k), 1)
  <2>1. 2 \in 1 + 1..Len(SendVKPress(k)) /\ SendVKPress(k)[2].do = "up"
        /\ SendVKPress(k)[2].key = SendVKPress(k)[1].key
    BY DEF SendVKPress, Down, Up
  <2>2. \A j \in 1..2 : ~Stops(SendVKPress(k)[j])
    BY DEF SendVKPress, Down, Up, Stops
  <2>3. QED
    BY <2>1, <2>2 DEF ComesUp
<1>3. SendVKPress(k)[2].do # "down" /\ Len(SendVKPress(k)) = 2
  BY DEF SendVKPress, Down, Up
<1>4. AllUp(SendVKPress(k))
  BY <1>2, <1>3 DEF AllUp
<1>5. QED
  BY <1>1, <1>4 DEF Released

LEMMA HeldAround ==
  ASSUME NEW k \in Keys, NEW es \in Released
  PROVE  <<Down(k)>> \o es \o <<Up(k)>> \in Released
<1> DEFINE a == <<Down(k)>> \o es
           ab == a \o <<Up(k)>>
<1>1. <<Down(k)>> \in Seq(Strokes) /\ <<Up(k)>> \in Seq(Strokes) /\ es \in Seq(Strokes)
  BY DEF Down, Up, Strokes, Released
<1>2. a \in Seq(Strokes) /\ ab \in Seq(Strokes)
  BY <1>1
<1>3. Len(a) = 1 + Len(es) /\ Len(ab) = Len(es) + 2 /\ Len(es) \in Nat
  <2>1. Len(<<Down(k)>>) = 1 /\ Len(<<Up(k)>>) = 1
    OBVIOUS
  <2>2. QED
    BY <1>1, <1>2, <2>1
<1>4. a[1] = Down(k) /\ \A i \in 1..Len(es) : a[1 + i] = es[i]
  <2>1. Len(<<Down(k)>>) = 1 /\ <<Down(k)>>[1] = Down(k)
    OBVIOUS
  <2>2. QED
    BY <1>1, <2>1, After
<1>5. (\A i \in 1..Len(a) : ab[i] = a[i]) /\ ab[Len(a) + 1] = Up(k)
  <2>1. Len(<<Up(k)>>) = 1 /\ <<Up(k)>>[1] = Up(k) /\ 1 \in 1..1
    OBVIOUS
  <2>2. PICK s \in Seq(Strokes), u \in Seq(Strokes) : s = a /\ u = <<Up(k)>>
    BY <1>1, <1>2
  <2>3. \A i \in 1..Len(s) : (s \o u)[i] = s[i]
    BY After
  <2>4. \A i \in 1..Len(u) : (s \o u)[Len(s) + i] = u[i]
    BY After
  <2>5. QED
    BY <2>1, <2>2, <2>3, <2>4
<1>6. \A i \in 1..Len(es) : ComesUp(es, i) => ComesUp(ab, 1 + i)
  <2>0. Len(<<Down(k)>>) = 1
    OBVIOUS
  <2>1. \A i \in 1..Len(es) : ComesUp(es, i) => ComesUp(a, 1 + i)
    BY <1>1, <2>0, ComesUpStays
  <2>2. \A i \in 1..Len(a) : ComesUp(a, i) => ComesUp(ab, i)
    BY <1>1, <1>2, ComesUpStays
  <2>3. QED
    BY <1>3, <2>1, <2>2
<1> HIDE DEF a, ab
<1>7. \A i \in 1..Len(ab) : ~Stops(ab[i])
  <2>1. \A i \in 1..Len(ab) : ab[i] \in Strokes
    BY <1>2
  <2>2. QED
    BY <2>1, StrokesGoOn
<1>8. ComesUp(ab, 1)
  <2>1. Len(ab) \in 1 + 1..Len(ab) /\ Len(ab) = Len(a) + 1 /\ 1 \in 1..Len(a)
    BY <1>3
  <2>2. ab[1] = Down(k) /\ ab[Len(ab)] = Up(k)
    BY <1>4, <1>5, <2>1
  <2>3. QED
    BY <1>7, <2>1, <2>2 DEF ComesUp, Down, Up
<1>9. ASSUME NEW i \in 1..Len(ab), ab[i].do = "down" PROVE ComesUp(ab, i)
  <2>1. CASE i = 1
    BY <1>8, <2>1
  <2>2. CASE i = Len(a) + 1
    BY <1>5, <1>9, <2>2 DEF Up
  <2>3. CASE i # 1 /\ i # Len(a) + 1
    <3>1. PICK n \in 1..Len(es) : i = 1 + n /\ i \in 1..Len(a)
      <4>1. i - 1 \in 1..Len(es) /\ i = 1 + (i - 1) /\ i \in 1..Len(a)
        BY <1>3, <2>3
      <4>2. QED
        BY <4>1
    <3>2. ab[i] = es[n]
      BY <1>4, <1>5, <3>1
    <3>3. ComesUp(es, n)
      BY <1>9, <3>2 DEF Released, AllUp
    <3>4. QED
      BY <1>6, <3>1, <3>3
  <2>4. QED
    BY <2>1, <2>2, <2>3
<1>10. AllUp(ab)
  BY <1>9 DEF AllUp
<1>11. QED
  BY <1>2, <1>10 DEF Released, a, ab

LEMMA CharReleased == \A r : SendCharWithVK(r) \in Released
<1> SUFFICES ASSUME NEW r, r \in DOMAIN CharToVK PROVE SendCharWithVK(r) \in Released
  BY ReleasedConcat DEF SendCharWithVK
<1>1. PICK k \in Keys : k = CharToVK[r].vk
  BY KeySorts
<1>2. SendVKPress(k) \in Released
  BY PressReleased
<1>3. CASE ~CharToVK[r].shift
  BY <1>1, <1>2, <1>3 DEF SendCharWithVK
<1>4. CASE CharToVK[r].shift
  <2>1. <<Down("shift")>> \o SendVKPress(k) \o <<Up("shift")>> \in Released
    BY <1>2, KeySorts, HeldAround DEF Mods
  <2>2. QED
    BY <1>1, <1>4, <2>1 DEF SendCharWithVK
<1>5. QED
  BY <1>3, <1>4 DEF SendCharWithVK

LEMMA TextReleased ==
  ASSUME NEW text \in Seq(STRING)
  PROVE  /\ TypeText(text) \in Released
         /\ Joined([n \in 1..Len(text) |-> SendCharWithVK(text[n])]) \in Released
<1>1. \A n \in 1..Len(text) :
        (IF text[n] \in Specials THEN SendVKPress(text[n]) ELSE SendCharWithVK(text[n])) \in Released
  BY KeySorts, PressReleased, CharReleased
<1>2. PICK ss : ss = [n \in 1..Len(text) |->
        IF text[n] \in Specials THEN SendVKPress(text[n]) ELSE SendCharWithVK(text[n])]
  OBVIOUS
<1>3. Len(ss) \in Nat /\ \A n \in 1..Len(ss) : ss[n] \in Released
  BY <1>1, <1>2
<1>4. TypeText(text) \in Released
  BY <1>2, <1>3, ReleasedConcat, JoinedStays DEF TypeText
<1>5. PICK cs : cs = [n \in 1..Len(text) |-> SendCharWithVK(text[n])]
  OBVIOUS
<1>6. Len(cs) \in Nat /\ \A n \in 1..Len(cs) : cs[n] \in Released
  BY <1>5, CharReleased
<1>7. Joined(cs) \in Released
  BY <1>6, ReleasedConcat, JoinedStays
<1>8. QED
  BY <1>4, <1>5, <1>7

\* A name in key_press leaves no key down but the modifiers it holds.
LEMMA KeyEventsButMods ==
  ASSUME NEW k
  PROVE  KeyEvents(k) \in AllButMods
<1>1. Released \subseteq AllButMods
  BY DEF Released, AllButMods, AllUp
<1>2. ASSUME NEW key \in Mods PROVE <<Down(key)>> \in AllButMods
  <2>1. <<Down(key)>> \in Seq(Strokes)
    BY KeySorts DEF Down, Strokes
  <2>2. Len(<<Down(key)>>) = 1 /\ <<Down(key)>>[1].key = key
    BY DEF Down
  <2>3. QED
    BY <2>1, <2>2 DEF AllButMods
<1>3. <<>> \in AllButMods
  BY AllButModsConcat
<1>4. CASE Len(k) = 2 /\ k[1] \in Mods /\ k[2] \in AlNum
  <2>1. SendVKPress(k[2]) \in AllButMods /\ <<Down(k[1])>> \in AllButMods
    BY <1>1, <1>2, <1>4, KeySorts, PressReleased
  <2>2. <<Down(k[1])>> \o SendVKPress(k[2]) \in AllButMods
    BY <2>1, AllButModsConcat
  <2>3. QED
    BY <1>4, <2>2 DEF KeyEvents
<1>5. CASE Len(k) = 2 /\ ~(k[1] \in Mods /\ k[2] \in AlNum)
  BY <1>3, <1>5 DEF KeyEvents
<1>6. CASE Len(k) # 2 /\ k[1] \in Mods
  BY <1>2, <1>6 DEF KeyEvents
<1>7. CASE Len(k) # 2 /\ k[1] \notin Mods /\ k[1] \in Specials
  <2>1. SendVKPress(k[1]) \in AllButMods
    BY <1>1, <1>7, KeySorts, PressReleased
  <2>2. QED
    BY <1>7, <2>1 DEF KeyEvents
<1>8. CASE Len(k) # 2 /\ k[1] \notin Mods /\ k[1] \notin Specials /\ k[1] \in DOMAIN CharToVK
  <2>1. CharToVK[k[1]].vk \in Keys
    BY <1>8, KeySorts
  <2>2. SendVKPress(CharToVK[k[1]].vk) \in AllButMods
    BY <1>1, <2>1, PressReleased
  <2>3. QED
    BY <1>8, <2>2 DEF KeyEvents
<1>9. CASE Len(k) # 2 /\ k[1] \notin Mods /\ k[1] \notin Specials /\ k[1] \notin DOMAIN CharToVK
  BY <1>3, <1>9 DEF KeyEvents
<1>10. QED
  BY <1>4, <1>5, <1>6, <1>7, <1>8, <1>9

\* A key_press releases, last first, the modifiers it held.
LEMMA KeyPressReleased ==
  ASSUME NEW keys, Len(keys) \in Nat
  PROVE  \E es \in Released : KeyPress(keys) = <<Elevation>> \o es
<1> DEFINE parts == [n \in 1..Len(keys) |-> KeyEvents(keys[n])]
<1>1. PICK sent : sent = Joined(parts)
  OBVIOUS
<1>2. sent \in AllButMods
  <2>1. Len(parts) \in Nat /\ \A n \in 1..Len(parts) : parts[n] \in AllButMods
    BY KeyEventsButMods
  <2> HIDE DEF parts
  <2>2. QED
    BY <1>1, <2>1, AllButModsConcat, JoinedStays
<1> HIDE DEF parts
<1>3. sent \in Seq(Strokes) /\ Len(sent) \in Nat
  BY <1>2 DEF AllButMods
<1> DEFINE FromEnd(n) == sent[Len(sent) + 1 - n]
           Ups == {Up(k) : k \in Mods}
<1>4. PICK ups : ups = [n \in 1..Len(sent) |->
        IF FromEnd(n).do = "down" /\ FromEnd(n).key \in Mods THEN <<Up(FromEnd(n).key)>> ELSE <<>>]
  OBVIOUS
<1>5. Len(ups) = Len(sent) /\ ups \in Seq(Seq(Ups))
  <2>1. \A n \in 1..Len(sent) : ups[n] \in Seq(Ups)
    <3>1. ASSUME NEW n \in 1..Len(sent), FromEnd(n).do = "down", FromEnd(n).key \in Mods PROVE ups[n] \in Seq(Ups)
      <4>1. ups[n] = <<Up(FromEnd(n).key)>>
        BY <1>4, <3>1
      <4>2. Up(FromEnd(n).key) \in Ups
        BY <3>1
      <4>3. QED
        BY <4>1, <4>2
    <3>2. ASSUME NEW n \in 1..Len(sent), ~(FromEnd(n).do = "down" /\ FromEnd(n).key \in Mods) PROVE ups[n] \in Seq(Ups)
      BY <1>4, <3>2, EmptySeq
    <3>3. QED
      BY <3>1, <3>2
  <2>2. ups = [n \in 1..Len(sent) |-> ups[n]]
    BY <1>4
  <2>3. QED
    BY <1>3, <2>1, <2>2
<1>6. PICK rel : rel = Joined(ups)
  OBVIOUS
<1>7. rel \in Seq(Ups)
  <2>1. Len(ups) \in Nat /\ \A n \in 1..Len(ups) : ups[n] \in Seq(Ups)
    BY <1>3, <1>5
  <2>2. <<>> \in Seq(Ups) /\ \A a, b \in Seq(Ups) : a \o b \in Seq(Ups)
    BY EmptySeq
  <2>3. QED
    BY <1>6, <2>1, <2>2, JoinedStays
<1>8. \A u \in Ups : u \in Strokes /\ u.do = "up" /\ u.key \in Mods
  BY KeySorts DEF Up, Strokes
<1>9. rel \in Seq(Strokes) /\ \A i \in 1..Len(rel) : rel[i].do = "up"
  BY <1>7, <1>8
<1>10. ASSUME NEW n \in 1..Len(sent), sent[n].do = "down", sent[n].key \in Mods
       PROVE  \E q \in 1..Len(rel) : rel[q] = Up(sent[n].key)
  <2>1. PICK i \in 1..Len(sent) : i = Len(sent) + 1 - n /\ FromEnd(i) = sent[n]
    <3>1. Len(sent) + 1 - n \in 1..Len(sent) /\ Len(sent) + 1 - (Len(sent) + 1 - n) = n
      BY <1>3
    <3>2. QED
      BY <3>1
  <2>2. ups[i] = <<Up(sent[n].key)>>
    BY <1>4, <1>10, <2>1
  <2>3. 1 \in 1..Len(ups[i]) /\ ups[i][1] = Up(sent[n].key)
    BY <2>2
  <2>4. i \in 1..Len(ups)
    BY <1>5, <2>1
  <2> HIDE DEF Ups, FromEnd
  <2>5. \E j \in 1..Len(Joined(ups)) : Joined(ups)[j] = ups[i][1]
    <3>1. ups \in Seq(Seq(Ups))
      BY <1>5
    <3>2. \A m \in 1..Len(ups) : \A k \in 1..Len(ups[m]) : \E j \in 1..Len(Joined(ups)) : Joined(ups)[j] = ups[m][k]
      BY <3>1, JoinedHolds, Zenon
    <3>3. QED
      BY <2>3, <2>4, <3>2, Zenon
  <2>6. QED
    BY <1>6, <2>3, <2>5
<1> DEFINE es == sent \o rel
<1>11. es \in Seq(Strokes) /\ Len(es) = Len(sent) + Len(rel) /\ Len(rel) \in Nat
  BY <1>3, <1>9
<1>12. (\A i \in 1..Len(sent) : es[i] = sent[i]) /\ \A i \in 1..Len(rel) : es[Len(sent) + i] = rel[i]
  BY <1>3, <1>9, After
<1>13. \A i \in 1..Len(sent) : ComesUp(sent, i) => ComesUp(es, i)
  BY <1>3, <1>9, ComesUpStays
<1> HIDE DEF es, Ups, FromEnd
<1>14. \A i \in 1..Len(es) : ~Stops(es[i])
  <2>1. \A i \in 1..Len(es) : es[i] \in Strokes
    BY <1>11
  <2>2. QED
    BY <2>1, StrokesGoOn
<1>15. ASSUME NEW i \in 1..Len(es), es[i].do = "down" PROVE ComesUp(es, i)
  <2>1. i \in 1..Len(sent)
    <3>1. CASE i \notin 1..Len(sent)
      <4>1. PICK j \in 1..Len(rel) : i = Len(sent) + j
        <5>1. i - Len(sent) \in 1..Len(rel) /\ i = Len(sent) + (i - Len(sent))
          BY <1>3, <1>11, <3>1
        <5>2. QED
          BY <5>1
      <4>2. es[i] = rel[j]
        BY <1>12, <4>1
      <4>3. QED
        BY <1>9, <1>15, <4>2
    <3>2. QED
      BY <3>1
  <2>2. es[i] = sent[i]
    BY <1>12, <2>1
  <2>3. ComesUp(sent, i) \/ sent[i].key \in Mods
    BY <1>2, <1>15, <2>1, <2>2 DEF AllButMods
  <2>4. CASE ComesUp(sent, i)
    BY <1>13, <2>1, <2>4
  <2>5. CASE sent[i].key \in Mods
    <3>1. PICK q \in 1..Len(rel) : rel[q] = Up(sent[i].key)
      BY <1>10, <1>15, <2>1, <2>2, <2>5
    <3>2. Len(sent) + q \in i + 1..Len(es)
      BY <1>3, <1>11, <2>1
    <3>3. es[Len(sent) + q] = Up(es[i].key)
      BY <1>12, <2>2, <3>1
    <3>4. \A j \in i..Len(sent) + q : ~Stops(es[j])
      <4>1. ASSUME NEW j \in i..Len(sent) + q PROVE j \in 1..Len(es)
        BY <1>3, <1>11, <2>1
      <4>2. QED
        BY <1>14, <4>1
    <3>5. PICK m \in i + 1..Len(es) : m = Len(sent) + q
      BY <3>2
    <3>6. es[m].do = "up" /\ es[m].key = es[i].key
      BY <3>3, <3>5 DEF Up
    <3>7. QED
      BY <3>4, <3>5, <3>6 DEF ComesUp
  <2>6. QED
    BY <2>3, <2>4, <2>5
<1>16. es \in Released
  BY <1>11, <1>15 DEF Released, AllUp
<1>17. KeyPress(keys) = <<Elevation>> \o sent \o rel
  BY <1>1, <1>4, <1>6, Zenon DEF KeyPress, parts, FromEnd
<1>18. (<<Elevation>> \o sent) \o rel = <<Elevation>> \o es
  <2>1. <<Elevation>> \in Seq(Event) /\ sent \in Seq(Event) /\ rel \in Seq(Event)
    <3>1. Elevation \in Event
      BY DEF Elevation, Event
    <3>2. Strokes \subseteq Event
      BY StrokesGoOn
    <3>3. QED
      BY <1>3, <1>9, <3>1, <3>2
  <2>2. QED
    BY <2>1, ConcatAssociative DEF es
<1>19. QED
  BY <1>16, <1>17, <1>18

\* A call whose first event is an input, and that releases what it presses.
WellSent(es) == es \in Seq(Event) /\ FirstIsInput(es) /\ AllUp(es)

LEMMA EventSorts ==
  /\ Elevation \in Event /\ Refuse \in Event /\ Classify \in Event /\ Scroll[1] \in Event
  /\ \A p \in ScreenPoints : MoveTo(p) \in Event
  /\ \A k \in Keys : Down(k) \in Event /\ Up(k) \in Event
  /\ Strokes \subseteq Event
<1>1. Strokes \subseteq Event
  BY StrokesGoOn
<1>2. QED
  BY <1>1 DEF Elevation, Refuse, Classify, Scroll, MoveTo, Down, Up, Event

LEMMA OneEvent ==
  ASSUME NEW e \in Event, e.do # "down"
  PROVE  <<e>> \in Seq(Event) /\ AllUp(<<e>>) /\ (e.do # "classify" => WellSent(<<e>>))
  BY DEF AllUp, WellSent, FirstIsInput

LEMMA ThenReleased ==
  ASSUME NEW a, WellSent(a), NEW b \in Seq(Event), AllUp(b)
  PROVE  WellSent(a \o b)
<1>1. a \in Seq(Event) /\ a # <<>> /\ a[1].do # "classify" /\ AllUp(a)
  BY DEF WellSent, FirstIsInput
<1>2. a \o b \in Seq(Event) /\ AllUp(a \o b)
  BY <1>1, ConcatUp
<1>3. 1 \in 1..Len(a)
  BY <1>1
<1>4. 1 \in 1..Len(a \o b) /\ (a \o b)[1] = a[1]
  BY <1>1, <1>3, After
<1>5. a \o b # <<>>
  BY <1>2, <1>4
<1>6. QED
  BY <1>1, <1>2, <1>4, <1>5 DEF WellSent, FirstIsInput

LEMMA ReleasedEvents == \A es \in Released : es \in Seq(Event) /\ AllUp(es)
<1>1. Strokes \subseteq Event
  BY StrokesGoOn
<1>2. QED
  BY <1>1 DEF Released

LEMMA SelectAllSent == WellSent(SelectAll)
<1> DEFINE inner == SendVKPress("a")
<1>1. "a" \in Keys /\ "ctrl" \in Keys
  BY DEF Keys, Mods, AlNum
<1>2. SelectAll \in Seq(Event)
  BY <1>1, EventSorts DEF SelectAll
<1>3. Len(SelectAll) = 5 /\ SelectAll[1] = Elevation /\ SelectAll[2] = Down("ctrl") /\ SelectAll[3] = Down("a")
      /\ SelectAll[4] = Up("a") /\ SelectAll[5] = Up("ctrl")
  BY DEF SelectAll
<1>4. \A j \in 2..5 : ~Stops(SelectAll[j])
  BY <1>3 DEF Down, Up, Stops
<1>5. ComesUp(SelectAll, 2) /\ ComesUp(SelectAll, 3)
  BY <1>3, <1>4 DEF ComesUp, Down, Up
<1>6. AllUp(SelectAll)
  BY <1>3, <1>5 DEF AllUp, Up, Elevation
<1>7. FirstIsInput(SelectAll)
  BY <1>3 DEF FirstIsInput, SelectAll, Elevation
<1>8. QED
  BY <1>2, <1>6, <1>7 DEF WellSent

\* What a request sends fits, begins with an input, and leaves down only what it asked to.
LEMMA EventsFit ==
  ASSUME NEW r \in InputRequests
  PROVE  Events(r) \in Seq(Event) /\ FirstIsInput(Events(r)) /\ (LeavesDown(r) \/ AllUp(Events(r)))
<1>wr. WellSent(<<Refuse>>) /\ WellSent(<<Elevation>>) /\ WellSent(Scroll)
  <2>1. Refuse.do = "refuse" /\ Elevation.do = "elevation" /\ Scroll[1].do = "wheel" /\ Scroll = <<Scroll[1]>>
    BY DEF Refuse, Elevation, Scroll
  <2>2. QED
    BY <2>1, EventSorts, OneEvent
<1>wm. \A p \in ScreenPoints : WellSent(<<MoveTo(p)>>)
  <2>1. \A p \in ScreenPoints : MoveTo(p).do = "move"
    BY DEF MoveTo
  <2>2. QED
    BY <2>1, EventSorts, OneEvent
<1>1. CASE r.tool = "click"
  <2> DEFINE parts == [n \in 1..r.times |-> SendVKPress("left")]
             presses == Joined(parts)
  <2>1. presses \in Released
    <3>1. r.times \in Nat
      BY <1>1, InputRequestsAssumption
    <3>2. Len(parts) \in Nat /\ \A n \in 1..Len(parts) : parts[n] \in Released
      BY <3>1, KeySorts, PressReleased
    <3> HIDE DEF parts
    <3>3. QED
      BY <3>2, ReleasedConcat, JoinedStays
  <2>2. CASE r.at \in ScreenPoints
    <3>1. <<Classify>> \in Seq(Event) /\ AllUp(<<Classify>>)
      BY EventSorts, OneEvent DEF Classify
    <3>2. WellSent(<<MoveTo(r.at)>> \o presses)
      BY <1>wm, <2>1, <2>2, ReleasedEvents, ThenReleased
    <3>3. WellSent(<<MoveTo(r.at)>> \o presses \o <<Classify>>)
      BY <3>1, <3>2, ThenReleased
    <3>4. Events(r) = <<MoveTo(r.at)>> \o presses \o <<Classify>>
      BY <1>1, <2>2 DEF Events, Click
    <3>5. QED
      BY <3>3, <3>4 DEF WellSent
  <2>3. CASE r.at \notin ScreenPoints
    <3>1. Events(r) = <<Refuse>>
      BY <1>1, <2>3 DEF Events, Click
    <3>2. QED
      BY <1>wr, <3>1 DEF WellSent
  <2>4. QED
    BY <2>2, <2>3
<1>2. CASE r.tool = "drag"
  <2>1. CASE r.at \notin ScreenPoints \/ r.to \notin ScreenPoints
    <3>1. Events(r) = <<Refuse>>
      BY <1>2, <2>1 DEF Events, Drag
    <3>2. QED
      BY <1>wr, <3>1 DEF WellSent
  <2>2. CASE r.at \in ScreenPoints /\ r.to \in ScreenPoints
    <3> DEFINE d == [do |-> "down", key |-> "left", to |-> r.at]
               u == [do |-> "up", key |-> "left", to |-> r.to]
               es == <<d, MoveTo(r.at), MoveTo(r.to), u>>
    <3>1. Events(r) = es
      BY <1>2, <2>2 DEF Events, Drag
    <3>2. d \in Event /\ u \in Event
      BY <2>2, KeySorts DEF Event
    <3>3. es \in Seq(Event)
      BY <2>2, <3>2, EventSorts
    <3>4. Len(es) = 4 /\ es[1] = d /\ es[2] = MoveTo(r.at) /\ es[3] = MoveTo(r.to) /\ es[4] = u
      OBVIOUS
    <3> HIDE DEF es
    <3>5. \A j \in 1..4 : ~Stops(es[j])
      BY <3>4 DEF MoveTo, Stops
    <3>6. ComesUp(es, 1)
      BY <3>4, <3>5 DEF ComesUp
    <3>7. AllUp(es)
      BY <3>4, <3>6 DEF AllUp, MoveTo
    <3>8. FirstIsInput(es)
      BY <3>4 DEF FirstIsInput, es
    <3>9. QED
      BY <3>1, <3>3, <3>7, <3>8
  <2>3. QED
    BY <2>1, <2>2
<1>3. CASE r.tool = "scroll"
  BY <1>wr, <1>3 DEF Events, WellSent
<1>4. CASE r.tool \in {"move_mouse", "hover"}
  <2>1. Events(r) = IF r.at \in ScreenPoints THEN <<MoveTo(r.at)>> ELSE <<Refuse>>
    BY <1>4 DEF Events
  <2>2. QED
    BY <1>wr, <1>wm, <2>1 DEF WellSent
<1>5. CASE r.tool \in {"mouse_down", "mouse_up"}
  <2>1. PICK e \in Event : Events(r) = ButtonAt(r.at, e) /\ (e.do = "down" => LeavesDown(r)) /\ e.do # "classify"
    <3>1. CASE r.tool = "mouse_down"
      BY <3>1, KeySorts, EventSorts DEF Events, Down, LeavesDown
    <3>2. CASE r.tool = "mouse_up"
      BY <3>2, KeySorts, EventSorts DEF Events, Up
    <3>3. QED
      BY <1>5, <3>1, <3>2
  <2>2. CASE r.at \in ScreenPoints
    <3>1. Events(r) = <<MoveTo(r.at), e>>
      BY <2>1, <2>2 DEF ButtonAt
    <3>2. <<MoveTo(r.at), e>> \in Seq(Event)
      BY <2>2, EventSorts
    <3>3. FirstIsInput(<<MoveTo(r.at), e>>)
      BY DEF FirstIsInput, MoveTo
    <3>4. e.do # "down" => AllUp(<<MoveTo(r.at), e>>)
      BY DEF AllUp, MoveTo
    <3>5. QED
      BY <2>1, <3>1, <3>2, <3>3, <3>4
  <2>3. CASE r.at \notin ScreenPoints
    BY <1>wr, <2>1, <2>3 DEF ButtonAt, WellSent
  <2>4. QED
    BY <2>2, <2>3
<1>6. CASE r.tool = "key_press"
  <2>1. Len(r.keys) \in Nat
    <3>1. r.keys \in Seq(Seq(STRING))
      BY <1>6, InputRequestsAssumption
    <3>2. QED
      BY <3>1
  <2>2. PICK es \in Released : KeyPress(r.keys) = <<Elevation>> \o es
    BY <2>1, KeyPressReleased
  <2>3. WellSent(<<Elevation>> \o es)
    BY <1>wr, ReleasedEvents, ThenReleased
  <2>4. Events(r) = <<Elevation>> \o es
    BY <1>6, <2>2 DEF Events
  <2>5. QED
    BY <2>3, <2>4 DEF WellSent
<1>7. CASE r.tool \in {"key_down", "key_up"}
  <2>1. r.key \in Keys
    BY <1>7 DEF Keys
  <2>2. PICK e \in Event : Events(r) = <<Elevation, e>> /\ (e.do = "down" => LeavesDown(r))
    <3>1. CASE r.tool = "key_down"
      BY <2>1, <3>1, EventSorts DEF Events, LeavesDown
    <3>2. CASE r.tool = "key_up"
      BY <2>1, <3>2, EventSorts DEF Events, Up
    <3>3. QED
      BY <1>7, <3>1, <3>2
  <2>3. <<Elevation, e>> \in Seq(Event)
    BY EventSorts
  <2>4. FirstIsInput(<<Elevation, e>>)
    BY DEF FirstIsInput, Elevation
  <2>5. e.do # "down" => AllUp(<<Elevation, e>>)
    BY DEF AllUp, Elevation
  <2>6. QED
    BY <2>2, <2>3, <2>4, <2>5
<1>8. CASE r.tool = "type"
  <2>1. r.text \in Seq(STRING)
    BY <1>8, InputRequestsAssumption
  <2>2. WellSent(<<Elevation>> \o TypeText(r.text))
    BY <1>wr, <2>1, TextReleased, ReleasedEvents, ThenReleased
  <2>3. Events(r) = <<Elevation>> \o TypeText(r.text)
    BY <1>8 DEF Events
  <2>4. QED
    BY <2>2, <2>3 DEF WellSent
<1>9. CASE r.tool = "type_and_submit"
  <2>1. r.text \in Seq(STRING)
    BY <1>9, InputRequestsAssumption
  <2> DEFINE typed == Joined([n \in 1..Len(r.text) |-> SendCharWithVK(r.text[n])])
  <2>2. WellSent(<<Elevation>> \o typed)
    BY <1>wr, <2>1, TextReleased, ReleasedEvents, ThenReleased
  <2>3. KeyPress(<<<<"enter">>>>) \in Seq(Event) /\ AllUp(KeyPress(<<<<"enter">>>>))
    <3>1. Len(<<<<"enter">>>>) \in Nat
      OBVIOUS
    <3>2. PICK es \in Released : KeyPress(<<<<"enter">>>>) = <<Elevation>> \o es
      BY <3>1, KeyPressReleased
    <3>3. QED
      BY <1>wr, <3>2, ReleasedEvents, ThenReleased DEF WellSent
  <2>4. WellSent(<<Elevation>> \o typed \o KeyPress(<<<<"enter">>>>))
    BY <2>2, <2>3, ThenReleased
  <2>5. Events(r) = <<Elevation>> \o typed \o KeyPress(<<<<"enter">>>>)
    BY <1>9 DEF Events, TypeAndSubmit
  <2>6. QED
    BY <2>4, <2>5 DEF WellSent
<1>10. CASE r.tool = "select_all_and_type"
  <2>1. r.text \in Seq(STRING)
    BY <1>10, InputRequestsAssumption
  <2>2. WellSent(SelectAll \o <<Elevation>>)
    BY <1>wr, SelectAllSent, ThenReleased DEF WellSent
  <2>3. WellSent(SelectAll \o <<Elevation>> \o TypeText(r.text))
    BY <2>1, <2>2, TextReleased, ReleasedEvents, ThenReleased
  <2>4. Events(r) = SelectAll \o <<Elevation>> \o TypeText(r.text)
    BY <1>10 DEF Events
  <2>5. QED
    BY <2>3, <2>4 DEF WellSent
<1>11. QED
  BY <1>1, <1>2, <1>3, <1>4, <1>5, <1>6, <1>7, <1>8, <1>9, <1>10, InputRequestsAssumption

\* What the rest of a call's events still release.
LEMMA RestReleases ==
  ASSUME NEW es \in Seq(Event), es # <<>>
  PROVE  /\ Tail(es) \in Seq(Event) /\ es[1] \in Event /\ Head(es) = es[1]
         /\ AllUp(es) => AllUp(Tail(es))
         /\ \A k : Releases(es, k) => ~Stops(es[1]) /\ (Releases(Tail(es), k) \/ (es[1].do = "up" /\ es[1].key = k))
         /\ AllUp(es) /\ es[1].do = "down" => Releases(Tail(es), es[1].key)
<1> DEFINE ts == Tail(es)
<1>1. ts \in Seq(Event) /\ Len(es) \in Nat /\ Len(ts) = Len(es) - 1 /\ 1 \in 1..Len(es)
      /\ es[1] \in Event /\ Head(es) = es[1]
  OBVIOUS
<1>2. \A i \in 1..Len(ts) : ts[i] = es[i + 1]
  BY HeadTailProperties
<1> HIDE DEF ts
<1>3. ASSUME NEW n \in 1..Len(ts), ComesUp(es, n + 1) PROVE ComesUp(ts, n)
  <2>1. PICK m \in n + 1 + 1..Len(es) : es[m].do = "up" /\ es[m].key = es[n + 1].key /\ \A j \in n + 1..m : ~Stops(es[j])
    BY <1>3 DEF ComesUp
  <2>2. PICK l \in n + 1..Len(ts) : m = l + 1
    <3>1. m - 1 \in n + 1..Len(ts) /\ m = (m - 1) + 1
      BY <1>1
    <3>2. QED
      BY <3>1
  <2>3. l \in 1..Len(ts)
    BY <1>1
  <2>4. ts[l] = es[m] /\ ts[n] = es[n + 1]
    BY <1>2, <2>2, <2>3
  <2>5. ASSUME NEW j \in n..l PROVE ~Stops(ts[j])
    <3>1. j \in 1..Len(ts) /\ j + 1 \in n + 1..m
      BY <1>1, <2>2
    <3>2. QED
      BY <1>2, <2>1, <3>1
  <2>6. QED
    BY <2>1, <2>4, <2>5 DEF ComesUp
<1>4. ASSUME AllUp(es) PROVE AllUp(ts)
  <2>1. ASSUME NEW n \in 1..Len(ts), ts[n].do = "down" PROVE ComesUp(ts, n)
    <3>1. n + 1 \in 1..Len(es) /\ es[n + 1].do = "down"
      BY <1>1, <1>2, <2>1
    <3>2. QED
      BY <1>3, <1>4, <3>1 DEF AllUp
  <2>2. QED
    BY <2>1 DEF AllUp
<1>5. ASSUME NEW k, NEW m \in 2..Len(es), es[m].do = "up", es[m].key = k, \A j \in 2..m : ~Stops(es[j])
      PROVE  Releases(ts, k)
  <2>1. PICK l \in 1..Len(ts) : m = l + 1
    <3>1. m - 1 \in 1..Len(ts) /\ m = (m - 1) + 1
      BY <1>1
    <3>2. QED
      BY <3>1
  <2>2. ts[l] = es[m]
    BY <1>2, <2>1
  <2>3. ASSUME NEW j \in 1..l PROVE ~Stops(ts[j])
    <3>1. j \in 1..Len(ts) /\ j + 1 \in 2..m
      BY <1>1, <2>1
    <3>2. QED
      BY <1>2, <1>5, <3>1
  <2>4. QED
    BY <1>5, <2>2, <2>3 DEF Releases
<1>6. ASSUME NEW k, Releases(es, k)
      PROVE  ~Stops(es[1]) /\ (Releases(ts, k) \/ (es[1].do = "up" /\ es[1].key = k))
  <2>1. PICK m \in 1..Len(es) : es[m].do = "up" /\ es[m].key = k /\ \A j \in 1..m : ~Stops(es[j])
    BY <1>6 DEF Releases
  <2>2. CASE m = 1
    BY <2>1, <2>2
  <2>3. CASE m # 1
    <3>1. m \in 2..Len(es) /\ 1 \in 1..m /\ \A j \in 2..m : j \in 1..m
      BY <1>1, <2>3
    <3>2. QED
      BY <1>5, <2>1, <3>1
  <2>4. QED
    BY <2>2, <2>3
<1>7. ASSUME AllUp(es), es[1].do = "down" PROVE Releases(ts, es[1].key)
  <2>1. PICK m \in 1 + 1..Len(es) : es[m].do = "up" /\ es[m].key = es[1].key /\ \A j \in 1..m : ~Stops(es[j])
    BY <1>1, <1>7 DEF AllUp, ComesUp
  <2>2. m \in 2..Len(es) /\ \A j \in 2..m : j \in 1..m
    BY <1>1
  <2>3. QED
    BY <1>5, <2>1, <2>2
<1>8. QED
  BY <1>1, <1>4, <1>6, <1>7 DEF ts

\* A call that has been made has all its fields.
LEMMA CallTyped ==
  ASSUME InputTypes, NEW c \in InputCallers, inputCall[c].at # "idle"
  PROVE  inputCall[c] \in InputCalls
<1>1. inputCall[c] \in InputCalls \cup {NoInputCall}
  BY DEF InputTypes
<1>2. NoInputCall.at = "idle"
  BY DEF NoInputCall
<1>3. QED
  BY <1>1, <1>2

LEMMA InputInitInv == InputInit => InputInv
<1> SUFFICES ASSUME InputInit PROVE InputInv
  OBVIOUS
<1>1. InputTypes
  <2>1. cursor \in Points
    BY DEF InputInit, Points
  <2>2. inputCall \in [InputCallers -> InputCalls \cup {NoInputCall}]
    BY DEF InputInit
  <2>3. shown \in Screens /\ elevated \in BOOLEAN
    BY DEF InputInit, Screens
  <2>4. QED
    BY <2>1, <2>2, <2>3 DEF InputInit, InputTypes
<1>2. \A c \in InputCallers : inputCall[c].at = "idle"
  BY DEF InputInit, NoInputCall
<1>3. AllOwed /\ SlotNewest
  BY DEF InputInit, AllOwed, SlotNewest
<1>4. ValidatedOnce /\ \A c \in InputCallers : CallFits(inputCall[c])
  BY <1>2 DEF ValidatedOnce, CallFits, StillUp, Noted, Numbered
<1>5. QED
  BY <1>1, <1>3, <1>4 DEF InputInv

\* One call goes on and the machine stays as it is.
LEMMA OneCallGoes ==
  ASSUME InputInv, NEW c \in InputCallers, NEW new \in InputCalls,
         inputCall' = [inputCall EXCEPT ![c] = new],
         UNCHANGED <<deskVars, worldVars, slotVars>>,
         interleaved' \in SUBSET InputCallers, inputCalls' \in Nat,
         CallFits(new), \A k : Owes(inputCall[c], k) => Owes(new, k), new.at = "ok" => new.validated = 0
  PROVE  InputInv'
<1>1. inputCall' \in [InputCallers -> InputCalls \cup {NoInputCall}]
  BY DEF InputInv, InputTypes
<1>2. inputCall'[c] = new /\ \A d \in InputCallers \ {c} : inputCall'[d] = inputCall[d]
  BY DEF InputInv, InputTypes
<1>3. InputTypes'
  BY <1>1 DEF InputInv, InputTypes, deskVars, worldVars, slotVars
<1>4. AllOwed'
  <2>1. ASSUME NEW k \in held \ kept PROVE \E d \in InputCallers : Owes(inputCall'[d], k)
    <3>1. PICK d \in InputCallers : Owes(inputCall[d], k)
      BY DEF InputInv, AllOwed
    <3>2. Owes(inputCall'[d], k)
      BY <1>2, <3>1
    <3>3. QED
      BY <3>2
  <2>2. held' = held /\ kept' = kept
    BY DEF deskVars
  <2>3. QED
    BY <2>1, <2>2 DEF AllOwed
<1>5. SlotNewest'
  BY DEF InputInv, SlotNewest, slotVars
<1>6. \A d \in InputCallers : CallFits(inputCall[d])'
  <2>1. ASSUME NEW d \in InputCallers \ {c} PROVE CallFits(inputCall[d])'
    <3>1. CallFits(inputCall[d]) /\ inputCall'[d] = inputCall[d]
      BY <1>2 DEF InputInv
    <3>2. QED
      BY <3>1 DEF CallFits, StillUp, Noted, Numbered, worldVars, slotVars
  <2>2. CallFits(inputCall[c])'
    BY <1>2 DEF CallFits, StillUp, Noted, Numbered, worldVars, slotVars
  <2>3. QED
    BY <2>1, <2>2
<1>7. ValidatedOnce'
  <2>1. ASSUME NEW d \in InputCallers, inputCall'[d].at = "ok", inputCall'[d].validated # 0
        PROVE  /\ inputCall'[d].validated >= inputCall'[d].mine
               /\ \A e \in InputCallers \ {d} : inputCall'[e].at = "ok" => inputCall'[e].validated # inputCall'[d].validated
    <3>1. d # c /\ inputCall'[d] = inputCall[d]
      BY <1>2, <2>1
    <3>2. ValidatedOnce
      BY DEF InputInv
    <3>3. inputCall[d].validated >= inputCall[d].mine
      BY <2>1, <3>1, <3>2 DEF ValidatedOnce
    <3>4. ASSUME NEW e \in InputCallers \ {d}, inputCall'[e].at = "ok" PROVE inputCall'[e].validated # inputCall[d].validated
      <4>1. CASE e = c
        BY <1>2, <2>1, <3>1, <3>4, <4>1
      <4>2. CASE e # c
        BY <1>2, <2>1, <3>1, <3>2, <3>4, <4>2 DEF ValidatedOnce
      <4>3. QED
        BY <4>1, <4>2
    <3>5. QED
      BY <3>1, <3>3, <3>4
  <2>2. QED
    BY <2>1 DEF ValidatedOnce
<1>8. QED
  BY <1>3, <1>4, <1>5, <1>6, <1>7 DEF InputInv

LEMMA InputBeginKeeps ==
  ASSUME InputInv, NEW c \in InputCallers, NEW r \in InputRequests, InputBegin(c, r)
  PROVE  InputInv'
<1>t. InputTypes
  BY DEF InputInv
<1>1. PICK new : new = [at |-> IF r.pre.kind = "none" THEN "send" ELSE "pre1", r |-> r, todo |-> Events(r),
                      got |-> <<>>, before |-> shown, since |-> {}, verified |-> FALSE,
                      mine |-> 0, validated |-> 0, from |-> held \cup (IF elevated THEN Mods ELSE {})]
  OBVIOUS
<1>2. inputCall' = [inputCall EXCEPT ![c] = new]
  BY <1>1, <1>t DEF InputBegin, InputTypes
<1>3. new \in InputCalls
  <2>1. Events(r) \in Seq(Event) /\ <<>> \in Seq(Arrival)
    BY EventsFit, EmptySeq
  <2>2. held \cup (IF elevated THEN Mods ELSE {}) \in SUBSET Keys
    BY <1>t, KeySorts DEF InputTypes
  <2>3. shown \in Screens
    BY <1>t DEF InputTypes
  <2>4. (IF r.pre.kind = "none" THEN "send" ELSE "pre1") \in
           {"pre1", "pre2", "send", "post1", "post2", "answer", "ok", "failed"}
    OBVIOUS
  <2>5. QED
    BY <1>1, <2>1, <2>2, <2>3, <2>4 DEF InputCalls
<1>4. new.at \in {"send", "pre1"} /\ new.r = r /\ new.todo = Events(r) /\ new.got = <<>> /\ new.verified = FALSE
      /\ new.mine = 0 /\ new.validated = 0
  BY <1>1
<1>5. CallFits(new)
  <2>1. StillUp(new) /\ Noted(new)
    BY <1>4, EventsFit DEF StillUp, Noted
  <2>2. Numbered(new)
    BY <1>4, <1>t DEF Numbered, InputTypes
  <2>3. QED
    BY <2>1, <2>2 DEF CallFits
<1>6. \A k : ~Owes(inputCall[c], k)
  BY DEF InputBegin, InFlight, Owes
<1>7. interleaved' \in SUBSET InputCallers /\ inputCalls' \in Nat
  BY <1>t DEF InputBegin, InputTypes
<1>8. UNCHANGED <<deskVars, worldVars, slotVars>>
  BY DEF InputBegin
<1>9. QED
  BY <1>2, <1>3, <1>4, <1>5, <1>6, <1>7, <1>8, OneCallGoes

LEMMA LookBeforeKeeps ==
  ASSUME InputInv, NEW c \in InputCallers, LookBefore(c)
  PROVE  InputInv'
<1>t. InputTypes /\ CallFits(inputCall[c])
  BY DEF InputInv
<1>1. inputCall[c].at \in {"pre1", "post1"}
  BY DEF LookBefore
<1>2. inputCall[c] \in InputCalls
  BY <1>1, <1>t, CallTyped
<1>3. PICK at : at = (IF inputCall[c].at = "pre1" THEN "pre2" ELSE "post2")
  OBVIOUS
<1>4. PICK new : new = [inputCall[c] EXCEPT !.before = shown, !.at = at]
  OBVIOUS
<1>5. inputCall' = [inputCall EXCEPT ![c] = new]
  BY <1>3, <1>4, <1>t, <1>2 DEF LookBefore, InputTypes, InputCalls
<1>6. at \in {"pre2", "post2"} /\ shown \in Screens
  BY <1>3, <1>t DEF InputTypes
<1>7. new \in InputCalls
  BY <1>2, <1>4, <1>6 DEF InputCalls
<1>8. /\ new.at = at /\ new.r = inputCall[c].r /\ new.todo = inputCall[c].todo /\ new.got = inputCall[c].got
      /\ new.verified = inputCall[c].verified /\ new.since = inputCall[c].since
      /\ new.mine = inputCall[c].mine /\ new.validated = inputCall[c].validated
  BY <1>2, <1>4 DEF InputCalls
<1>9. CallFits(new)
  BY <1>t, <1>1, <1>3, <1>8 DEF CallFits, StillUp, Noted, Numbered
<1>10. \A k : ~Owes(inputCall[c], k)
  BY <1>1 DEF Owes
<1>11. interleaved' \in SUBSET InputCallers /\ inputCalls' \in Nat
  BY <1>t DEF LookBefore, InputTypes
<1>12. UNCHANGED <<deskVars, worldVars, slotVars>>
  BY DEF LookBefore
<1>13. QED
  BY <1>5, <1>6, <1>7, <1>8, <1>9, <1>10, <1>11, <1>12, OneCallGoes

\* A call that goes to at, with all else as it was.
OnlyMoved(new, call, at) ==
  /\ new.at = at /\ new.r = call.r /\ new.todo = call.todo /\ new.got = call.got
  /\ new.verified = call.verified /\ new.since = call.since /\ new.mine = call.mine /\ new.validated = call.validated
  /\ new.from = call.from
LEMMA CallAt ==
  ASSUME InputTypes, NEW c \in InputCallers, inputCall[c].at # "idle",
         NEW at \in {"pre1", "pre2", "send", "post1", "post2", "answer", "ok", "failed"},
         inputCall' = [inputCall EXCEPT ![c].at = at]
  PROVE  \E new \in InputCalls :
           /\ inputCall' = [inputCall EXCEPT ![c] = new]
           /\ OnlyMoved(new, inputCall[c], at)
<1>1. inputCall[c] \in InputCalls
  BY CallTyped
<1>2. PICK new : new = [inputCall[c] EXCEPT !.at = at]
  OBVIOUS
<1>3. inputCall' = [inputCall EXCEPT ![c] = new]
  BY <1>2
<1>4. new \in InputCalls
  BY <1>1, <1>2 DEF InputCalls
<1>5. OnlyMoved(new, inputCall[c], at)
  BY <1>1, <1>2 DEF InputCalls, OnlyMoved
<1>6. QED
  BY <1>3, <1>4, <1>5

LEMMA PreVerifyCheckKeeps ==
  ASSUME InputInv, NEW c \in InputCallers, PreVerifyCheck(c)
  PROVE  InputInv'
<1>t. InputTypes /\ CallFits(inputCall[c])
  BY DEF InputInv
<1>1. inputCall[c].at = "pre2"
  BY DEF PreVerifyCheck
<1>2. PICK at \in {"pre1", "pre2", "send", "post1", "post2", "answer", "ok", "failed"} :
        at \in {"send", "failed"} /\ inputCall' = [inputCall EXCEPT ![c].at = at]
  BY DEF PreVerifyCheck, InputGoes
<1>3. PICK new \in InputCalls :
           /\ inputCall' = [inputCall EXCEPT ![c] = new]
           /\ OnlyMoved(new, inputCall[c], at)
  <2>1. inputCall[c].at # "idle"
    BY <1>1
  <2>2. QED
    BY <1>t, <1>2, <2>1, CallAt, Zenon
<1>4. CallFits(new)
  BY <1>t, <1>1, <1>2, <1>3 DEF OnlyMoved, CallFits, StillUp, Noted, Numbered
<1>5. \A k : ~Owes(inputCall[c], k)
  BY <1>1 DEF Owes
<1>6. interleaved' \in SUBSET InputCallers /\ inputCalls' \in Nat
  BY <1>t DEF PreVerifyCheck, InputTypes
<1>7. UNCHANGED <<deskVars, worldVars, slotVars>>
  BY DEF PreVerifyCheck
<1>8. QED
  BY <1>2, <1>3, <1>4, <1>5, <1>6, <1>7, OneCallGoes DEF OnlyMoved

LEMMA InputSentKeeps ==
  ASSUME InputInv, NEW c \in InputCallers, InputSent(c)
  PROVE  InputInv'
<1>t. InputTypes /\ CallFits(inputCall[c])
  BY DEF InputInv
<1>1. inputCall[c].at = "send" /\ inputCall[c].todo = <<>>
  BY DEF InputSent
<1>2. PICK at \in {"pre1", "pre2", "send", "post1", "post2", "answer", "ok", "failed"} :
        at \in {"answer", "post1"} /\ inputCall' = [inputCall EXCEPT ![c].at = at]
  BY DEF InputSent, InputGoes
<1>3. PICK new \in InputCalls :
           /\ inputCall' = [inputCall EXCEPT ![c] = new]
           /\ OnlyMoved(new, inputCall[c], at)
  <2>1. inputCall[c].at # "idle"
    BY <1>1
  <2>2. QED
    BY <1>t, <1>2, <2>1, CallAt, Zenon
<1>4. shown \in inputCall[c].since
  BY <1>t, <1>1 DEF CallFits, Noted, FirstIsInput
<1>5. CallFits(new)
  BY <1>t, <1>1, <1>2, <1>3, <1>4 DEF OnlyMoved, CallFits, StillUp, Noted, Numbered
<1>6. \A k : ~Owes(inputCall[c], k)
  BY <1>1 DEF Owes, Releases
<1>7. interleaved' \in SUBSET InputCallers /\ inputCalls' \in Nat
  BY <1>t DEF InputSent, InputTypes
<1>8. UNCHANGED <<deskVars, worldVars, slotVars>>
  BY DEF InputSent
<1>9. QED
  BY <1>2, <1>3, <1>5, <1>6, <1>7, <1>8, OneCallGoes DEF OnlyMoved

LEMMA VerifyActionKeeps ==
  ASSUME InputInv, NEW c \in InputCallers, VerifyAction(c)
  PROVE  InputInv'
<1>t. InputTypes /\ CallFits(inputCall[c])
  BY DEF InputInv
<1>1. inputCall[c].at = "post2"
  BY DEF VerifyAction
<1>2. inputCall[c] \in InputCalls
  BY <1>1, <1>t, CallTyped
<1>3. PICK v : v = VerifyOCRResults(inputCall[c].before, shown, inputCall[c].r.post)
  OBVIOUS
<1>4. v \in BOOLEAN
  BY <1>3 DEF VerifyOCRResults
<1>5. PICK new : new = [inputCall[c] EXCEPT !.at = "answer", !.verified = v]
  OBVIOUS
<1>6. inputCall' = [inputCall EXCEPT ![c] = new]
  BY <1>3, <1>5, <1>t, <1>2 DEF VerifyAction, InputTypes, InputCalls
<1>7. new \in InputCalls
  BY <1>2, <1>4, <1>5 DEF InputCalls
<1>8. /\ new.at = "answer" /\ new.r = inputCall[c].r /\ new.todo = inputCall[c].todo /\ new.got = inputCall[c].got
      /\ new.verified = v /\ new.since = inputCall[c].since
      /\ new.mine = inputCall[c].mine /\ new.validated = inputCall[c].validated
  BY <1>2, <1>5 DEF InputCalls
<1>9. v /\ inputCall[c].r.post.kind = "text" => inputCall[c].r.post.word = shown
  BY <1>3 DEF VerifyOCRResults
<1>10. CallFits(new)
  BY <1>t, <1>1, <1>8, <1>9 DEF CallFits, StillUp, Noted, Numbered
<1>11. \A k : ~Owes(inputCall[c], k)
  BY <1>1 DEF Owes
<1>12. interleaved' \in SUBSET InputCallers /\ inputCalls' \in Nat
  BY <1>t DEF VerifyAction, InputTypes
<1>13. UNCHANGED <<deskVars, worldVars, slotVars>>
  BY DEF VerifyAction
<1>14. QED
  BY <1>6, <1>7, <1>8, <1>10, <1>11, <1>12, <1>13, OneCallGoes

LEMMA VerifiedResultKeeps ==
  ASSUME InputInv, NEW c \in InputCallers, VerifiedResult(c)
  PROVE  InputInv'
<1>t. InputTypes /\ CallFits(inputCall[c])
  BY DEF InputInv
<1>1. inputCall[c].at = "answer"
  BY DEF VerifiedResult
<1>c. inputCall[c] \in InputCalls
  BY <1>1, <1>t, CallTyped
<1>m. inputCall[c].mine \in Nat /\ clicked \in Nat /\ lastClickVal \in Nat
      /\ lastClickVal \in {0, clicked} /\ inputCall[c].mine <= clicked
  BY <1>t, <1>1, <1>c DEF InputCalls, InputTypes, InputInv, SlotNewest, CallFits, Numbered
<1>2. CASE inputCall[c].r.tool # "click"
  <2>1. inputCall' = [inputCall EXCEPT ![c].at = "ok"]
    BY <1>2 DEF VerifiedResult, InputGoes
  <2>2. PICK new \in InputCalls : inputCall' = [inputCall EXCEPT ![c] = new] /\ OnlyMoved(new, inputCall[c], "ok")
    <3>1. inputCall[c].at # "idle" /\ "ok" \in {"pre1", "pre2", "send", "post1", "post2", "answer", "ok", "failed"}
      BY <1>1
    <3>2. QED
      BY <1>t, <2>1, <3>1, CallAt, Zenon
  <2>3. CallFits(new) /\ new.validated = 0
    BY <1>t, <1>1, <2>2 DEF OnlyMoved, CallFits, StillUp, Noted, Numbered
  <2>4. \A k : ~Owes(inputCall[c], k)
    BY <1>1 DEF Owes
  <2>5. interleaved' \in SUBSET InputCallers /\ inputCalls' \in Nat
    BY <1>t DEF VerifiedResult, InputTypes
  <2>6. UNCHANGED <<deskVars, worldVars, slotVars>>
    BY <1>2 DEF VerifiedResult, slotVars
  <2>7. QED
    BY <2>2, <2>3, <2>4, <2>5, <2>6, OneCallGoes
<1>3. CASE inputCall[c].r.tool = "click"
  <2>1. PICK new : new = [inputCall[c] EXCEPT !.at = "ok", !.validated = lastClickVal]
    OBVIOUS
  <2>2. inputCall' = [inputCall EXCEPT ![c] = new]
    BY <1>3, <1>t, <1>c, <2>1 DEF VerifiedResult, InputTypes, InputCalls
  <2>3. new \in InputCalls
    BY <1>c, <1>m, <2>1 DEF InputCalls
  <2>4. /\ new.at = "ok" /\ new.r = inputCall[c].r /\ new.todo = inputCall[c].todo /\ new.got = inputCall[c].got
        /\ new.verified = inputCall[c].verified /\ new.since = inputCall[c].since
        /\ new.mine = inputCall[c].mine /\ new.validated = lastClickVal
    BY <1>c, <2>1 DEF InputCalls
  <2>5. /\ UNCHANGED <<deskVars, worldVars, clicked, interleaved, inputCalls>>
        /\ lastClickVal' = 0
    BY <1>3 DEF VerifiedResult
  <2>6. inputCall'[c] = new /\ \A d \in InputCallers \ {c} : inputCall'[d] = inputCall[d]
    BY <1>t, <2>2 DEF InputTypes
  <2>7. InputTypes'
    <3>1. inputCall' \in [InputCallers -> InputCalls \cup {NoInputCall}]
      BY <1>t, <2>2, <2>3 DEF InputTypes
    <3>2. QED
      BY <1>t, <2>5, <3>1 DEF InputTypes, deskVars, worldVars
  <2>8. AllOwed'
    <3>1. ASSUME NEW k \in held \ kept PROVE \E d \in InputCallers : Owes(inputCall'[d], k)
      <4>1. PICK d \in InputCallers : Owes(inputCall[d], k)
        BY DEF InputInv, AllOwed
      <4>2. d # c
        BY <1>1, <4>1 DEF Owes
      <4>3. QED
        BY <2>6, <4>1, <4>2
    <3>2. QED
      BY <2>5, <3>1 DEF AllOwed, deskVars
  <2>9. SlotNewest'
    BY <2>5 DEF SlotNewest
  <2>10. \A d \in InputCallers : CallFits(inputCall[d])'
    <3>1. ASSUME NEW d \in InputCallers \ {c} PROVE CallFits(inputCall[d])'
      <4>1. CallFits(inputCall[d]) /\ inputCall'[d] = inputCall[d]
        BY <2>6 DEF InputInv
      <4>2. QED
        BY <2>5, <4>1 DEF CallFits, StillUp, Noted, Numbered, worldVars
    <3>2. (StillUp(inputCall[c]) /\ Noted(inputCall[c]))'
      BY <1>t, <1>1, <2>4, <2>5, <2>6 DEF CallFits, StillUp, Noted, worldVars
    <3>3. Numbered(inputCall[c])'
      BY <1>m, <2>4, <2>5, <2>6 DEF Numbered
    <3>4. CallFits(inputCall[c])'
      BY <3>2, <3>3 DEF CallFits
    <3>5. QED
      BY <3>1, <3>4
  <2>11. ValidatedOnce'
    <3>1. ASSUME NEW d \in InputCallers, inputCall'[d].at = "ok", inputCall'[d].validated # 0
          PROVE  inputCall'[d].validated >= inputCall'[d].mine
      <4>1. CASE d = c
        BY <1>m, <2>4, <2>6, <3>1, <4>1
      <4>2. CASE d # c
        BY <2>6, <3>1, <4>2 DEF InputInv, ValidatedOnce
      <4>3. QED
        BY <4>1, <4>2
    <3>2. ASSUME NEW d \in InputCallers, inputCall'[d].at = "ok", inputCall'[d].validated # 0,
                 NEW e \in InputCallers \ {d}, inputCall'[e].at = "ok"
          PROVE  inputCall'[e].validated # inputCall'[d].validated
      <4>0. \A x \in InputCallers \ {c} : inputCall'[x].at = "ok" /\ inputCall'[x].validated # 0 => inputCall'[x].validated # lastClickVal
        BY <2>6 DEF InputInv, CallFits, Numbered
      <4>1. CASE d = c
        BY <2>4, <2>6, <3>2, <4>0, <4>1
      <4>2. CASE e = c
        BY <2>4, <2>6, <3>2, <4>0, <4>2
      <4>3. CASE d # c /\ e # c
        BY <2>6, <3>2, <4>3 DEF InputInv, ValidatedOnce
      <4>4. QED
        BY <4>1, <4>2, <4>3
    <3>3. QED
      BY <3>1, <3>2 DEF ValidatedOnce
  <2>12. QED
    BY <2>7, <2>8, <2>9, <2>10, <2>11 DEF InputInv
<1>4. QED
  BY <1>2, <1>3

LEMMA ForegroundChangesKeeps ==
  ASSUME InputInv, ForegroundChanges
  PROVE  InputInv'
<1>1. InputTypes'
  BY DEF InputInv, InputTypes, ForegroundChanges, deskVars, slotVars
<1>2. UNCHANGED <<held, kept, shown, lastClickVal, clicked, inputCall>>
  BY DEF ForegroundChanges, deskVars, slotVars
<1>3. AllOwed' /\ SlotNewest' /\ ValidatedOnce'
  BY <1>2 DEF InputInv, AllOwed, Owes, SlotNewest, ValidatedOnce
<1>4. \A c \in InputCallers : CallFits(inputCall[c])'
  BY <1>2 DEF InputInv, CallFits, StillUp, Noted, Numbered
<1>5. QED
  BY <1>1, <1>3, <1>4 DEF InputInv

LEMMA ScreenChangesKeeps ==
  ASSUME InputInv, ScreenChanges
  PROVE  InputInv'
<1>t. InputTypes
  BY DEF InputInv
<1>1. shown' \in Screens /\ changes' \in Nat
      /\ UNCHANGED <<held, kept, cursor, elevated, lastClickVal, clicked, interleaved, inputCalls>>
  BY <1>t DEF ScreenChanges, deskVars, slotVars, InputTypes, Screens
<1>2. ASSUME NEW c \in InputCallers, InFlight(c)
      PROVE  /\ inputCall'[c] \in InputCalls /\ inputCall'[c].since = inputCall[c].since \cup {shown'}
             /\ inputCall'[c].at = inputCall[c].at /\ inputCall'[c].r = inputCall[c].r /\ inputCall'[c].todo = inputCall[c].todo
             /\ inputCall'[c].got = inputCall[c].got /\ inputCall'[c].verified = inputCall[c].verified
             /\ inputCall'[c].mine = inputCall[c].mine /\ inputCall'[c].validated = inputCall[c].validated
  <2>1. inputCall[c] \in InputCalls
    BY <1>t, <1>2, CallTyped DEF InFlight
  <2>2. PICK since : since = inputCall[c].since \cup {shown'}
    OBVIOUS
  <2>3. inputCall'[c] = [inputCall[c] EXCEPT !.since = since]
    BY <1>2, <2>2 DEF ScreenChanges
  <2>4. since \in SUBSET Screens
    BY <1>1, <2>1, <2>2 DEF InputCalls
  <2>5. QED
    BY <2>1, <2>2, <2>3, <2>4 DEF InputCalls
<1>3. ASSUME NEW c \in InputCallers, ~InFlight(c) PROVE inputCall'[c] = inputCall[c] /\ inputCall'[c] \in InputCalls \cup {NoInputCall}
  BY <1>3, <1>t DEF ScreenChanges, InputTypes
<1>4. inputCall' \in [InputCallers -> InputCalls \cup {NoInputCall}]
  <2>1. \A c \in InputCallers : inputCall'[c] \in InputCalls \cup {NoInputCall}
    BY <1>2, <1>3
  <2>2. inputCall' = [c \in InputCallers |-> inputCall'[c]]
    BY DEF ScreenChanges
  <2>3. QED
    BY <2>1, <2>2
<1>5. InputTypes'
  BY <1>t, <1>1, <1>4 DEF InputTypes
<1>6. \A c \in InputCallers : inputCall'[c].at = inputCall[c].at
  BY <1>2, <1>3
<1>7. AllOwed'
  <2>1. ASSUME NEW k \in held \ kept PROVE \E d \in InputCallers : Owes(inputCall'[d], k)
    <3>1. PICK d \in InputCallers : Owes(inputCall[d], k)
      BY DEF InputInv, AllOwed
    <3>2. InFlight(d)
      BY <3>1 DEF Owes, InFlight
    <3>3. Owes(inputCall'[d], k)
      BY <1>2, <3>1, <3>2 DEF Owes
    <3>4. QED
      BY <3>3
  <2>2. QED
    BY <1>1, <2>1 DEF AllOwed
<1>8. \A c \in InputCallers : CallFits(inputCall[c])'
  <2>1. ASSUME NEW c \in InputCallers, InFlight(c) PROVE CallFits(inputCall[c])'
    <3>1. CallFits(inputCall[c])
      BY DEF InputInv
    <3>2. Noted(inputCall[c])'
      <4>1. inputCall[c].at # "ok"
        BY <2>1 DEF InFlight
      <4>2. QED
        BY <1>2, <2>1, <3>1, <4>1 DEF CallFits, Noted
    <3>3. StillUp(inputCall[c])' /\ Numbered(inputCall[c])'
      BY <1>1, <1>2, <2>1, <3>1 DEF CallFits, StillUp, Numbered
    <3>4. QED
      BY <3>2, <3>3 DEF CallFits
  <2>2. ASSUME NEW c \in InputCallers, ~InFlight(c) PROVE CallFits(inputCall[c])'
    <3>1. CallFits(inputCall[c]) /\ inputCall[c].at \in {"idle", "ok", "failed"}
      BY <2>2 DEF InputInv, InFlight
    <3>2. QED
      BY <1>1, <1>3, <2>2, <3>1 DEF CallFits, StillUp, Noted, Numbered
  <2>3. QED
    BY <2>1, <2>2
<1>9. ValidatedOnce'
  <2>1. \A c \in InputCallers : inputCall'[c].at = "ok" => inputCall'[c] = inputCall[c]
    BY <1>3, <1>6 DEF InFlight
  <2>2. QED
    BY <1>6, <2>1 DEF InputInv, ValidatedOnce
<1>10. SlotNewest'
  BY <1>1 DEF InputInv, SlotNewest
<1>11. QED
  BY <1>5, <1>7, <1>8, <1>9, <1>10 DEF InputInv

LEMMA EventFields ==
  ASSUME InputTypes, NEW e \in Event
  PROVE  /\ e.do \in {"down", "up"} => e.key \in Keys
         /\ Where(e) \in Points
         /\ e.do \in {"elevation", "refuse", "classify", "wheel"} => Where(e) = cursor
         /\ e.do \in {"elevation", "refuse", "classify", "wheel", "move", "down", "up"}
<1>1. CASE e \in [do : {"elevation", "refuse", "classify", "wheel"}]
  <2>1. DOMAIN e = {"do"} /\ e.do \in {"elevation", "refuse", "classify", "wheel"}
    BY <1>1
  <2>2. Where(e) = cursor
    BY <2>1 DEF Where
  <2>3. QED
    BY <2>1, <2>2 DEF InputTypes
<1>2. CASE e \in [do : {"move"}, to : ScreenPoints]
  <2>1. DOMAIN e = {"do", "to"} /\ e.do = "move" /\ e.to \in ScreenPoints
    BY <1>2
  <2>2. QED
    BY <2>1 DEF Where, Points
<1>3. CASE e \in [do : {"down", "up"}, key : Keys]
  <2>1. DOMAIN e = {"do", "key"} /\ e.do \in {"down", "up"} /\ e.key \in Keys
    BY <1>3
  <2>2. Where(e) = cursor
    BY <2>1 DEF Where
  <2>3. QED
    BY <2>1, <2>2 DEF InputTypes
<1>4. CASE e \in [do : {"down", "up"}, key : Keys, to : ScreenPoints]
  <2>1. DOMAIN e = {"do", "key", "to"} /\ e.do \in {"down", "up"} /\ e.key \in Keys /\ e.to \in ScreenPoints
    BY <1>4
  <2>2. QED
    BY <2>1 DEF Where, Points
<1>5. QED
  BY <1>1, <1>2, <1>3, <1>4 DEF Event

LEMMA SendInputKeeps ==
  ASSUME InputInv, NEW c \in InputCallers, SendInput(c)
  PROVE  InputInv'
<1>t. InputTypes /\ CallFits(inputCall[c])
  BY DEF InputInv
<1>1. inputCall[c].at = "send" /\ inputCall[c].todo # <<>>
  BY DEF SendInput
<1>c. inputCall[c] \in InputCalls
  BY <1>1, <1>t, CallTyped
<1>d. inputCall[c].todo \in Seq(Event) /\ inputCall[c].got \in Seq(Arrival) /\ inputCall[c].mine \in Nat /\ clicked \in Nat
      /\ lastClickVal \in Nat /\ inputCall[c].r \in InputRequests
  BY <1>c, <1>t DEF InputCalls, InputTypes
<1>2. PICK e, rest, stops : e = Head(inputCall[c].todo) /\ rest = Tail(inputCall[c].todo)
        /\ stops = (e.do = "refuse" \/ (e.do = "elevation" /\ elevated))
  OBVIOUS
<1>3. e = inputCall[c].todo[1] /\ e \in Event /\ rest \in Seq(Event) /\ stops \in BOOLEAN
  BY <1>1, <1>2, <1>d, RestReleases
<1>4. /\ e.do \in {"down", "up"} => e.key \in Keys
      /\ Where(e) \in Points
      /\ e.do \in {"elevation", "refuse", "classify", "wheel"} => Where(e) = cursor
      /\ e.do \in {"elevation", "refuse", "classify", "wheel", "move", "down", "up"}
  BY <1>3, <1>t, EventFields
<1>5. /\ held' = CASE e.do = "down" -> held \cup {e.key} [] e.do = "up" -> held \ {e.key} [] OTHER -> held
      /\ kept' = CASE e.do = "down" /\ inputCall[c].r.tool \in {"key_down", "mouse_down"} -> kept \cup {e.key}
                   [] e.do = "up" -> kept \ {e.key} [] OTHER -> kept
      /\ cursor' = IF stops THEN cursor ELSE Where(e)
      /\ IF e.do = "classify" THEN lastClickVal' = clicked + 1 /\ clicked' = clicked + 1 ELSE UNCHANGED slotVars
      /\ UNCHANGED <<worldVars, interleaved, inputCalls>>
  BY <1>2, Zenon DEF SendInput
<1>k. /\ held' = IF e.do = "down" THEN held \cup {e.key} ELSE IF e.do = "up" THEN held \ {e.key} ELSE held
      /\ kept' = IF e.do = "down" /\ LeavesDown(inputCall[c].r) THEN kept \cup {e.key}
                 ELSE IF e.do = "up" THEN kept \ {e.key} ELSE kept
  BY <1>5 DEF LeavesDown
<1>6. CASE stops
  <2>1. inputCall' = [inputCall EXCEPT ![c].at = "failed"]
    BY <1>2, <1>6 DEF SendInput, InputGoes
  <2>2. PICK new \in InputCalls : inputCall' = [inputCall EXCEPT ![c] = new] /\ OnlyMoved(new, inputCall[c], "failed")
    <3>1. inputCall[c].at # "idle" /\ "failed" \in {"pre1", "pre2", "send", "post1", "post2", "answer", "ok", "failed"}
      BY <1>1
    <3>2. QED
      BY <1>t, <2>1, <3>1, CallAt, Zenon
  <2>3. CallFits(new) /\ new.at # "ok"
    BY <2>2 DEF OnlyMoved, CallFits, StillUp, Noted, Numbered
  <2>4. \A k : ~Owes(inputCall[c], k)
    <3>1. Stops(inputCall[c].todo[1])
      BY <1>2, <1>3, <1>6 DEF Stops
    <3>2. QED
      BY <1>1, <1>d, <3>1, RestReleases DEF Owes
  <2>5. UNCHANGED <<deskVars, worldVars, slotVars>>
    BY <1>2, <1>5, <1>6, <1>k DEF deskVars
  <2>6. interleaved' \in SUBSET InputCallers /\ inputCalls' \in Nat
    BY <1>5, <1>t DEF InputTypes
  <2>7. QED
    BY <2>2, <2>3, <2>4, <2>5, <2>6, OneCallGoes
<1>7. CASE ~stops
  <2>1. PICK new \in InputCalls :
          /\ inputCall' = [inputCall EXCEPT ![c] = new]
          /\ new.at = "send" /\ new.todo = rest /\ new.r = inputCall[c].r
          /\ new.verified = inputCall[c].verified /\ new.validated = inputCall[c].validated
          /\ new.mine <= clicked' /\ shown \in new.since
    <3>1. CASE e.do = "classify"
      <4>0. PICK n \in Nat : n = clicked + 1
        BY <1>d
      <4>1. PICK new : new = [inputCall[c] EXCEPT !.todo = rest, !.mine = n]
        OBVIOUS
      <4>2. inputCall' = [inputCall EXCEPT ![c].todo = rest, ![c].mine = clicked + 1]
        BY <1>2, <1>7, <3>1 DEF SendInput
      <4>3. inputCall' = [inputCall EXCEPT ![c] = new]
        BY <1>t, <1>c, <4>0, <4>1, <4>2 DEF InputTypes, InputCalls
      <4>4. new \in InputCalls
        BY <1>c, <1>3, <4>1 DEF InputCalls
      <4>5. /\ new.at = "send" /\ new.todo = rest /\ new.r = inputCall[c].r /\ new.since = inputCall[c].since
            /\ new.verified = inputCall[c].verified /\ new.validated = inputCall[c].validated /\ new.mine = clicked + 1
        BY <1>1, <1>c, <4>0, <4>1 DEF InputCalls
      <4>6. shown \in inputCall[c].since
        BY <1>1, <1>3, <1>t, <3>1 DEF CallFits, Noted, FirstIsInput
      <4>7. new.mine <= clicked'
        BY <1>d, <1>5, <3>1, <4>5
      <4>8. QED
        BY <4>3, <4>4, <4>5, <4>6, <4>7
    <3>2. CASE e.do # "classify"
      <4>1. PICK got \in Seq(Arrival) : inputCall' = [d \in InputCallers |->
              IF d = c THEN [inputCall[c] EXCEPT !.todo = rest, !.got = got, !.since = {shown}] ELSE inputCall[d]]
        <5>1. CASE e.do = "down" /\ e.key \notin Mods
          <6>1. PICK arrival : arrival = [key |-> e.key, mods |-> held \cap Mods, at |-> Where(e)]
            OBVIOUS
          <6>2. arrival \in Arrival
            BY <1>4, <5>1, <6>1 DEF Arrival
          <6>3. Append(inputCall[c].got, arrival) \in Seq(Arrival)
            BY <1>d, <6>2
          <6>4. inputCall' = [d \in InputCallers |->
                  IF d = c THEN [inputCall[c] EXCEPT !.todo = rest, !.got = Append(inputCall[c].got, arrival), !.since = {shown}]
                  ELSE inputCall[d]]
            BY <1>2, <1>7, <5>1, <6>1 DEF SendInput
          <6>5. QED
            BY <6>3, <6>4
        <5>2. CASE ~(e.do = "down" /\ e.key \notin Mods)
          <6>1. inputCall' = [d \in InputCallers |->
                  IF d = c THEN [inputCall[c] EXCEPT !.todo = rest, !.got = inputCall[c].got, !.since = {shown}]
                  ELSE inputCall[d]]
            BY <1>2, <1>7, <3>2, <5>2 DEF SendInput
          <6>2. QED
            BY <1>d, <6>1
        <5>3. QED
          BY <5>1, <5>2
      <4>2. PICK new : new = [inputCall[c] EXCEPT !.todo = rest, !.got = got, !.since = {shown}]
        OBVIOUS
      <4>3. inputCall' = [inputCall EXCEPT ![c] = new]
        BY <1>t, <4>1, <4>2 DEF InputTypes
      <4>4. new \in InputCalls
        <5>1. {shown} \in SUBSET Screens
          BY <1>t DEF InputTypes
        <5>2. QED
          BY <1>c, <1>3, <4>2, <5>1 DEF InputCalls
      <4>5. /\ new.at = "send" /\ new.todo = rest /\ new.r = inputCall[c].r /\ new.since = {shown}
            /\ new.verified = inputCall[c].verified /\ new.validated = inputCall[c].validated /\ new.mine = inputCall[c].mine
        BY <1>1, <1>c, <4>2 DEF InputCalls
      <4>6. clicked' = clicked /\ inputCall[c].mine <= clicked
        BY <1>1, <1>5, <1>t, <3>2 DEF slotVars, CallFits, Numbered
      <4>7. QED
        BY <4>3, <4>4, <4>5, <4>6
    <3>3. QED
      BY <3>1, <3>2
  <2>2. inputCall'[c] = new /\ \A d \in InputCallers \ {c} : inputCall'[d] = inputCall[d]
    BY <1>t, <2>1 DEF InputTypes
  <2>3. clicked' \in Nat /\ clicked <= clicked' /\ lastClickVal' \in Nat
        /\ (lastClickVal' = lastClickVal \/ lastClickVal' = clicked + 1) /\ lastClickVal' \in {0, clicked'}
    BY <1>d, <1>5 DEF slotVars, InputInv, SlotNewest
  <2>4. InputTypes'
    <3>1. inputCall' \in [InputCallers -> InputCalls \cup {NoInputCall}]
      BY <1>t, <2>1 DEF InputTypes
    <3>2. held' \in SUBSET Keys /\ kept' \in SUBSET Keys
      BY <1>t, <1>4, <1>k DEF InputTypes
    <3>3. cursor' \in Points
      BY <1>t, <1>4, <1>5, <1>7
    <3>4. QED
      BY <1>t, <1>5, <2>3, <3>1, <3>2, <3>3 DEF InputTypes, worldVars
  <2>5. AllOwed'
    <3>1. ASSUME NEW k \in held' \ kept' PROVE \E d \in InputCallers : Owes(inputCall'[d], k)
      <4>1. \/ k \in held \ kept /\ ~(e.do = "up" /\ e.key = k)
            \/ e.do = "down" /\ k = e.key /\ ~LeavesDown(inputCall[c].r)
        BY <1>k, <3>1
      <4>2. CASE k \in held \ kept /\ ~(e.do = "up" /\ e.key = k)
        <5>1. PICK d \in InputCallers : Owes(inputCall[d], k)
          BY <4>2 DEF InputInv, AllOwed
        <5>2. CASE d = c
          <6>1. Releases(inputCall[c].todo, k)
            BY <5>1, <5>2 DEF Owes
          <6>2. Releases(rest, k)
            BY <1>1, <1>2, <1>3, <1>d, <4>2, <6>1, RestReleases
          <6>3. QED
            BY <2>1, <2>2, <6>2 DEF Owes
        <5>3. CASE d # c
          BY <2>2, <5>1, <5>3
        <5>4. QED
          BY <5>2, <5>3
      <4>3. CASE e.do = "down" /\ k = e.key /\ ~LeavesDown(inputCall[c].r)
        <5>1. AllUp(inputCall[c].todo)
          BY <1>1, <1>t, <4>3 DEF CallFits, StillUp
        <5>2. Releases(rest, k)
          BY <1>1, <1>2, <1>3, <1>d, <4>3, <5>1, RestReleases
        <5>3. QED
          BY <2>1, <2>2, <5>2 DEF Owes
      <4>4. QED
        BY <4>1, <4>2, <4>3
    <3>2. QED
      BY <3>1 DEF AllOwed
  <2>6. SlotNewest'
    BY <2>3 DEF SlotNewest
  <2>7. CallFits(inputCall[c])'
    <3>1. StillUp(inputCall[c])'
      <4>1. LeavesDown(inputCall[c].r) \/ AllUp(rest)
        <5>1. LeavesDown(inputCall[c].r) \/ AllUp(inputCall[c].todo)
          BY <1>1, <1>t DEF CallFits, StillUp
        <5>2. QED
          BY <1>1, <1>2, <1>d, <5>1, RestReleases
      <4>2. QED
        BY <2>1, <2>2, <4>1 DEF StillUp
    <3>2. Noted(inputCall[c])'
      <4>1. ~inputCall[c].verified
        BY <1>1, <1>t DEF CallFits, Noted
      <4>2. shown' = shown
        BY <1>5 DEF worldVars
      <4>3. QED
        BY <2>1, <2>2, <4>1, <4>2 DEF Noted
    <3>3. Numbered(inputCall[c])'
      <4>1. inputCall[c].validated = 0
        BY <1>1, <1>t DEF CallFits, Numbered
      <4>2. QED
        BY <2>1, <2>2, <2>3, <4>1 DEF Numbered
    <3>4. QED
      BY <3>1, <3>2, <3>3 DEF CallFits
  <2>8. ASSUME NEW d \in InputCallers \ {c} PROVE CallFits(inputCall[d])'
    <3>1. CallFits(inputCall[d]) /\ inputCall'[d] = inputCall[d] /\ shown' = shown
      BY <1>5, <2>2 DEF InputInv, worldVars
    <3>2. StillUp(inputCall[d])' /\ Noted(inputCall[d])'
      BY <3>1 DEF CallFits, StillUp, Noted
    <3>3. Numbered(inputCall[d])'
      <4>1. CASE inputCall[d].at \in {"idle", "failed"}
        BY <3>1, <4>1 DEF Numbered
      <4>2. CASE inputCall[d].at \notin {"idle", "failed"}
        <5>1. inputCall[d] \in InputCalls
          BY <1>t, <4>2, CallTyped
        <5>2. inputCall[d].mine \in Nat /\ inputCall[d].validated \in Nat
          BY <5>1 DEF InputCalls
        <5>3. QED
          BY <1>d, <2>3, <3>1, <4>2, <5>2 DEF CallFits, Numbered
      <4>3. QED
        BY <4>1, <4>2
    <3>4. QED
      BY <3>2, <3>3 DEF CallFits
  <2>9. ValidatedOnce'
    <3>1. \A d \in InputCallers : inputCall'[d].at = "ok" => inputCall'[d] = inputCall[d]
      BY <2>1, <2>2
    <3>2. QED
      BY <3>1 DEF InputInv, ValidatedOnce
  <2>10. QED
    BY <2>4, <2>5, <2>6, <2>7, <2>8, <2>9 DEF InputInv
<1>8. QED
  BY <1>3, <1>6, <1>7

LEMMA InputStepInv == InputInv /\ [InputNext]_inputVars => InputInv'
<1> SUFFICES ASSUME InputInv, [InputNext]_inputVars PROVE InputInv'
  OBVIOUS
<1>1. ASSUME NEW c \in InputCallers, NEW r \in InputRequests, InputBegin(c, r) PROVE InputInv'
  BY <1>1, InputBeginKeeps
<1>2. ASSUME NEW c \in InputCallers, InputStep(c) PROVE InputInv'
  <2>1. CASE LookBefore(c)
    BY <2>1, LookBeforeKeeps
  <2>2. CASE PreVerifyCheck(c)
    BY <2>2, PreVerifyCheckKeeps
  <2>3. CASE SendInput(c)
    BY <2>3, SendInputKeeps
  <2>4. CASE InputSent(c)
    BY <2>4, InputSentKeeps
  <2>5. CASE VerifyAction(c)
    BY <2>5, VerifyActionKeeps
  <2>6. CASE VerifiedResult(c)
    BY <2>6, VerifiedResultKeeps
  <2>7. QED
    BY <1>2, <2>1, <2>2, <2>3, <2>4, <2>5, <2>6 DEF InputStep
<1>3. CASE ScreenChanges
  BY <1>3, ScreenChangesKeeps
<1>4. CASE ForegroundChanges
  BY <1>4, ForegroundChangesKeeps
<1>5. CASE UNCHANGED inputVars
  <2>1. UNCHANGED <<held, cursor, kept, elevated, shown, changes, lastClickVal, clicked, inputCall, interleaved, inputCalls>>
    BY <1>5 DEF inputVars
  <2>2. InputTypes' /\ AllOwed' /\ SlotNewest' /\ ValidatedOnce'
    BY <2>1 DEF InputInv, InputTypes, AllOwed, SlotNewest, ValidatedOnce
  <2>3. \A c \in InputCallers : CallFits(inputCall[c])'
    BY <2>1 DEF InputInv, CallFits, StillUp, Noted, Numbered
  <2>4. QED
    BY <2>2, <2>3 DEF InputInv
<1>6. QED
  BY <1>1, <1>2, <1>3, <1>4, <1>5 DEF InputNext

InputSpec == InputInit /\ [][InputNext]_inputVars

\* The desktop's state has its types in every reachable state: what each call
\* still has to send is a sequence of input events, whatever it was asked to do.
THEOREM InputTypeCorrect == InputSpec => []InputTypes
<1>1. InputInv => InputTypes
  BY DEF InputInv
<1>2. QED
  BY <1>1, InputInitInv, InputStepInv, PTL DEF InputSpec

\* Once all calls have ended, no key and no button is down but those key_down
\* and mouse_down left, however they interleaved and wherever one was refused.
THEOREM NothingLeftDownHolds == InputSpec => []NothingLeftDown
<1>1. InputInv => NothingLeftDown
  <2> SUFFICES ASSUME InputInv, \A c \in InputCallers : ~InFlight(c), NEW k \in held \ kept PROVE FALSE
    BY DEF NothingLeftDown
  <2>1. PICK c \in InputCallers : Owes(inputCall[c], k)
    BY DEF InputInv, AllOwed
  <2>2. QED
    BY <2>1 DEF Owes, InFlight
<1>2. QED
  BY <1>1, InputInitInv, InputStepInv, PTL DEF InputSpec

\* A call whose precondition failed has sent nothing, and the text a verified
\* call expected was on the screen after its last event.
THEOREM VerifiedHonestlyHolds == InputSpec => []VerifiedHonestly
<1>1. InputInv => VerifiedHonestly
  BY DEF InputInv, CallFits, Noted, VerifiedHonestly
<1>2. QED
  BY <1>1, InputInitInv, InputStepInv, PTL DEF InputSpec

\* No click is answered with a validation older than its own, and no two
\* answers carry the same one, though all clicks share one slot.
THEOREM ValidatedOnceHolds == InputSpec => []ValidatedOnce
<1>1. InputInv => ValidatedOnce
  BY DEF InputInv
<1>2. QED
  BY <1>1, InputInitInv, InputStepInv, PTL DEF InputSpec

-----------------------------------------------------------------------------
(* What a call's events do when no other call is at work: the keys down, the  *)
(* pointer and what the application got, from one state of the desk to the    *)
(* next.                                                                      *)
Desks == [held : SUBSET Keys, cursor : Points, got : Seq(Arrival)]
Pointed(e, s) == IF "to" \in DOMAIN e THEN e.to ELSE s.cursor
Arrived(e, s) == [key |-> e.key, mods |-> s.held \cap Mods, at |-> Pointed(e, s)]
IsArrival(e) == e.do = "down" /\ e.key \notin Mods
Sent(e, s) ==
  [held |-> IF e.do = "down" THEN s.held \cup {e.key} ELSE IF e.do = "up" THEN s.held \ {e.key} ELSE s.held,
   cursor |-> Pointed(e, s),
   got |-> IF IsArrival(e) THEN Append(s.got, Arrived(e, s)) ELSE s.got]
Trail(f, es, s, t) ==
  /\ f[0] = s /\ f[Len(es)] = t
  /\ \A n \in 0..Len(es) : f[n] \in Desks
  /\ \A n \in 1..Len(es) : es[n].do # "refuse" /\ f[n] = Sent(es[n], f[n - 1])
Leads(es, s, t) == \E f : Trail(f, es, s, t)

\* (Counting up, from nothing to all.)
LEMMA CountUp ==
  ASSUME NEW I, NEW N \in Nat, 0 \in I, \A n \in 0..N : n \in I /\ n # N => n + 1 \in I
  PROVE  N \in I
<1> DEFINE T == {n \in 0..N : n \notin I}
<1>1. ASSUME T # {} PROVE FALSE
  <2>1. T \in SUBSET Nat
    OBVIOUS
  <2> HIDE DEF T
  <2>2. PICK k \in T : \A m \in T : k <= m
    BY <1>1, <2>1, LeastNumber
  <2>3. k \in 0..N /\ k \notin I
    BY <2>2 DEF T
  <2>4. k # 0
    BY <2>3
  <2>5. k - 1 \in 0..N /\ k - 1 \notin T /\ k - 1 # N
    BY <2>2, <2>3, <2>4
  <2>6. k - 1 \in I
    BY <2>5 DEF T
  <2>7. (k - 1) + 1 \in I
    BY <2>5, <2>6
  <2>8. (k - 1) + 1 = k
    BY <2>3
  <2>9. QED
    BY <2>3, <2>7, <2>8
<1>2. QED
  BY <1>1

LEMMA SentFits ==
  ASSUME NEW e \in Event, NEW s \in Desks
  PROVE  Sent(e, s) \in Desks
<1>1. s.held \in SUBSET Keys /\ s.cursor \in Points /\ s.got \in Seq(Arrival)
  BY DEF Desks
<1>2. e.do \in {"down", "up"} => e.key \in Keys
  BY DEF Event
<1>3. Pointed(e, s) \in Points
  <2>1. CASE e \in [do : {"elevation", "refuse", "classify", "wheel"}] \cup [do : {"down", "up"}, key : Keys]
    <3>1. "to" \notin DOMAIN e
      BY <2>1
    <3>2. QED
      BY <1>1, <3>1 DEF Pointed
  <2>2. CASE e \in [do : {"move"}, to : ScreenPoints] \cup [do : {"down", "up"}, key : Keys, to : ScreenPoints]
    <3>1. e.to \in ScreenPoints /\ "to" \in DOMAIN e
      BY <2>2
    <3>2. QED
      BY <3>1 DEF Pointed, Points
  <2>3. QED
    BY <2>1, <2>2 DEF Event
<1>4. PICK held2, got2 :
        /\ held2 = (IF e.do = "down" THEN s.held \cup {e.key} ELSE IF e.do = "up" THEN s.held \ {e.key} ELSE s.held)
        /\ got2 = (IF IsArrival(e) THEN Append(s.got, Arrived(e, s)) ELSE s.got)
  OBVIOUS
<1>5. held2 \in SUBSET Keys
  BY <1>1, <1>2, <1>4
<1>6. got2 \in Seq(Arrival)
  <2>1. CASE IsArrival(e)
    <3>1. Arrived(e, s) \in Arrival
      BY <1>2, <1>3, <2>1 DEF Arrived, Arrival, IsArrival
    <3>2. QED
      BY <1>1, <1>4, <2>1, <3>1
  <2>2. CASE ~IsArrival(e)
    BY <1>1, <1>4, <2>2
  <2>3. QED
    BY <2>1, <2>2
<1>7. Sent(e, s) = [held |-> held2, cursor |-> Pointed(e, s), got |-> got2]
  BY <1>4 DEF Sent
<1>8. QED
  BY <1>3, <1>5, <1>6, <1>7 DEF Desks

LEMMA SentTo ==
  ASSUME NEW e, NEW s
  PROVE  /\ Sent(e, s).held = IF e.do = "down" THEN s.held \cup {e.key} ELSE IF e.do = "up" THEN s.held \ {e.key} ELSE s.held
         /\ Sent(e, s).cursor = Pointed(e, s)
         /\ Sent(e, s).got = IF IsArrival(e) THEN Append(s.got, Arrived(e, s)) ELSE s.got
BY DEF Sent

LEMMA LeadsNowhere ==
  ASSUME NEW s, NEW t
  PROVE  /\ Leads(<<>>, s, t) => t = s /\ s \in Desks
         /\ s \in Desks => Leads(<<>>, s, s)
<1>1. Len(<<>>) = 0
  OBVIOUS
<1>2. Leads(<<>>, s, t) => t = s /\ s \in Desks
  BY <1>1 DEF Leads, Trail
<1>3. ASSUME s \in Desks PROVE Leads(<<>>, s, s)
  <2>1. Trail([n \in 0..0 |-> s], <<>>, s, s)
    BY <1>1, <1>3 DEF Trail
  <2>2. QED
    BY <2>1 DEF Leads
<1>4. QED
  BY <1>2, <1>3

LEMMA LeadsOne ==
  ASSUME NEW e, NEW s, NEW t, Leads(<<e>>, s, t)
  PROVE  t = Sent(e, s) /\ e.do # "refuse" /\ s \in Desks /\ t \in Desks
<1>1. Len(<<e>>) = 1 /\ <<e>>[1] = e
  OBVIOUS
<1>2. PICK f : Trail(f, <<e>>, s, t)
  BY DEF Leads
<1>3. f[0] = s /\ f[1] = t /\ f[0] \in Desks /\ f[1] \in Desks /\ e.do # "refuse" /\ f[1] = Sent(e, f[1 - 1])
  BY <1>1, <1>2 DEF Trail
<1>4. QED
  BY <1>3

LEMMA LeadsWithin ==
  ASSUME NEW es, Len(es) \in Nat, NEW s, NEW t, Leads(es, s, t)
  PROVE  s \in Desks /\ t \in Desks
  BY DEF Leads, Trail

LEMMA LeadsThrough ==
  ASSUME NEW a \in Seq(Event), NEW b \in Seq(Event), NEW s, NEW t, Leads(a \o b, s, t)
  PROVE  \E u \in Desks : Leads(a, s, u) /\ Leads(b, u, t)
<1>1. Len(a \o b) = Len(a) + Len(b) /\ Len(a) \in Nat /\ Len(b) \in Nat
  BY After
<1>2. PICK f : Trail(f, a \o b, s, t)
  BY DEF Leads
<1>3. f[Len(a)] \in Desks
  BY <1>1, <1>2 DEF Trail
<1>4. Trail(f, a, s, f[Len(a)])
  <2>1. \A n \in 0..Len(a) : f[n] \in Desks
    BY <1>1, <1>2 DEF Trail
  <2>2. ASSUME NEW n \in 1..Len(a) PROVE a[n].do # "refuse" /\ f[n] = Sent(a[n], f[n - 1])
    <3>1. n \in 1..Len(a \o b) /\ (a \o b)[n] = a[n]
      BY After
    <3>2. QED
      BY <1>2, <3>1 DEF Trail
  <2>3. f[0] = s
    BY <1>2 DEF Trail
  <2>4. QED
    BY <2>1, <2>2, <2>3 DEF Trail
<1>5. PICK g : g = [n \in 0..Len(b) |-> f[Len(a) + n]]
  OBVIOUS
<1>6. Trail(g, b, f[Len(a)], t)
  <2>1. g[0] = f[Len(a)] /\ g[Len(b)] = t
    <3>1. 0 \in 0..Len(b) /\ Len(b) \in 0..Len(b) /\ Len(a) + 0 = Len(a)
      BY <1>1
    <3>2. f[Len(a) + Len(b)] = t
      BY <1>1, <1>2 DEF Trail
    <3>3. QED
      BY <1>5, <3>1, <3>2
  <2>2. ASSUME NEW n \in 0..Len(b) PROVE g[n] \in Desks
    <3>1. Len(a) + n \in 0..Len(a \o b)
      BY <1>1
    <3>2. QED
      BY <1>2, <1>5, <3>1 DEF Trail
  <2>3. ASSUME NEW n \in 1..Len(b) PROVE b[n].do # "refuse" /\ g[n] = Sent(b[n], g[n - 1])
    <3>1. Len(a) + n \in 1..Len(a \o b) /\ (a \o b)[Len(a) + n] = b[n]
      BY After
    <3>2. b[n].do # "refuse" /\ f[Len(a) + n] = Sent(b[n], f[Len(a) + n - 1])
      BY <1>2, <3>1 DEF Trail
    <3>3. n \in 0..Len(b) /\ n - 1 \in 0..Len(b) /\ Len(a) + n - 1 = Len(a) + (n - 1)
      BY <1>1
    <3>4. g[n] = f[Len(a) + n] /\ g[n - 1] = f[Len(a) + (n - 1)]
      BY <1>5, <3>3
    <3>5. QED
      BY <3>2, <3>3, <3>4
  <2>4. QED
    BY <2>1, <2>2, <2>3 DEF Trail
<1>7. QED
  BY <1>3, <1>4, <1>6 DEF Leads

LEMMA LeadsOn ==
  ASSUME NEW es \in Seq(Event), NEW e \in Event, e.do # "refuse", NEW s, NEW t, Leads(es, s, t)
  PROVE  Leads(es \o <<e>>, s, Sent(e, t))
<1>1. <<e>> \in Seq(Event) /\ Len(<<e>>) = 1 /\ <<e>>[1] = e /\ Len(es) \in Nat
  OBVIOUS
<1>2. Len(es \o <<e>>) = Len(es) + 1 /\ (es \o <<e>>)[Len(es) + 1] = e
  <2>1. PICK b \in Seq(Event) : b = <<e>>
    BY <1>1
  <2>2. Len(es \o b) = Len(es) + Len(b) /\ \A i \in 1..Len(b) : (es \o b)[Len(es) + i] = b[i]
    BY After
  <2>3. QED
    BY <1>1, <2>1, <2>2
<1>3. \A i \in 1..Len(es) : (es \o <<e>>)[i] = es[i]
  BY <1>1, After
<1>4. PICK f : Trail(f, es, s, t)
  BY DEF Leads
<1>5. PICK g : g = [n \in 0..Len(es) + 1 |-> IF n = Len(es) + 1 THEN Sent(e, t) ELSE f[n]]
  OBVIOUS
<1>6. t \in Desks /\ Sent(e, t) \in Desks
  BY LeadsWithin, SentFits, <1>1
<1>7. \A n \in 0..Len(es) : g[n] = f[n]
  BY <1>1, <1>5
<1>8. g[Len(es) + 1] = Sent(e, t)
  BY <1>1, <1>5
<1>9. Trail(g, es \o <<e>>, s, Sent(e, t))
  <2>1. g[0] = s /\ g[Len(es \o <<e>>)] = Sent(e, t)
    BY <1>1, <1>2, <1>4, <1>7, <1>8 DEF Trail
  <2>2. ASSUME NEW n \in 0..Len(es \o <<e>>) PROVE g[n] \in Desks
    <3>1. CASE n = Len(es) + 1
      BY <1>6, <1>8, <3>1
    <3>2. CASE n # Len(es) + 1
      <4>1. n \in 0..Len(es)
        BY <1>1, <1>2, <3>2
      <4>2. QED
        BY <1>4, <1>7, <4>1 DEF Trail
    <3>3. QED
      BY <3>1, <3>2
  <2>3. ASSUME NEW n \in 1..Len(es \o <<e>>)
        PROVE  (es \o <<e>>)[n].do # "refuse" /\ g[n] = Sent((es \o <<e>>)[n], g[n - 1])
    <3>1. CASE n = Len(es) + 1
      <4>1. n - 1 = Len(es) /\ Len(es) \in 0..Len(es)
        BY <1>1, <3>1
      <4>2. g[n - 1] = t
        BY <1>4, <1>7, <4>1 DEF Trail
      <4>3. QED
        BY <1>2, <1>8, <3>1, <4>2
    <3>2. CASE n # Len(es) + 1
      <4>1. n \in 1..Len(es) /\ n \in 0..Len(es) /\ n - 1 \in 0..Len(es)
        BY <1>1, <1>2, <3>2
      <4>2. es[n].do # "refuse" /\ f[n] = Sent(es[n], f[n - 1])
        BY <1>4, <4>1 DEF Trail
      <4>3. QED
        BY <1>3, <1>7, <4>1, <4>2
    <3>3. QED
      BY <3>1, <3>2
  <2>4. QED
    BY <2>1, <2>2, <2>3 DEF Trail
<1>10. QED
  BY <1>9 DEF Leads

LEMMA DownSent ==
  ASSUME NEW k \in Keys, NEW s \in Desks, NEW t, Leads(<<Down(k)>>, s, t)
  PROVE  /\ t \in Desks /\ t.held = s.held \cup {k} /\ t.cursor = s.cursor
         /\ t.got = IF k \in Mods THEN s.got ELSE Append(s.got, [key |-> k, mods |-> s.held \cap Mods, at |-> s.cursor])
<1>1. PICK e : e = Down(k)
  OBVIOUS
<1>2. e.do = "down" /\ e.key = k /\ "to" \notin DOMAIN e
  BY <1>1 DEF Down
<1>3. t = Sent(e, s) /\ t \in Desks
  BY <1>1, LeadsOne
<1>4. Pointed(e, s) = s.cursor
  BY <1>2 DEF Pointed
<1>5. IsArrival(e) <=> k \notin Mods
  BY <1>2 DEF IsArrival
<1>6. Arrived(e, s) = [key |-> k, mods |-> s.held \cap Mods, at |-> s.cursor]
  BY <1>2, <1>4 DEF Arrived
<1>7. QED
  BY <1>2, <1>3, <1>4, <1>5, <1>6, SentTo

LEMMA ModDownSent ==
  ASSUME NEW k \in Mods, NEW s \in Desks, NEW t, Leads(<<Down(k)>>, s, t)
  PROVE  t \in Desks /\ t.held = s.held \cup {k} /\ t.cursor = s.cursor /\ t.got = s.got
<1>1. k \in Keys
  BY KeySorts
<1>2. QED
  BY <1>1, DownSent

LEMMA KeyDownSent ==
  ASSUME NEW k \in Keys, k \notin Mods, NEW s \in Desks, NEW t, Leads(<<Down(k)>>, s, t)
  PROVE  /\ t \in Desks /\ t.held = s.held \cup {k}
         /\ t.got = Append(s.got, [key |-> k, mods |-> s.held \cap Mods, at |-> s.cursor])
  BY DownSent

LEMMA UpSent ==
  ASSUME NEW k \in Keys, NEW s \in Desks, NEW t, Leads(<<Up(k)>>, s, t)
  PROVE  t \in Desks /\ t.held = s.held \ {k} /\ t.cursor = s.cursor /\ t.got = s.got
<1>1. PICK e : e = Up(k)
  OBVIOUS
<1>2. e.do = "up" /\ e.key = k /\ "to" \notin DOMAIN e
  BY <1>1 DEF Up
<1>3. t = Sent(e, s) /\ t \in Desks
  BY <1>1, LeadsOne
<1>4. Pointed(e, s) = s.cursor /\ ~IsArrival(e)
  BY <1>2 DEF Pointed, IsArrival
<1>5. QED
  BY <1>2, <1>3, <1>4, SentTo

\* A key pressed and released arrives once, with the modifiers held.
LEMMA PressSent ==
  ASSUME NEW k \in Keys \ Mods, NEW s \in Desks, NEW t, k \notin s.held, Leads(SendVKPress(k), s, t)
  PROVE  /\ t \in Desks /\ t.held = s.held /\ t.cursor = s.cursor
         /\ t.got = Append(s.got, [key |-> k, mods |-> s.held \cap Mods, at |-> s.cursor])
<1>1. SendVKPress(k) = <<Down(k)>> \o <<Up(k)>> /\ <<Down(k)>> \in Seq(Event) /\ <<Up(k)>> \in Seq(Event)
  BY EventSorts DEF SendVKPress
<1>2. PICK u \in Desks : Leads(<<Down(k)>>, s, u) /\ Leads(<<Up(k)>>, u, t)
  BY <1>1, LeadsThrough
<1>3. /\ u.held = s.held \cup {k} /\ u.cursor = s.cursor
      /\ u.got = Append(s.got, [key |-> k, mods |-> s.held \cap Mods, at |-> s.cursor])
  BY <1>2, DownSent
<1>4. t.held = u.held \ {k} /\ t.cursor = u.cursor /\ t.got = u.got /\ t \in Desks
  BY <1>2, UpSent
<1>5. (s.held \cup {k}) \ {k} = s.held
  OBVIOUS
<1>6. QED
  BY <1>3, <1>4, <1>5

\* Elevation and the like change nothing, a move the pointer.
LEMMA PassedSent ==
  ASSUME NEW e, e.do \notin {"down", "up"}, NEW s \in Desks, NEW t, Leads(<<e>>, s, t)
  PROVE  t.held = s.held /\ t.got = s.got /\ t.cursor = Pointed(e, s) /\ t \in Desks
<1>1. t = Sent(e, s) /\ t \in Desks
  BY LeadsOne
<1>2. ~IsArrival(e)
  BY DEF IsArrival
<1>3. QED
  BY <1>1, <1>2, SentTo

\* What an application takes its arrivals for.
Characters(got) == [n \in 1..Len(got) |-> AsCharacter(got[n])]
KeysOf(got) == [n \in 1..Len(got) |-> [key |-> got[n].key, mods |-> got[n].mods]]

LEMMA TakenTogether ==
  ASSUME NEW g \in Seq(Arrival), NEW h \in Seq(Arrival)
  PROVE  /\ Characters(g \o h) = Characters(g) \o Characters(h)
         /\ KeysOf(g \o h) = KeysOf(g) \o KeysOf(h)
         /\ Len(Characters(g)) = Len(g) /\ Len(KeysOf(g)) = Len(g)
<1>1. Len(g) \in Nat /\ Len(h) \in Nat /\ Len(g \o h) = Len(g) + Len(h)
  BY After
<1>2. ASSUME NEW n \in 1..Len(g) + Len(h)
      PROVE  (g \o h)[n] = IF n <= Len(g) THEN g[n] ELSE h[n - Len(g)]
  BY ConcatProperties
<1>3. Characters(g \o h) = Characters(g) \o Characters(h)
  <2>1. Characters(g) \o Characters(h) = [n \in 1..Len(g) + Len(h) |->
          IF n <= Len(g) THEN AsCharacter(g[n]) ELSE AsCharacter(h[n - Len(g)])]
    BY <1>1 DEF Characters
  <2>2. Characters(g \o h) = [n \in 1..Len(g) + Len(h) |-> AsCharacter((g \o h)[n])]
    BY <1>1 DEF Characters
  <2>3. ASSUME NEW n \in 1..Len(g) + Len(h)
        PROVE  AsCharacter((g \o h)[n]) = IF n <= Len(g) THEN AsCharacter(g[n]) ELSE AsCharacter(h[n - Len(g)])
    BY <1>2
  <2>4. QED
    BY <2>1, <2>2, <2>3
<1>4. KeysOf(g \o h) = KeysOf(g) \o KeysOf(h)
  <2>1. KeysOf(g) \o KeysOf(h) = [n \in 1..Len(g) + Len(h) |->
          IF n <= Len(g) THEN [key |-> g[n].key, mods |-> g[n].mods]
          ELSE [key |-> h[n - Len(g)].key, mods |-> h[n - Len(g)].mods]]
    BY <1>1 DEF KeysOf
  <2>2. KeysOf(g \o h) = [n \in 1..Len(g) + Len(h) |-> [key |-> (g \o h)[n].key, mods |-> (g \o h)[n].mods]]
    BY <1>1 DEF KeysOf
  <2>3. ASSUME NEW n \in 1..Len(g) + Len(h)
        PROVE  [key |-> (g \o h)[n].key, mods |-> (g \o h)[n].mods] =
                 IF n <= Len(g) THEN [key |-> g[n].key, mods |-> g[n].mods]
                 ELSE [key |-> h[n - Len(g)].key, mods |-> h[n - Len(g)].mods]
    BY <1>2
  <2>4. QED
    BY <2>1, <2>2, <2>3
<1>5. QED
  BY <1>1, <1>3, <1>4 DEF Characters, KeysOf

LEMMA CharacterSorts ==
  /\ DOMAIN CharToVK = {"a", "A", "1", "!"}
  /\ \A r \in DOMAIN CharToVK : CharToVK[r].vk = (IF r \in {"a", "A"} THEN "a" ELSE "1")
  /\ \A r \in DOMAIN CharToVK : CharToVK[r].shift = (r \in {"A", "!"})
<1>1. \A r \in {"a", "A", "1", "!"} :
        CharToVK[r] = [vk |-> IF r \in {"a", "A"} THEN "a" ELSE "1", shift |-> r \in {"A", "!"}]
  BY DEF CharToVK
<1>2. DOMAIN CharToVK = {"a", "A", "1", "!"}
  BY DEF CharToVK
<1>3. QED
  BY <1>1, <1>2

\* The keys of a character are taken for that character.
LEMMA TakenAs ==
  ASSUME NEW r \in DOMAIN CharToVK, NEW a, a.key = CharToVK[r].vk, ("shift" \in a.mods) <=> CharToVK[r].shift
  PROVE  AsCharacter(a) = r
<1>1. a.key \in {"a", "1"}
  BY CharacterSorts
<1>2. a.key \notin Specials
  BY <1>1 DEF Specials
<1>3. r \in {q \in DOMAIN CharToVK : CharToVK[q].vk = a.key /\ CharToVK[q].shift = ("shift" \in a.mods)}
  BY KeySorts
<1>4. ASSUME NEW q \in DOMAIN CharToVK, CharToVK[q].vk = a.key, CharToVK[q].shift = ("shift" \in a.mods) PROVE q = r
  <2>1. q \in {"a", "A"} <=> r \in {"a", "A"}
    BY <1>4, CharacterSorts
  <2>2. q \in {"A", "!"} <=> r \in {"A", "!"}
    BY <1>4, CharacterSorts
  <2>3. QED
    BY <2>1, <2>2, CharacterSorts
<1>5. QED
  BY <1>2, <1>3, <1>4 DEF AsCharacter

\* Events that type these characters when nothing is held, and leave nothing held.
TypesAs(es, cs) ==
  \A s \in Desks : \A t : Leads(es, s, t) /\ s.held = {} =>
    t \in Desks /\ t.held = {} /\ \E g \in Seq(Arrival) : t.got = s.got \o g /\ Characters(g) = cs

LEMMA TypesOn ==
  ASSUME NEW a \in Seq(Event), NEW b \in Seq(Event), NEW as, NEW bs, TypesAs(a, as), TypesAs(b, bs)
  PROVE  TypesAs(a \o b, as \o bs)
<1> SUFFICES ASSUME NEW s \in Desks, NEW t, Leads(a \o b, s, t), s.held = {}
             PROVE  t \in Desks /\ t.held = {}
                    /\ \E g \in Seq(Arrival) : t.got = s.got \o g /\ Characters(g) = as \o bs
  BY DEF TypesAs
<1>1. PICK u \in Desks : Leads(a, s, u) /\ Leads(b, u, t)
  BY LeadsThrough
<1>2. u.held = {}
  BY <1>1 DEF TypesAs
<1>3. PICK g \in Seq(Arrival) : u.got = s.got \o g /\ Characters(g) = as
  BY <1>1 DEF TypesAs
<1>4. t \in Desks /\ t.held = {}
  BY <1>1, <1>2 DEF TypesAs
<1>5. PICK h \in Seq(Arrival) : t.got = u.got \o h /\ Characters(h) = bs
  BY <1>1, <1>2 DEF TypesAs
<1>6. s.got \in Seq(Arrival)
  BY DEF Desks
<1>7. t.got = s.got \o (g \o h)
  <2>1. PICK p \in Seq(Arrival) : p = s.got
    BY <1>6
  <2>2. (p \o g) \o h = p \o (g \o h)
    BY ConcatAssociative
  <2>3. QED
    BY <1>3, <1>5, <2>1, <2>2
<1>8. Characters(g \o h) = as \o bs /\ g \o h \in Seq(Arrival)
  <2>1. Characters(g \o h) = Characters(g) \o Characters(h)
    BY TakenTogether
  <2>2. QED
    BY <1>3, <1>5, <2>1
<1>9. QED
  BY <1>4, <1>7, <1>8

LEMMA TypesNothing == TypesAs(<<>>, <<>>)
<1> SUFFICES ASSUME NEW s \in Desks, NEW t, Leads(<<>>, s, t), s.held = {}
             PROVE  t \in Desks /\ t.held = {}
                    /\ \E g \in Seq(Arrival) : t.got = s.got \o g /\ Characters(g) = <<>>
  BY DEF TypesAs
<1>1. t = s
  BY LeadsNowhere
<1>2. s.got \in Seq(Arrival) /\ <<>> \in Seq(Arrival)
  BY EmptySeq DEF Desks
<1>3. s.got \o <<>> = s.got
  BY <1>2, ConcatEmptySeq
<1>4. Characters(<<>>) = <<>>
  BY DEF Characters
<1>5. QED
  BY <1>1, <1>2, <1>3, <1>4

\* One arrival after what was there.
LEMMA OneMore ==
  ASSUME NEW s \in Desks, NEW a \in Arrival, NEW t, t.got = Append(s.got, a)
  PROVE  <<a>> \in Seq(Arrival) /\ t.got = s.got \o <<a>> /\ Characters(<<a>>) = <<AsCharacter(a)>>
<1>1. s.got \in Seq(Arrival) /\ <<a>> \in Seq(Arrival)
  BY DEF Desks
<1>2. Append(s.got, a) = s.got \o <<a>>
  BY <1>1
<1>3. Len(<<a>>) = 1 /\ <<a>>[1] = a
  OBVIOUS
<1>4. Characters(<<a>>) = [n \in 1..1 |-> AsCharacter(<<a>>[n])]
  BY <1>3 DEF Characters
<1>5. [n \in 1..1 |-> AsCharacter(<<a>>[n])] = <<AsCharacter(a)>>
  BY <1>3
<1>6. QED
  BY <1>1, <1>2, <1>4, <1>5

LEMMA SpecialTyped ==
  ASSUME NEW k \in Specials
  PROVE  TypesAs(SendVKPress(k), <<k>>)
<1> SUFFICES ASSUME NEW s \in Desks, NEW t, Leads(SendVKPress(k), s, t), s.held = {}
             PROVE  t \in Desks /\ t.held = {}
                    /\ \E g \in Seq(Arrival) : t.got = s.got \o g /\ Characters(g) = <<k>>
  BY DEF TypesAs
<1>1. k \in Keys \ Mods
  BY KeySorts DEF Specials, Mods
<1>2. PICK a : a = [key |-> k, mods |-> s.held \cap Mods, at |-> s.cursor]
  OBVIOUS
<1>3. t \in Desks /\ t.held = {} /\ t.got = Append(s.got, a)
  BY <1>1, <1>2, PressSent
<1>4. a \in Arrival
  BY <1>1, <1>2 DEF Arrival, Desks
<1>5. AsCharacter(a) = k
  BY <1>2 DEF AsCharacter
<1>6. QED
  BY <1>3, <1>4, <1>5, OneMore

LEMMA CharTyped ==
  ASSUME NEW r \in DOMAIN CharToVK
  PROVE  TypesAs(SendCharWithVK(r), <<r>>)
<1> SUFFICES ASSUME NEW s \in Desks, NEW t, Leads(SendCharWithVK(r), s, t), s.held = {}
             PROVE  t \in Desks /\ t.held = {}
                    /\ \E g \in Seq(Arrival) : t.got = s.got \o g /\ Characters(g) = <<r>>
  BY DEF TypesAs
<1>1. PICK k \in Keys \ Mods : k = CharToVK[r].vk
  BY KeySorts DEF AlNum, Mods
<1>p. SendVKPress(k) \in Seq(Event)
  BY PressReleased, ReleasedEvents
<1>2. CASE ~CharToVK[r].shift
  <2>1. SendCharWithVK(r) = SendVKPress(k)
    BY <1>1, <1>2 DEF SendCharWithVK
  <2>2. PICK a : a = [key |-> k, mods |-> s.held \cap Mods, at |-> s.cursor]
    OBVIOUS
  <2>3. t \in Desks /\ t.held = {} /\ t.got = Append(s.got, a)
    BY <2>1, <2>2, PressSent
  <2>4. a \in Arrival
    BY <2>2 DEF Arrival, Desks
  <2>5. AsCharacter(a) = r
    BY <1>1, <1>2, <2>2, TakenAs
  <2>6. QED
    BY <2>3, <2>4, <2>5, OneMore
<1>3. CASE CharToVK[r].shift
  <2>0. "shift" \in Keys /\ "shift" \in Mods
    BY KeySorts DEF Mods
  <2>1. SendCharWithVK(r) = (<<Down("shift")>> \o SendVKPress(k)) \o <<Up("shift")>>
    BY <1>1, <1>3 DEF SendCharWithVK
  <2>2. <<Down("shift")>> \in Seq(Event) /\ <<Up("shift")>> \in Seq(Event)
        /\ <<Down("shift")>> \o SendVKPress(k) \in Seq(Event)
    BY <2>0, <1>p, EventSorts
  <2>3. PICK v \in Desks : Leads(<<Down("shift")>> \o SendVKPress(k), s, v) /\ Leads(<<Up("shift")>>, v, t)
    BY <2>1, <2>2, LeadsThrough
  <2>4. PICK u \in Desks : Leads(<<Down("shift")>>, s, u) /\ Leads(SendVKPress(k), u, v)
    BY <1>p, <2>2, <2>3, LeadsThrough
  <2>5. u.held = {"shift"} /\ u.cursor = s.cursor /\ u.got = s.got
    BY <2>0, <2>4, ModDownSent
  <2>6. PICK a : a = [key |-> k, mods |-> {"shift"} \cap Mods, at |-> s.cursor]
    OBVIOUS
  <2>7. v \in Desks /\ v.held = {"shift"} /\ v.got = Append(s.got, a)
    <3>1. k \notin u.held
      BY <2>0, <2>5
    <3>2. v.held = u.held /\ v.got = Append(u.got, [key |-> k, mods |-> u.held \cap Mods, at |-> u.cursor])
      BY <2>4, <3>1, PressSent
    <3>3. QED
      BY <2>5, <2>6, <3>2
  <2>8. t \in Desks /\ t.held = v.held \ {"shift"} /\ t.got = v.got
    BY <2>0, <2>3, UpSent
  <2>9. a \in Arrival
    BY <2>6 DEF Arrival, Desks
  <2>10. AsCharacter(a) = r
    BY <1>1, <1>3, <2>0, <2>6, TakenAs
  <2>11. t.held = {} /\ t.got = Append(s.got, a)
    BY <2>7, <2>8
  <2>12. QED
    BY <2>8, <2>9, <2>10, <2>11, OneMore
<1>4. QED
  BY <1>2, <1>3

\* Parts that type each its characters type them all, one after the other.
LEMMA AllTyped ==
  ASSUME NEW ss, NEW cs, Len(ss) \in Nat, Len(cs) = Len(ss),
         \A n \in 1..Len(ss) : ss[n] \in Seq(Event) /\ TypesAs(ss[n], cs[n])
  PROVE  TypesAs(Joined(ss), Joined(cs))
<1>1. PICK f : Sums(f, ss) /\ Joined(ss) = f[Len(ss)]
  BY JoinedSums
<1>2. PICK g : Sums(g, cs) /\ Joined(cs) = g[Len(cs)]
  BY JoinedSums
<1>3. PICK N \in Nat : N = Len(ss)
  OBVIOUS
<1> DEFINE I == {n \in 0..N : f[n] \in Seq(Event) /\ TypesAs(f[n], g[n])}
<1>4. 0 \in I
  <2>1. f[0] = <<>> /\ g[0] = <<>>
    BY <1>1, <1>2 DEF Sums
  <2>2. <<>> \in Seq(Event)
    BY EmptySeq
  <2>3. f[0] \in Seq(Event) /\ TypesAs(f[0], g[0])
    BY <2>1, <2>2, TypesNothing
  <2>4. QED
    BY <1>3, <2>3
<1>5. ASSUME NEW n \in 0..N, n \in I, n # N PROVE n + 1 \in I
  <2>1. n + 1 \in 1..N /\ (n + 1) - 1 = n
    BY <1>5
  <2>2. f[n + 1] = f[n] \o ss[n + 1] /\ g[n + 1] = g[n] \o cs[n + 1]
    BY <1>1, <1>2, <1>3, <2>1 DEF Sums
  <2>3. ss[n + 1] \in Seq(Event) /\ TypesAs(ss[n + 1], cs[n + 1])
    BY <1>3, <2>1
  <2>4. f[n] \in Seq(Event) /\ TypesAs(f[n], g[n])
    BY <1>5
  <2>5. PICK a \in Seq(Event), b \in Seq(Event) : a = f[n] /\ b = ss[n + 1]
    BY <2>3, <2>4
  <2>6. TypesAs(a \o b, g[n] \o cs[n + 1])
    BY <2>3, <2>4, <2>5, TypesOn
  <2>7. a \o b \in Seq(Event)
    OBVIOUS
  <2>8. f[n + 1] \in Seq(Event) /\ TypesAs(f[n + 1], g[n + 1])
    BY <2>2, <2>5, <2>6, <2>7
  <2>9. n + 1 \in 0..N
    BY <2>1
  <2>10. QED
    BY <2>8, <2>9
<1> HIDE DEF I
<1>6. N \in I
  BY <1>4, <1>5, CountUp
<1>7. QED
  BY <1>1, <1>2, <1>3, <1>6 DEF I

LEMMA TextTyped ==
  ASSUME NEW text, Len(text) \in Nat
  PROVE  /\ TypesAs(TypeText(text), Typed(text, Specials))
         /\ TypesAs(Joined([n \in 1..Len(text) |-> SendCharWithVK(text[n])]), Typed(text, {}))
         /\ TypeText(text) \in Released
         /\ Joined([n \in 1..Len(text) |-> SendCharWithVK(text[n])]) \in Released
<1>1. PICK ss : ss = [n \in 1..Len(text) |->
        IF text[n] \in Specials THEN SendVKPress(text[n]) ELSE SendCharWithVK(text[n])]
  OBVIOUS
<1>2. PICK cs : cs = [n \in 1..Len(text) |-> IF text[n] \in DOMAIN CharToVK \cup Specials THEN <<text[n]>> ELSE <<>>]
  OBVIOUS
<1>3. PICK us : us = [n \in 1..Len(text) |-> SendCharWithVK(text[n])]
  OBVIOUS
<1>4. PICK ds : ds = [n \in 1..Len(text) |-> IF text[n] \in DOMAIN CharToVK \cup {} THEN <<text[n]>> ELSE <<>>]
  OBVIOUS
<1>5. ASSUME NEW n \in 1..Len(text) PROVE us[n] \in Released /\ TypesAs(us[n], ds[n])
  <2>1. us[n] = SendCharWithVK(text[n])
    BY <1>3
  <2>2. CASE text[n] \in DOMAIN CharToVK
    BY <1>4, <2>1, <2>2, CharTyped, CharReleased
  <2>3. CASE text[n] \notin DOMAIN CharToVK
    <3>1. us[n] = <<>> /\ ds[n] = <<>>
      BY <1>4, <2>1, <2>3 DEF SendCharWithVK
    <3>2. QED
      BY <3>1, TypesNothing, ReleasedConcat
  <2>4. QED
    BY <2>2, <2>3
<1>6. ASSUME NEW n \in 1..Len(text) PROVE ss[n] \in Released /\ TypesAs(ss[n], cs[n])
  <2>1. CASE text[n] \in Specials
    <3>1. ss[n] = SendVKPress(text[n]) /\ cs[n] = <<text[n]>>
      BY <1>1, <1>2, <2>1
    <3>2. QED
      BY <2>1, <3>1, SpecialTyped, KeySorts, PressReleased
  <2>2. CASE text[n] \notin Specials
    <3>1. ss[n] = us[n] /\ cs[n] = ds[n]
      BY <1>1, <1>2, <1>3, <1>4, <2>2
    <3>2. QED
      BY <1>5, <3>1
  <2>3. QED
    BY <2>1, <2>2
<1>7. Len(ss) = Len(text) /\ Len(cs) = Len(text) /\ Len(us) = Len(text) /\ Len(ds) = Len(text)
  BY <1>1, <1>2, <1>3, <1>4
<1>8. TypesAs(Joined(ss), Joined(cs))
  BY <1>6, <1>7, AllTyped, ReleasedEvents
<1>9. TypesAs(Joined(us), Joined(ds))
  BY <1>5, <1>7, AllTyped, ReleasedEvents
<1>10. Joined(ss) \in Released
  BY <1>6, <1>7, ReleasedConcat, JoinedStays
<1>11. Joined(us) \in Released
  BY <1>5, <1>7, ReleasedConcat, JoinedStays
<1>12. TypeText(text) = Joined(ss)
  BY <1>1 DEF TypeText
<1>13. Typed(text, Specials) = Joined(cs) /\ Typed(text, {}) = Joined(ds)
  BY <1>2, <1>4 DEF Typed
<1>14. QED
  BY <1>3, <1>8, <1>9, <1>10, <1>11, <1>12, <1>13

\* Events with which nothing arrives.
Quiet == {es \in Seq(Event) : \A s \in Desks : \A t : Leads(es, s, t) => t \in Desks /\ t.got = s.got}

LEMMA QuietOn == <<>> \in Quiet /\ \A a, b \in Quiet : a \o b \in Quiet
<1>1. <<>> \in Quiet
  <2>1. <<>> \in Seq(Event)
    BY EmptySeq
  <2>2. ASSUME NEW s \in Desks, NEW t, Leads(<<>>, s, t) PROVE t \in Desks /\ t.got = s.got
    BY <2>2, LeadsNowhere
  <2>3. QED
    BY <2>1, <2>2 DEF Quiet
<1>2. ASSUME NEW a \in Quiet, NEW b \in Quiet PROVE a \o b \in Quiet
  <2>1. a \in Seq(Event) /\ b \in Seq(Event) /\ a \o b \in Seq(Event)
    BY DEF Quiet
  <2>2. ASSUME NEW s \in Desks, NEW t, Leads(a \o b, s, t) PROVE t \in Desks /\ t.got = s.got
    <3>1. PICK u \in Desks : Leads(a, s, u) /\ Leads(b, u, t)
      BY <2>1, <2>2, LeadsThrough
    <3>2. u.got = s.got
      BY <3>1 DEF Quiet
    <3>3. t \in Desks /\ t.got = u.got
      BY <3>1 DEF Quiet
    <3>4. QED
      BY <3>2, <3>3
  <2>3. QED
    BY <2>1, <2>2 DEF Quiet
<1>3. QED
  BY <1>1, <1>2

\* The modifier a name of key_press holds, if any.
NamedBy(k) == IF k[1] \in Mods /\ (Len(k) = 1 \/ k[2] \in AlNum) THEN {k[1]} ELSE {}
\* With the arrivals of g, and no others.
Gains(s, t, g) == g \in Seq(Arrival) /\ t.got = s.got \o g

LEMMA GainsNothing ==
  ASSUME NEW s \in Desks, NEW t, t.got = s.got
  PROVE  Gains(s, t, <<>>) /\ KeysOf(<<>>) = <<>>
<1>1. s.got \in Seq(Arrival) /\ <<>> \in Seq(Arrival)
  BY EmptySeq DEF Desks
<1>2. s.got \o <<>> = s.got
  BY <1>1, ConcatEmptySeq
<1>3. QED
  BY <1>1, <1>2 DEF Gains, KeysOf

LEMMA GainsOne ==
  ASSUME NEW s \in Desks, NEW t, NEW k \in Keys, NEW mods \in SUBSET Mods, NEW p \in Points,
         t.got = Append(s.got, [key |-> k, mods |-> mods, at |-> p])
  PROVE  \E g : Gains(s, t, g) /\ KeysOf(g) = WithModifiers(<<k>>, mods)
<1>1. PICK a : a = [key |-> k, mods |-> mods, at |-> p]
  OBVIOUS
<1>2. a \in Arrival /\ a.key = k /\ a.mods = mods
  BY <1>1 DEF Arrival
<1>3. Gains(s, t, <<a>>)
  BY <1>1, <1>2, OneMore DEF Gains
<1>4. KeysOf(<<a>>) = WithModifiers(<<k>>, mods)
  <2>1. Len(<<a>>) = 1 /\ <<a>>[1] = a /\ Len(<<k>>) = 1 /\ <<k>>[1] = k
    OBVIOUS
  <2>2. KeysOf(<<a>>) = [n \in 1..1 |-> [key |-> <<a>>[n].key, mods |-> <<a>>[n].mods]]
    BY <2>1 DEF KeysOf
  <2>3. WithModifiers(<<k>>, mods) = [n \in 1..1 |-> [key |-> <<k>>[n], mods |-> mods]]
    BY <2>1 DEF WithModifiers
  <2>4. \A n \in 1..1 : <<a>>[n].key = <<k>>[n] /\ <<a>>[n].mods = mods
    BY <1>2, <2>1
  <2>5. QED
    BY <2>2, <2>3, <2>4
<1>5. QED
  BY <1>3, <1>4

LEMMA GainsBoth ==
  ASSUME NEW s \in Desks, NEW u, NEW t, NEW g, NEW h, Gains(s, u, g), Gains(u, t, h)
  PROVE  Gains(s, t, g \o h) /\ KeysOf(g \o h) = KeysOf(g) \o KeysOf(h) /\ Characters(g \o h) = Characters(g) \o Characters(h)
<1>1. PICK p \in Seq(Arrival) : p = s.got
  BY DEF Desks
<1>2. g \in Seq(Arrival) /\ h \in Seq(Arrival) /\ u.got = p \o g /\ t.got = u.got \o h
  BY <1>1 DEF Gains
<1>3. (p \o g) \o h = p \o (g \o h)
  <2>1. p \in Seq(Arrival) /\ g \in Seq(Arrival) /\ h \in Seq(Arrival)
    BY <1>2
  <2>2. QED
    BY <2>1, ConcatAssociative
<1>4. KeysOf(g \o h) = KeysOf(g) \o KeysOf(h)
  BY <1>2, TakenTogether
<1>5. Characters(g \o h) = Characters(g) \o Characters(h)
  BY <1>2, TakenTogether
<1>6. QED
  BY <1>1, <1>2, <1>3, <1>4, <1>5 DEF Gains

\* What a name of key_press does to the desk.
TakesKey(k, s, t) ==
  /\ t \in Desks /\ t.held = s.held \cup NamedBy(k)
  /\ \E g : Gains(s, t, g) /\ KeysOf(g) = WithModifiers(KeyMeant(k), s.held \cup NamedBy(k))

LEMMA KeySent ==
  ASSUME NEW k, Len(k) \in {1, 2}, NEW s \in Desks, s.held \subseteq Mods, NEW t, Leads(KeyEvents(k), s, t)
  PROVE  TakesKey(k, s, t)
<1> SUFFICES /\ t \in Desks /\ t.held = s.held \cup NamedBy(k)
             /\ \E g : Gains(s, t, g) /\ KeysOf(g) = WithModifiers(KeyMeant(k), s.held \cup NamedBy(k))
  BY DEF TakesKey
<1>0. ASSUME t = s, KeyMeant(k) = <<>>, NamedBy(k) = {}
      PROVE  /\ t \in Desks /\ t.held = s.held \cup NamedBy(k)
             /\ \E g : Gains(s, t, g) /\ KeysOf(g) = WithModifiers(KeyMeant(k), s.held \cup NamedBy(k))
  <2>1. WithModifiers(<<>>, s.held) = <<>>
    BY DEF WithModifiers
  <2>2. Gains(s, t, <<>>) /\ KeysOf(<<>>) = <<>>
    BY <1>0, GainsNothing
  <2>3. QED
    BY <1>0, <2>1, <2>2
<1>s. \A key \in Specials \cup AlNum : key \in Keys \ Mods
  BY KeySorts DEF Specials, AlNum, Mods
<1>a. \A key \in AlNum : key \in Keys \ Mods
  BY <1>s
<1>m. \A m \in Mods : m \in Keys /\ m \notin Specials /\ m \notin DOMAIN CharToVK
  BY KeySorts, CharacterSorts DEF Mods, Specials
<1>p. ASSUME NEW key \in Keys \ Mods, NEW u \in Desks, u.held \subseteq Mods, Leads(SendVKPress(key), u, t)
      PROVE  /\ t \in Desks /\ t.held = u.held
             /\ \E g : Gains(u, t, g) /\ KeysOf(g) = WithModifiers(<<key>>, u.held)
  <2>1. t \in Desks /\ t.held = u.held /\ t.got = Append(u.got, [key |-> key, mods |-> u.held \cap Mods, at |-> u.cursor])
    <3>1. key \notin u.held
      BY <1>p
    <3>2. QED
      BY <1>p, <3>1, PressSent
  <2>2. u.held \cap Mods = u.held /\ u.held \in SUBSET Mods /\ u.cursor \in Points
    BY <1>p DEF Desks
  <2>3. t.got = Append(u.got, [key |-> key, mods |-> u.held, at |-> u.cursor])
    BY <2>1, <2>2
  <2>4. QED
    BY <2>1, <2>2, <2>3, GainsOne
<1>1. CASE Len(k) = 2 /\ k[1] \in Mods /\ k[2] \in AlNum
  <2>1. KeyEvents(k) = <<Down(k[1])>> \o SendVKPress(k[2]) /\ KeyMeant(k) = <<k[2]>> /\ NamedBy(k) = {k[1]}
    BY <1>1 DEF KeyEvents, KeyMeant, NamedBy
  <2>2. k[1] \in Keys /\ k[2] \in Keys \ Mods
    BY <1>1, <1>a, <1>m
  <2>3. <<Down(k[1])>> \in Seq(Event) /\ SendVKPress(k[2]) \in Seq(Event)
    BY <2>2, EventSorts, PressReleased, ReleasedEvents
  <2>4. PICK u \in Desks : Leads(<<Down(k[1])>>, s, u) /\ Leads(SendVKPress(k[2]), u, t)
    BY <2>1, <2>3, LeadsThrough
  <2>5. u.held = s.held \cup {k[1]} /\ u.got = s.got
    BY <1>1, <2>4, ModDownSent
  <2>6. u.held \subseteq Mods
    BY <1>1, <2>5
  <2>7. t \in Desks /\ t.held = u.held /\ \E g : Gains(u, t, g) /\ KeysOf(g) = WithModifiers(<<k[2]>>, u.held)
    BY <1>p, <2>2, <2>4, <2>6
  <2>8. PICK g : Gains(u, t, g) /\ KeysOf(g) = WithModifiers(<<k[2]>>, u.held)
    BY <2>7
  <2>9. Gains(s, t, g)
    BY <2>5, <2>8 DEF Gains
  <2>10. QED
    BY <2>1, <2>5, <2>7, <2>8, <2>9
<1>2. CASE Len(k) = 2 /\ ~(k[1] \in Mods /\ k[2] \in AlNum)
  <2>1. KeyEvents(k) = <<>> /\ KeyMeant(k) = <<>> /\ NamedBy(k) = {}
    BY <1>2 DEF KeyEvents, KeyMeant, NamedBy
  <2>2. t = s
    BY <2>1, LeadsNowhere
  <2>3. QED
    BY <1>0, <2>1, <2>2
<1>3. CASE Len(k) = 1 /\ k[1] \in Mods
  <2>1. KeyEvents(k) = <<Down(k[1])>> /\ KeyMeant(k) = <<>> /\ NamedBy(k) = {k[1]}
    BY <1>3, <1>m DEF KeyEvents, KeyMeant, NamedBy
  <2>2. t \in Desks /\ t.held = s.held \cup {k[1]} /\ t.got = s.got
    BY <1>3, <2>1, ModDownSent
  <2>3. Gains(s, t, <<>>) /\ KeysOf(<<>>) = <<>>
    BY <2>2, GainsNothing
  <2>4. WithModifiers(<<>>, s.held \cup {k[1]}) = <<>>
    BY DEF WithModifiers
  <2>5. QED
    BY <2>1, <2>2, <2>3, <2>4
<1>4. CASE Len(k) = 1 /\ k[1] \notin Mods /\ k[1] \in Specials
  <2>1. KeyEvents(k) = SendVKPress(k[1]) /\ KeyMeant(k) = <<k[1]>> /\ NamedBy(k) = {} /\ k[1] \in Keys \ Mods
    <3>1. k[1] \notin DOMAIN CharToVK
      BY <1>4, CharacterSorts DEF Specials
    <3>2. QED
      BY <1>4, <1>s, <3>1 DEF KeyEvents, KeyMeant, NamedBy
  <2>2. QED
    BY <1>p, <2>1
<1>5. CASE Len(k) = 1 /\ k[1] \notin Mods /\ k[1] \notin Specials /\ k[1] \in DOMAIN CharToVK
  <2>1. KeyEvents(k) = SendVKPress(CharToVK[k[1]].vk) /\ KeyMeant(k) = <<CharToVK[k[1]].vk>> /\ NamedBy(k) = {}
    BY <1>5 DEF KeyEvents, KeyMeant, NamedBy
  <2>2. CharToVK[k[1]].vk \in Keys \ Mods
    BY <1>5, <1>a, KeySorts
  <2>3. QED
    BY <1>p, <2>1, <2>2
<1>6. CASE Len(k) = 1 /\ k[1] \notin Mods /\ k[1] \notin Specials /\ k[1] \notin DOMAIN CharToVK
  <2>1. KeyEvents(k) = <<>> /\ KeyMeant(k) = <<>> /\ NamedBy(k) = {}
    BY <1>6 DEF KeyEvents, KeyMeant, NamedBy
  <2>2. t = s
    BY <2>1, LeadsNowhere
  <2>3. QED
    BY <1>0, <2>1, <2>2
<1>7. QED
  BY <1>1, <1>2, <1>3, <1>4, <1>5, <1>6

LEMMA NamedOn ==
  ASSUME NEW keys, NEW n \in Nat
  PROVE  Named(keys, 0) = {} /\ Named(keys, n + 1) = Named(keys, n) \cup NamedBy(keys[n + 1]) /\ Named(keys, n) \subseteq Mods
<1> DEFINE Is(m) == keys[m][1] \in Mods /\ (Len(keys[m]) = 1 \/ keys[m][2] \in AlNum)
<1>1. Named(keys, 0) = {} /\ Named(keys, n) \subseteq Mods
  BY DEF Named
<1>2. {m \in 1..n + 1 : Is(m)} = {m \in 1..n : Is(m)} \cup (IF Is(n + 1) THEN {n + 1} ELSE {})
  <2>1. \A m : m \in 1..n + 1 <=> m \in 1..n \/ m = n + 1
    OBVIOUS
  <2> HIDE DEF Is
  <2>2. QED
    BY <2>1
<1>3. {keys[m][1] : m \in {m \in 1..n + 1 : Is(m)}} =
        {keys[m][1] : m \in {m \in 1..n : Is(m)}} \cup (IF Is(n + 1) THEN {keys[n + 1][1]} ELSE {})
  <2> HIDE DEF Is
  <2>1. QED
    BY <1>2
<1>4. QED
  BY <1>1, <1>3 DEF Named, NamedBy

\* After n names the modifiers among them are held, and each key has arrived with those up to it.
HoldsNamed(es, ks, held2) ==
  \A s \in Desks : \A t : Leads(es, s, t) /\ s.held = {} =>
    t \in Desks /\ t.held = held2 /\ \E g : Gains(s, t, g) /\ KeysOf(g) = ks

LEMMA KeysSent ==
  ASSUME NEW keys, Len(keys) \in Nat, \A n \in 1..Len(keys) : Len(keys[n]) \in {1, 2},
         NEW parts, parts = [n \in 1..Len(keys) |-> KeyEvents(keys[n])]
  PROVE  Joined(parts) \in Seq(Event) /\ HoldsNamed(Joined(parts), Pressed(keys), Named(keys, Len(keys)))
<1>0. PICK N \in Nat : N = Len(keys)
  OBVIOUS
<1>1. PICK meant : meant = [n \in 1..Len(keys) |-> WithModifiers(KeyMeant(keys[n]), Named(keys, n))]
  OBVIOUS
<1>2. Len(parts) = N /\ Len(meant) = N
  BY <1>0, <1>1
<1>3. PICK f : Sums(f, parts) /\ Joined(parts) = f[Len(parts)]
  BY <1>2, JoinedSums
<1>4. PICK p : Sums(p, meant) /\ Joined(meant) = p[Len(meant)]
  BY <1>2, JoinedSums
<1>k. ASSUME NEW n \in 1..N
      PROVE  parts[n] = KeyEvents(keys[n]) /\ meant[n] = WithModifiers(KeyMeant(keys[n]), Named(keys, n))
             /\ parts[n] \in Seq(Event) /\ Len(keys[n]) \in {1, 2}
  <2>1. parts[n] = KeyEvents(keys[n]) /\ meant[n] = WithModifiers(KeyMeant(keys[n]), Named(keys, n)) /\ Len(keys[n]) \in {1, 2}
    BY <1>0, <1>1
  <2>2. parts[n] \in Seq(Strokes)
    BY <2>1, KeyEventsButMods DEF AllButMods
  <2>3. Strokes \subseteq Event
    BY StrokesGoOn
  <2>4. QED
    BY <2>1, <2>2, <2>3
<1> DEFINE I == {n \in 0..N : f[n] \in Seq(Event) /\ HoldsNamed(f[n], p[n], Named(keys, n))}
<1>5. 0 \in I
  <2>1. f[0] = <<>> /\ p[0] = <<>> /\ Named(keys, 0) = {}
    BY <1>3, <1>4, NamedOn DEF Sums
  <2>2. <<>> \in Seq(Event)
    BY EmptySeq
  <2>3. ASSUME NEW s \in Desks, NEW t, Leads(<<>>, s, t), s.held = {}
        PROVE  t \in Desks /\ t.held = {} /\ \E g : Gains(s, t, g) /\ KeysOf(g) = <<>>
    <3>1. t = s
      BY <2>3, LeadsNowhere
    <3>2. QED
      BY <2>3, <3>1, GainsNothing
  <2>4. HoldsNamed(<<>>, <<>>, {})
    BY <2>3 DEF HoldsNamed
  <2>5. f[0] \in Seq(Event) /\ HoldsNamed(f[0], p[0], Named(keys, 0))
    BY <2>1, <2>2, <2>4
  <2>6. QED
    BY <1>0, <2>5
<1>6. ASSUME NEW n \in 0..N, n \in I, n # N PROVE n + 1 \in I
  <2>1. n + 1 \in 1..N /\ (n + 1) - 1 = n /\ n \in Nat /\ n + 1 \in 0..N
    BY <1>6
  <2>2. f[n + 1] = f[n] \o parts[n + 1] /\ p[n + 1] = p[n] \o meant[n + 1]
    BY <1>2, <1>3, <1>4, <2>1 DEF Sums
  <2>3. f[n] \in Seq(Event) /\ HoldsNamed(f[n], p[n], Named(keys, n))
    BY <1>6
  <2>4. PICK k : k = keys[n + 1]
    OBVIOUS
  <2>5. parts[n + 1] = KeyEvents(k) /\ KeyEvents(k) \in Seq(Event) /\ Len(k) \in {1, 2}
        /\ meant[n + 1] = WithModifiers(KeyMeant(k), Named(keys, n + 1))
    BY <1>k, <2>1, <2>4
  <2>6. Named(keys, n + 1) = Named(keys, n) \cup NamedBy(k) /\ Named(keys, n) \subseteq Mods
    BY <2>1, <2>4, NamedOn
  <2>7. PICK a \in Seq(Event), b \in Seq(Event) : a = f[n] /\ b = KeyEvents(k)
    BY <2>3, <2>5
  <2> HIDE DEF I
  <2>8. ASSUME NEW s \in Desks, NEW t, Leads(a \o b, s, t), s.held = {}
        PROVE  t \in Desks /\ t.held = Named(keys, n + 1) /\ \E g : Gains(s, t, g) /\ KeysOf(g) = p[n + 1]
    <3>1. PICK u \in Desks : Leads(a, s, u) /\ Leads(b, u, t)
      BY <2>8, LeadsThrough
    <3>2. u.held = Named(keys, n) /\ \E g : Gains(s, u, g) /\ KeysOf(g) = p[n]
      BY <2>3, <2>7, <2>8, <3>1 DEF HoldsNamed
    <3>3. PICK g : Gains(s, u, g) /\ KeysOf(g) = p[n]
      BY <3>2
    <3>4. u.held \subseteq Mods /\ Leads(KeyEvents(k), u, t)
      BY <2>6, <2>7, <3>1, <3>2
    <3>t. TakesKey(k, u, t)
      <4>1. Len(k) \in {1, 2}
        BY <2>5
      <4>2. u.held \subseteq Mods
        BY <3>4
      <4>3. Leads(KeyEvents(k), u, t)
        BY <3>4
      <4>4. QED
        BY <4>1, <4>2, <4>3, KeySent
    <3>5. t \in Desks /\ t.held = u.held \cup NamedBy(k)
      BY <3>t DEF TakesKey
    <3>6. PICK h : Gains(u, t, h) /\ KeysOf(h) = WithModifiers(KeyMeant(k), u.held \cup NamedBy(k))
      BY <3>t DEF TakesKey
    <3>7. Gains(s, t, g \o h) /\ KeysOf(g \o h) = KeysOf(g) \o KeysOf(h)
      <4>1. Gains(s, t, g \o h)
        BY <3>3, <3>6, GainsBoth, Zenon
      <4>2. KeysOf(g \o h) = KeysOf(g) \o KeysOf(h)
        <5>1. PICK g1 \in Seq(Arrival), h1 \in Seq(Arrival) : g1 = g /\ h1 = h
          BY <3>3, <3>6 DEF Gains
        <5>2. KeysOf(g1 \o h1) = KeysOf(g1) \o KeysOf(h1)
          BY TakenTogether
        <5>3. QED
          BY <5>1, <5>2
      <4>3. QED
        BY <4>1, <4>2
    <3>8. KeysOf(g \o h) = p[n + 1]
      BY <2>2, <2>5, <2>6, <3>2, <3>3, <3>6, <3>7
    <3>9. QED
      BY <2>6, <3>2, <3>5, <3>7, <3>8
  <2>9. HoldsNamed(a \o b, p[n + 1], Named(keys, n + 1))
    BY <2>8 DEF HoldsNamed
  <2>10. f[n + 1] = a \o b /\ a \o b \in Seq(Event)
    <3>1. a \o b \in Seq(Event)
      OBVIOUS
    <3>2. f[n + 1] = f[n] \o parts[n + 1] /\ parts[n + 1] = b
      BY <2>2, <2>5, <2>7
    <3>3. QED
      BY <2>7, <3>1, <3>2
  <2>11. QED
    BY <2>1, <2>9, <2>10 DEF I
<1> HIDE DEF I
<1>7. N \in I
  BY <1>5, <1>6, CountUp
<1>8. Pressed(keys) = p[N]
  BY <1>1, <1>2, <1>4 DEF Pressed
<1>9. Joined(parts) = f[N]
  BY <1>2, <1>3
<1>10. QED
  BY <1>0, <1>7, <1>8, <1>9 DEF I

\* A key_press begins with its check, sends its keys and ends by releasing what they hold.
LEMMA KeyPressParts ==
  ASSUME NEW keys, Len(keys) \in Nat, NEW parts, parts = [n \in 1..Len(keys) |-> KeyEvents(keys[n])],
         Joined(parts) \in Seq(Event)
  PROVE  \E rel \in Quiet : KeyPress(keys) = (<<Elevation>> \o Joined(parts)) \o rel
<1>1. PICK sent \in Seq(Event) : sent = Joined(parts)
  OBVIOUS
<1> DEFINE FromEnd(n) == sent[Len(sent) + 1 - n]
<1>2. PICK ups : ups = [n \in 1..Len(sent) |->
        IF FromEnd(n).do = "down" /\ FromEnd(n).key \in Mods THEN <<Up(FromEnd(n).key)>> ELSE <<>>]
  OBVIOUS
<1>3. ASSUME NEW k \in Mods PROVE <<Up(k)>> \in Quiet
  <2>1. k \in Keys /\ <<Up(k)>> \in Seq(Event)
    BY KeySorts, EventSorts
  <2>2. ASSUME NEW s \in Desks, NEW t, Leads(<<Up(k)>>, s, t) PROVE t \in Desks /\ t.got = s.got
    BY <2>1, <2>2, UpSent
  <2>3. QED
    BY <2>1, <2>2 DEF Quiet
<1>4. ASSUME NEW n \in 1..Len(sent) PROVE ups[n] \in Quiet
  <2>1. CASE FromEnd(n).do = "down" /\ FromEnd(n).key \in Mods
    BY <1>2, <1>3, <2>1
  <2>2. CASE ~(FromEnd(n).do = "down" /\ FromEnd(n).key \in Mods)
    BY <1>2, <2>2, QuietOn
  <2>3. QED
    BY <2>1, <2>2
<1>5. Len(ups) \in Nat /\ \A n \in 1..Len(ups) : ups[n] \in Quiet
  BY <1>2, <1>4
<1>6. Joined(ups) \in Quiet
  BY <1>5, QuietOn, JoinedStays
<1>7. KeyPress(keys) = (<<Elevation>> \o Joined(parts)) \o Joined(ups)
  BY <1>1, <1>2, Zenon DEF KeyPress, FromEnd
<1>8. QED
  BY <1>6, <1>7

LEMMA ElevationPassed ==
  ASSUME NEW s \in Desks, NEW t, Leads(<<Elevation>>, s, t)
  PROVE  t \in Desks /\ t.held = s.held /\ t.got = s.got /\ t.cursor = s.cursor
<1>1. Elevation.do \notin {"down", "up"} /\ "to" \notin DOMAIN Elevation
  BY DEF Elevation
<1>2. Pointed(Elevation, s) = s.cursor
  BY <1>1 DEF Pointed
<1>3. QED
  BY <1>1, <1>2, PassedSent

LEMMA KeyPressSent ==
  ASSUME NEW keys, Len(keys) \in Nat, \A n \in 1..Len(keys) : Len(keys[n]) \in {1, 2},
         NEW s \in Desks, s.held = {}, NEW t, Leads(KeyPress(keys), s, t)
  PROVE  t \in Desks /\ \E g : Gains(s, t, g) /\ KeysOf(g) = Pressed(keys)
<1>1. PICK parts : parts = [n \in 1..Len(keys) |-> KeyEvents(keys[n])]
  OBVIOUS
<1>2. Joined(parts) \in Seq(Event) /\ HoldsNamed(Joined(parts), Pressed(keys), Named(keys, Len(keys)))
  BY <1>1, KeysSent
<1>3. PICK rel \in Quiet : KeyPress(keys) = (<<Elevation>> \o Joined(parts)) \o rel
  BY <1>1, <1>2, KeyPressParts
<1>4. <<Elevation>> \in Seq(Event) /\ <<Elevation>> \o Joined(parts) \in Seq(Event) /\ rel \in Seq(Event)
  BY <1>2, EventSorts DEF Quiet
<1>5. PICK v \in Desks : Leads(<<Elevation>> \o Joined(parts), s, v) /\ Leads(rel, v, t)
  BY <1>3, <1>4, LeadsThrough
<1>6. PICK u \in Desks : Leads(<<Elevation>>, s, u) /\ Leads(Joined(parts), u, v)
  BY <1>2, <1>4, <1>5, LeadsThrough
<1>7. u.held = {} /\ u.got = s.got
  BY <1>6, ElevationPassed
<1>8. PICK g : Gains(u, v, g) /\ KeysOf(g) = Pressed(keys)
  BY <1>2, <1>6, <1>7 DEF HoldsNamed
<1>9. t \in Desks /\ t.got = v.got
  BY <1>5 DEF Quiet
<1>10. QED
  BY <1>7, <1>8, <1>9 DEF Gains

LEMMA TrailStep ==
  ASSUME NEW f, NEW es, Len(es) \in Nat, NEW s, NEW t, Trail(f, es, s, t), NEW n \in 1..Len(es)
  PROVE  f[n - 1] \in Desks /\ f[n] \in Desks /\ Leads(<<es[n]>>, f[n - 1], f[n])
<1>1. f[n - 1] \in Desks /\ f[n] \in Desks /\ es[n].do # "refuse" /\ f[n] = Sent(es[n], f[n - 1])
  BY DEF Trail
<1>2. PICK e, u, v : e = es[n] /\ u = f[n - 1] /\ v = f[n]
  OBVIOUS
<1>3. PICK g : g = [i \in 0..1 |-> IF i = 0 THEN u ELSE v]
  OBVIOUS
<1>4. g[0] = u /\ g[1] = v /\ 1 - 1 = 0 /\ Len(<<e>>) = 1 /\ <<e>>[1] = e
  BY <1>3
<1>5. \A i \in 0..1 : g[i] \in Desks
  BY <1>1, <1>2, <1>3
<1>6. \A i \in 1..1 : <<e>>[i].do # "refuse" /\ g[i] = Sent(<<e>>[i], g[i - 1])
  <2>1. \A i \in 1..1 : i = 1
    OBVIOUS
  <2>2. QED
    BY <1>1, <1>2, <1>4, <2>1
<1>7. Trail(g, <<e>>, u, v)
  BY <1>4, <1>5, <1>6 DEF Trail
<1>8. QED
  BY <1>1, <1>2, <1>7 DEF Leads

LEMMA SelectAllArrives ==
  ASSUME NEW s \in Desks, s.held = {}, NEW t, Leads(SelectAll, s, t)
  PROVE  /\ t \in Desks /\ t.held = {}
         /\ \E a \in Arrival : a.key = "a" /\ a.mods = {"ctrl"} /\ t.got = Append(s.got, a)
<1>k. "ctrl" \in Mods /\ "ctrl" \in Keys /\ "a" \in Keys /\ "a" \notin Mods
  BY KeySorts DEF Mods, AlNum
<1>1. PICK f : Trail(f, SelectAll, s, t)
  BY DEF Leads
<1>2. Len(SelectAll) = 5 /\ SelectAll[1] = Elevation /\ SelectAll[2] = Down("ctrl") /\ SelectAll[3] = Down("a")
      /\ SelectAll[4] = Up("a") /\ SelectAll[5] = Up("ctrl")
  BY DEF SelectAll
<1>3. f[0] = s /\ f[5] = t
  BY <1>1, <1>2 DEF Trail
<1>4. \A n \in 1..5 : f[n - 1] \in Desks /\ f[n] \in Desks /\ Leads(<<SelectAll[n]>>, f[n - 1], f[n])
  <2>1. Len(SelectAll) \in Nat
    BY <1>2
  <2>2. \A n \in 1..Len(SelectAll) : f[n - 1] \in Desks /\ f[n] \in Desks /\ Leads(<<SelectAll[n]>>, f[n - 1], f[n])
    BY <1>1, <2>1, TrailStep
  <2>3. QED
    BY <1>2, <2>2
<1>5. PICK u \in Desks, v \in Desks, w \in Desks, x \in Desks : u = f[1] /\ v = f[2] /\ w = f[3] /\ x = f[4]
  BY <1>4
<1>6. /\ Leads(<<Elevation>>, s, u) /\ Leads(<<Down("ctrl")>>, u, v) /\ Leads(<<Down("a")>>, v, w)
      /\ Leads(<<Up("a")>>, w, x) /\ Leads(<<Up("ctrl")>>, x, t)
  <2>1. /\ Leads(<<SelectAll[1]>>, f[1 - 1], f[1]) /\ Leads(<<SelectAll[2]>>, f[2 - 1], f[2])
        /\ Leads(<<SelectAll[3]>>, f[3 - 1], f[3]) /\ Leads(<<SelectAll[4]>>, f[4 - 1], f[4])
        /\ Leads(<<SelectAll[5]>>, f[5 - 1], f[5])
    BY <1>4
  <2>2. 1 - 1 = 0 /\ 2 - 1 = 1 /\ 3 - 1 = 2 /\ 4 - 1 = 3 /\ 5 - 1 = 4
    OBVIOUS
  <2>3. QED
    BY <1>2, <1>3, <1>5, <2>1, <2>2
<1>7. u.held = {} /\ u.got = s.got
  BY <1>6, ElevationPassed
<1>8. v.held = {"ctrl"} /\ v.got = s.got
  <2>1. v.held = u.held \cup {"ctrl"} /\ v.got = u.got
    BY <1>k, <1>6, ModDownSent
  <2>2. QED
    BY <1>7, <2>1
<1>9. PICK a : a = [key |-> "a", mods |-> {"ctrl"}, at |-> v.cursor]
  OBVIOUS
<1>10. w.held = {"ctrl", "a"} /\ w.got = Append(s.got, a)
  <2>1. w.held = v.held \cup {"a"} /\ w.got = Append(v.got, [key |-> "a", mods |-> v.held \cap Mods, at |-> v.cursor])
    BY <1>k, <1>6, KeyDownSent
  <2>2. v.held \cap Mods = {"ctrl"}
    BY <1>k, <1>8
  <2>3. QED
    BY <1>k, <1>8, <1>9, <2>1, <2>2
<1>11. x.held = w.held \ {"a"} /\ x.got = w.got
  BY <1>k, <1>6, UpSent
<1>12. t \in Desks /\ t.held = x.held \ {"ctrl"} /\ t.got = x.got
  BY <1>k, <1>6, UpSent
<1>13. a \in Arrival /\ a.key = "a" /\ a.mods = {"ctrl"}
  BY <1>k, <1>9 DEF Arrival, Desks
<1>14. QED
  BY <1>10, <1>11, <1>12, <1>13

\* Presses of the button where the pointer is, one for each asked.
LEMMA ClicksArrive ==
  ASSUME NEW times \in Nat, NEW s \in Desks, s.held = {}, s.got = <<>>, NEW t,
         Leads(Joined([n \in 1..times |-> SendVKPress("left")]), s, t)
  PROVE  t \in Desks /\ t.got = [n \in 1..times |-> [key |-> "left", mods |-> {}, at |-> s.cursor]]
<1>k. "left" \in Keys \ Mods
  BY KeySorts DEF Mods
<1>1. PICK parts : parts = [n \in 1..times |-> SendVKPress("left")]
  OBVIOUS
<1>2. Len(parts) = times /\ \A n \in 1..times : parts[n] = SendVKPress("left")
  BY <1>1
<1>3. SendVKPress("left") \in Seq(Event)
  BY <1>k, PressReleased, ReleasedEvents
<1>4. PICK f : Sums(f, parts) /\ Joined(parts) = f[times]
  BY <1>2, JoinedSums
<1>5. PICK a : a = [key |-> "left", mods |-> {}, at |-> s.cursor]
  OBVIOUS
<1> DEFINE Clicked(n) == [i \in 1..n |-> a]
           Fine(n) == f[n] \in Seq(Event) /\ \A u : Leads(f[n], s, u) =>
                        u \in Desks /\ u.held = {} /\ u.cursor = s.cursor /\ u.got = Clicked(n)
           I == {n \in 0..times : Fine(n)}
<1>6. 0 \in I
  <2>1. f[0] = <<>> /\ <<>> \in Seq(Event)
    BY <1>4, EmptySeq DEF Sums
  <2>2. Clicked(0) = <<>>
    OBVIOUS
  <2> HIDE DEF Clicked
  <2>3. ASSUME NEW u, Leads(f[0], s, u) PROVE u \in Desks /\ u.held = {} /\ u.cursor = s.cursor /\ u.got = Clicked(0)
    BY <2>1, <2>2, <2>3, LeadsNowhere
  <2>4. Fine(0)
    BY <2>1, <2>3
  <2> HIDE DEF Fine
  <2>5. QED
    BY <2>4
<1>7. ASSUME NEW n \in 0..times, n \in I, n # times PROVE n + 1 \in I
  <2>1. n + 1 \in 1..times /\ n + 1 \in 0..times /\ (n + 1) - 1 = n /\ n \in Nat
    BY <1>7
  <2>2. f[n + 1] = f[n] \o SendVKPress("left")
    BY <1>2, <1>4, <2>1 DEF Sums
  <2>3. PICK g \in Seq(Event), b \in Seq(Event) : g = f[n] /\ b = SendVKPress("left")
    BY <1>3, <1>7
  <2>4. Append(Clicked(n), a) = Clicked(n + 1)
    <3>1. Clicked(n) \in Seq({a}) /\ Len(Clicked(n)) = n
      BY <2>1
    <3>2. Append(Clicked(n), a) = [i \in 1..n + 1 |-> IF i = n + 1 THEN a ELSE Clicked(n)[i]]
      BY <2>1, <3>1
    <3>3. \A i \in 1..n + 1 : (IF i = n + 1 THEN a ELSE Clicked(n)[i]) = a
      BY <2>1
    <3>4. QED
      BY <3>2, <3>3
  <2>5. ASSUME NEW u, Leads(f[n + 1], s, u)
        PROVE  u \in Desks /\ u.held = {} /\ u.cursor = s.cursor /\ u.got = Clicked(n + 1)
    <3>1. PICK v \in Desks : Leads(g, s, v) /\ Leads(b, v, u)
      BY <2>2, <2>3, <2>5, LeadsThrough
    <3>2. v.held = {} /\ v.cursor = s.cursor /\ v.got = Clicked(n)
      BY <1>7, <2>3, <3>1
    <3> HIDE DEF Clicked
    <3>3. /\ u \in Desks /\ u.held = v.held /\ u.cursor = v.cursor
          /\ u.got = Append(v.got, [key |-> "left", mods |-> v.held \cap Mods, at |-> v.cursor])
      <4>1. "left" \notin v.held /\ Leads(SendVKPress("left"), v, u)
        BY <2>3, <3>1, <3>2
      <4>2. QED
        BY <1>k, <4>1, PressSent
    <3>4. [key |-> "left", mods |-> v.held \cap Mods, at |-> v.cursor] = a
      BY <1>5, <3>2
    <3>5. QED
      BY <2>4, <3>2, <3>3, <3>4
  <2>6. f[n + 1] \in Seq(Event)
    BY <2>2, <2>3
  <2> HIDE DEF Clicked
  <2>7. Fine(n + 1)
    BY <2>5, <2>6
  <2> HIDE DEF Fine
  <2>8. QED
    BY <2>1, <2>7
<1>8. times \in I
  <2> HIDE DEF I
  <2>1. QED
    BY <1>6, <1>7, CountUp
<1>9. Leads(f[times], s, t)
  BY <1>1, <1>4
<1>10. t \in Desks /\ t.got = Clicked(times)
  BY <1>8, <1>9
<1>11. QED
  BY <1>5, <1>10

LEMMA ClickArrives ==
  ASSUME NEW p, NEW times \in Nat, NEW s \in Desks, s.held = {}, s.got = <<>>, NEW t, Leads(Click(p, times), s, t)
  PROVE  t.got = [n \in 1..times |-> [key |-> "left", mods |-> {}, at |-> p]]
<1>1. p \in ScreenPoints /\ Leads(Click(p, times), s, t)
  <2>1. Refuse.do = "refuse"
    BY DEF Refuse
  <2>2. ~Leads(<<Refuse>>, s, t)
    BY <2>1, LeadsOne
  <2>3. QED
    BY <2>2 DEF Click
<1>2. PICK es : es = Joined([n \in 1..times |-> SendVKPress("left")])
  OBVIOUS
<1>3. es \in Seq(Event)
  <2>1. PICK parts : parts = [n \in 1..times |-> SendVKPress("left")]
    OBVIOUS
  <2>2. Len(parts) \in Nat /\ \A n \in 1..Len(parts) : parts[n] \in Released
    BY <2>1, KeySorts, PressReleased
  <2>3. Joined(parts) \in Released
    BY <2>2, ReleasedConcat, JoinedStays
  <2>4. QED
    BY <1>2, <2>1, <2>3, ReleasedEvents
<1>4. Click(p, times) = (<<MoveTo(p)>> \o es) \o <<Classify>>
  BY <1>1, <1>2 DEF Click
<1>5. <<MoveTo(p)>> \in Seq(Event) /\ <<Classify>> \in Seq(Event) /\ <<MoveTo(p)>> \o es \in Seq(Event)
  BY <1>1, <1>3, EventSorts
<1>6. PICK v \in Desks : Leads(<<MoveTo(p)>> \o es, s, v) /\ Leads(<<Classify>>, v, t)
  BY <1>1, <1>4, <1>5, LeadsThrough
<1>7. PICK u \in Desks : Leads(<<MoveTo(p)>>, s, u) /\ Leads(es, u, v)
  BY <1>3, <1>5, <1>6, LeadsThrough
<1>8. u.held = {} /\ u.got = <<>> /\ u.cursor = p
  <2>1. MoveTo(p).do \notin {"down", "up"} /\ Pointed(MoveTo(p), s) = p
    BY DEF MoveTo, Pointed
  <2>2. u.held = s.held /\ u.got = s.got /\ u.cursor = Pointed(MoveTo(p), s)
    BY <1>7, <2>1, PassedSent
  <2>3. QED
    BY <2>1, <2>2
<1>9. v.got = [n \in 1..times |-> [key |-> "left", mods |-> {}, at |-> u.cursor]]
  BY <1>2, <1>7, <1>8, ClicksArrive
<1>10. t.got = v.got
  <2>1. Classify.do \notin {"down", "up"}
    BY DEF Classify
  <2>2. QED
    BY <1>6, <2>1, PassedSent
<1>11. QED
  BY <1>8, <1>9, <1>10

LEMMA AllOfIt ==
  ASSUME NEW s \in Desks, s.got = <<>>, NEW t, NEW g \in Seq(Arrival), t.got = s.got \o g
  PROVE  t.got = g
<1>1. <<>> \o g = g
  BY ConcatEmptySeq
<1>2. QED
  BY <1>1

\* What typing text gives after the check of the window.
LEMMA TypedAfterCheck ==
  ASSUME NEW es \in Seq(Event), NEW cs, TypesAs(es, cs)
  PROVE  TypesAs(<<Elevation>> \o es, cs)
<1> SUFFICES ASSUME NEW s \in Desks, NEW t, Leads(<<Elevation>> \o es, s, t), s.held = {}
             PROVE  t \in Desks /\ t.held = {} /\ \E g \in Seq(Arrival) : t.got = s.got \o g /\ Characters(g) = cs
  BY DEF TypesAs
<1>1. <<Elevation>> \in Seq(Event)
  BY EventSorts
<1>2. PICK u \in Desks : Leads(<<Elevation>>, s, u) /\ Leads(es, u, t)
  BY <1>1, LeadsThrough
<1>3. u.held = {} /\ u.got = s.got
  BY <1>2, ElevationPassed
<1>4. QED
  BY <1>2, <1>3 DEF TypesAs

\* From a desk where nothing is held, what a call sends is received as it is meant.
LEMMA EventsReceived ==
  ASSUME NEW r \in InputRequests, NEW s \in Desks, s.held = {}, s.got = <<>>, NEW t, Leads(Events(r), s, t)
  PROVE  Received(r, t.got)
<1>c. Characters(t.got) = [n \in 1..Len(t.got) |-> AsCharacter(t.got[n])]
  BY DEF Characters
<1>txt. r.tool \in {"type", "type_and_submit", "select_all_and_type"} => Len(r.text) \in Nat
  BY InputRequestsAssumption
<1>1. CASE r.tool = "click"
  <2>1. r.times \in Nat /\ Leads(Click(r.at, r.times), s, t)
    BY <1>1, InputRequestsAssumption DEF Events
  <2>2. t.got = [n \in 1..r.times |-> [key |-> "left", mods |-> {}, at |-> r.at]]
    BY <2>1, ClickArrives
  <2>3. QED
    BY <1>1, <2>2 DEF Received
<1>2. CASE r.tool = "type"
  <2>1. PICK es \in Seq(Event) : es = TypeText(r.text)
    BY <1>2, <1>txt, TextTyped, ReleasedEvents
  <2>2. TypesAs(es, Typed(r.text, Specials)) /\ Leads(<<Elevation>> \o es, s, t)
    BY <1>2, <1>txt, <2>1, TextTyped DEF Events
  <2>3. PICK g \in Seq(Arrival) : t.got = s.got \o g /\ Characters(g) = Typed(r.text, Specials)
    <3>1. TypesAs(<<Elevation>> \o es, Typed(r.text, Specials))
      BY <2>2, TypedAfterCheck
    <3>2. QED
      BY <2>2, <3>1 DEF TypesAs
  <2>4. Characters(t.got) = Typed(r.text, Specials)
    BY <2>3, AllOfIt
  <2>5. QED
    BY <1>2, <1>c, <2>4 DEF Received
<1>3. CASE r.tool = "type_and_submit"
  <2>1. PICK es \in Seq(Event) : es = Joined([n \in 1..Len(r.text) |-> SendCharWithVK(r.text[n])])
    BY <1>3, <1>txt, TextTyped, ReleasedEvents
  <2>2. TypesAs(es, Typed(r.text, {}))
    BY <1>3, <1>txt, <2>1, TextTyped
  <2>t. TypesAs(<<Elevation>> \o es, Typed(r.text, {}))
    BY <2>2, TypedAfterCheck
  <2>3. PICK keys : keys = <<<<"enter">>>>
    OBVIOUS
  <2>4. Len(keys) = 1 /\ keys[1] = <<"enter">> /\ Len(keys[1]) = 1 /\ keys[1][1] = "enter"
    BY <2>3
  <2>n. Len(keys) \in Nat
    BY <2>4
  <2>5. PICK fs \in Released : KeyPress(keys) = <<Elevation>> \o fs
    BY <2>n, KeyPressReleased
  <2>6. /\ <<Elevation>> \in Seq(Event) /\ fs \in Seq(Event)
        /\ <<Elevation>> \o es \in Seq(Event) /\ KeyPress(keys) \in Seq(Event)
    BY <2>5, EventSorts, ReleasedEvents
  <2>7. Events(r) = (<<Elevation>> \o es) \o KeyPress(keys)
    BY <1>3, <2>1, <2>3 DEF Events, TypeAndSubmit
  <2>8. PICK u \in Desks : Leads(<<Elevation>> \o es, s, u) /\ Leads(KeyPress(keys), u, t)
    BY <2>6, <2>7, LeadsThrough
  <2>9. u.held = {}
    BY <2>t, <2>8 DEF TypesAs
  <2>10. PICK g \in Seq(Arrival) : u.got = s.got \o g /\ Characters(g) = Typed(r.text, {})
    BY <2>t, <2>8 DEF TypesAs
  <2>11. PICK h : Gains(u, t, h) /\ KeysOf(h) = Pressed(keys)
    <3>1. \A n \in 1..Len(keys) : Len(keys[n]) \in {1, 2}
      <4>1. ASSUME NEW n \in 1..Len(keys) PROVE n = 1
        BY <2>4
      <4>2. QED
        BY <2>4, <4>1
    <3>2. QED
      BY <2>n, <2>8, <2>9, <3>1, KeyPressSent
  <2>12. Characters(h) = <<"enter">>
    <3>1. PICK ps : ps = [n \in 1..Len(keys) |-> WithModifiers(KeyMeant(keys[n]), Named(keys, n))]
      OBVIOUS
    <3>2. Len(ps) = 1 /\ ps[1] = WithModifiers(<<"enter">>, Named(keys, 1))
      <4>1. KeyMeant(<<"enter">>) = <<"enter">>
        <5>1. "enter" \in Specials /\ "enter" \notin DOMAIN CharToVK /\ Len(<<"enter">>) = 1 /\ <<"enter">>[1] = "enter"
          BY CharacterSorts DEF Specials
        <5>2. QED
          BY <5>1 DEF KeyMeant
      <4>2. QED
        BY <2>4, <3>1, <4>1
    <3>3. PICK p : Sums(p, ps) /\ Joined(ps) = p[Len(ps)]
      <4>1. Len(ps) \in Nat
        BY <3>2
      <4>2. QED
        BY <4>1, JoinedSums
    <3>4. p[1] = <<>> \o ps[1]
      <4>1. 1 \in 1..Len(ps) /\ 1 - 1 = 0
        BY <3>2
      <4>2. QED
        BY <3>3, <4>1 DEF Sums
    <3>5. PICK x : x = [key |-> "enter", mods |-> Named(keys, 1)]
      OBVIOUS
    <3>6. ps[1] = <<x>>
      <4>1. Len(<<"enter">>) = 1 /\ <<"enter">>[1] = "enter"
        OBVIOUS
      <4>2. ps[1] = [i \in 1..1 |-> [key |-> <<"enter">>[i], mods |-> Named(keys, 1)]]
        BY <3>2, <4>1 DEF WithModifiers
      <4>3. [i \in 1..1 |-> [key |-> <<"enter">>[i], mods |-> Named(keys, 1)]] = <<x>>
        BY <3>5, <4>1
      <4>4. QED
        BY <4>2, <4>3
    <3>7. KeysOf(h) = <<x>>
      <4>1. <<x>> \in Seq({x})
        OBVIOUS
      <4>2. <<>> \o <<x>> = <<x>>
        BY <4>1, ConcatEmptySeq
      <4>3. Pressed(keys) = p[1]
        BY <3>1, <3>2, <3>3 DEF Pressed
      <4>4. QED
        BY <2>11, <3>4, <3>6, <4>2, <4>3
    <3>8. h \in Seq(Arrival)
      BY <2>11 DEF Gains
    <3>9. Len(h) = 1
      <4>1. Len(KeysOf(h)) = Len(h)
        BY <3>8, TakenTogether
      <4>2. QED
        BY <3>7, <4>1
    <3>10. h[1].key = "enter"
      <4>1. KeysOf(h)[1] = [key |-> h[1].key, mods |-> h[1].mods]
        BY <3>9 DEF KeysOf
      <4>2. KeysOf(h)[1] = x
        BY <3>7
      <4>3. QED
        BY <3>5, <4>1, <4>2
    <3>11. AsCharacter(h[1]) = "enter"
      BY <3>10 DEF AsCharacter, Specials
    <3>12. Characters(h) = [n \in 1..1 |-> AsCharacter(h[n])]
      BY <3>9 DEF Characters
    <3>13. QED
      BY <3>11, <3>12
  <2>13. t.got = g \o h
    <3>1. u.got = g
      BY <2>10, AllOfIt
    <3>2. QED
      BY <2>11, <3>1 DEF Gains
  <2>14. Characters(t.got) = Typed(r.text, {}) \o <<"enter">>
    <3>1. h \in Seq(Arrival)
      BY <2>11 DEF Gains
    <3>2. Characters(g \o h) = Characters(g) \o Characters(h)
      BY <3>1, TakenTogether
    <3>3. QED
      BY <2>10, <2>12, <2>13, <3>2
  <2>15. Typed(r.text, {}) \o <<"enter">> = Append(Typed(r.text, {}), "enter")
    <3>1. PICK m \in Nat : m = Len(g)
      OBVIOUS
    <3>2. PICK cs : cs = Typed(r.text, {}) /\ cs = [n \in 1..m |-> AsCharacter(g[n])]
      BY <2>10, <3>1 DEF Characters
    <3>3. cs \in Seq({AsCharacter(g[n]) : n \in 1..m} \cup {"enter"})
      BY <3>2
    <3>4. cs \o <<"enter">> = Append(cs, "enter")
      BY <3>3
    <3>5. QED
      BY <3>2, <3>4
  <2>16. QED
    BY <1>3, <1>c, <2>14, <2>15 DEF Received
<1>4. CASE r.tool = "select_all_and_type"
  <2>1. PICK es \in Seq(Event) : es = TypeText(r.text)
    BY <1>4, <1>txt, TextTyped, ReleasedEvents
  <2>2. TypesAs(es, Typed(r.text, Specials))
    BY <1>4, <1>txt, <2>1, TextTyped
  <2>3. <<Elevation>> \in Seq(Event) /\ SelectAll \in Seq(Event) /\ <<Elevation>> \o es \in Seq(Event)
    BY EventSorts, SelectAllSent DEF WellSent
  <2>4. Events(r) = SelectAll \o (<<Elevation>> \o es)
    <3>1. Events(r) = (SelectAll \o <<Elevation>>) \o es
      BY <1>4, <2>1 DEF Events
    <3>2. QED
      BY <2>3, <3>1, ConcatAssociative
  <2>t. TypesAs(<<Elevation>> \o es, Typed(r.text, Specials))
    BY <2>2, TypedAfterCheck
  <2>5. PICK u \in Desks : Leads(SelectAll, s, u) /\ Leads(<<Elevation>> \o es, u, t)
    BY <2>3, <2>4, LeadsThrough
  <2>6. u.held = {} /\ \E a \in Arrival : a.key = "a" /\ a.mods = {"ctrl"} /\ u.got = Append(s.got, a)
    BY <2>5, SelectAllArrives
  <2>7. PICK a \in Arrival : a.key = "a" /\ a.mods = {"ctrl"} /\ u.got = <<a>>
    BY <2>6
  <2>8. PICK g \in Seq(Arrival) : t.got = <<a>> \o g /\ Characters(g) = Typed(r.text, Specials)
    <3>1. \E g \in Seq(Arrival) : t.got = u.got \o g /\ Characters(g) = Typed(r.text, Specials)
      BY <2>t, <2>5, <2>6 DEF TypesAs
    <3>2. QED
      BY <2>7, <3>1
  <2>9. t.got # <<>> /\ t.got[1] = a
    <3>0. <<a>> \in Seq(Arrival) /\ Len(<<a>>) = 1 /\ <<a>>[1] = a
      OBVIOUS
    <3>1. PICK o \in Seq(Arrival) : o = <<a>> /\ Len(o) = 1 /\ o[1] = a
      BY <3>0
    <3>2. 1 \in 1..Len(o)
      BY <3>1
    <3>3. 1 \in 1..Len(o \o g) /\ (o \o g)[1] = o[1]
      BY <3>2, After
    <3>4. QED
      BY <2>8, <3>1, <3>3
  <2>10. Tail(Characters(t.got)) = Characters(g)
    <3>1. PICK m \in Nat : m = Len(g)
      OBVIOUS
    <3>2. t.got \in Seq(Arrival) /\ Len(t.got) = m + 1 /\ \A i \in 1..m : t.got[i + 1] = g[i]
      <4>0. <<a>> \in Seq(Arrival) /\ Len(<<a>>) = 1
        OBVIOUS
      <4>1. PICK o \in Seq(Arrival) : o = <<a>> /\ Len(o) = 1
        BY <4>0
      <4>2. \A i \in 1..Len(g) : (o \o g)[Len(o) + i] = g[i]
        BY After
      <4>3. Len(o \o g) = Len(o) + Len(g) /\ o \o g \in Seq(Arrival)
        BY After
      <4>4. QED
        BY <2>8, <3>1, <4>1, <4>2, <4>3
    <3>3. PICK X : X = {AsCharacter(t.got[n]) : n \in 1..m + 1}
      OBVIOUS
    <3>4. PICK cs \in Seq(X) : cs = Characters(t.got) /\ Len(cs) = m + 1 /\ \A n \in 1..m + 1 : cs[n] = AsCharacter(t.got[n])
      <4>1. [n \in 1..m + 1 |-> AsCharacter(t.got[n])] \in Seq(X)
        BY <3>1, <3>3
      <4>2. Characters(t.got) = [n \in 1..m + 1 |-> AsCharacter(t.got[n])]
        BY <3>2 DEF Characters
      <4>3. QED
        BY <3>1, <4>1, <4>2
    <3>5. Tail(cs) = [n \in 1..m |-> cs[n + 1]]
      BY <3>1, <3>4
    <3>6. \A n \in 1..m : cs[n + 1] = AsCharacter(g[n])
      BY <3>1, <3>2, <3>4
    <3>7. Characters(g) = [n \in 1..m |-> AsCharacter(g[n])]
      BY <3>1 DEF Characters
    <3>8. QED
      BY <3>4, <3>5, <3>6, <3>7
  <2>11. QED
    BY <1>4, <1>c, <2>7, <2>8, <2>9, <2>10 DEF Received
<1>5. CASE r.tool = "key_press"
  <2>1. Len(r.keys) \in Nat /\ \A n \in 1..Len(r.keys) : Len(r.keys[n]) \in {1, 2}
    BY <1>5, InputRequestsAssumption
  <2>2. Leads(KeyPress(r.keys), s, t)
    BY <1>5 DEF Events
  <2>3. PICK g : Gains(s, t, g) /\ KeysOf(g) = Pressed(r.keys)
    BY <2>1, <2>2, KeyPressSent
  <2>4. t.got = g
    BY <2>3, AllOfIt DEF Gains
  <2>5. QED
    BY <1>5, <2>3, <2>4 DEF Received, KeysOf
<1>6. CASE r.tool \notin {"click", "type", "type_and_submit", "select_all_and_type", "key_press"}
  BY <1>6 DEF Received
<1>7. QED
  BY <1>1, <1>2, <1>3, <1>4, <1>5, <1>6

-----------------------------------------------------------------------------
\* Two calls in flight at once have run beside one another.
OthersRest == \A c, d \in InputCallers : InFlight(c) /\ InFlight(d) /\ c # d => c \in interleaved
Alone(c) == c \notin interleaved /\ inputCall[c].from = {}
DeskOf(call) == [held |-> held, cursor |-> cursor, got |-> call.got]
\* What an undisturbed call has done so far of what it was asked.
FromNothing(s) == s \in Desks /\ s.held = {} /\ s.got = <<>>
Led(call, sent, s) == Events(call.r) = sent \o call.todo /\ Leads(sent, s, DeskOf(call))
SoFar(call) ==
  /\ call.at \in {"pre1", "pre2"} => call.todo = Events(call.r) /\ held = {}
  /\ call.at = "send" => \E sent \in Seq(Event), s \in Desks : FromNothing(s) /\ Led(call, sent, s)
  /\ call.at \in {"post1", "post2", "answer", "ok"} => Received(call.r, call.got)
AloneInv ==
  /\ OthersRest
  /\ \A c \in InputCallers : inputCall[c].at # "idle" /\ Alone(c) => SoFar(inputCall[c])

LEMMA SoloInit == InputInit => AloneInv
<1> SUFFICES ASSUME InputInit PROVE AloneInv
  OBVIOUS
<1>1. \A c \in InputCallers : inputCall[c].at = "idle"
  BY DEF InputInit, NoInputCall
<1>2. QED
  BY <1>1 DEF AloneInv, OthersRest, InFlight

\* A call that has just come to its input with nothing sent.
LEMMA SoFarBegins ==
  ASSUME InputTypes, NEW call \in InputCalls, call.todo = Events(call.r), call.got = <<>>, held = {}
  PROVE  \E sent \in Seq(Event), s \in Desks : FromNothing(s) /\ Led(call, sent, s)
<1>1. <<>> \in Seq(Event) /\ <<>> \in Seq(Arrival)
  BY EmptySeq
<1>2. PICK s : s = DeskOf(call)
  OBVIOUS
<1>3. s = [held |-> held, cursor |-> cursor, got |-> <<>>] /\ held \in SUBSET Keys /\ cursor \in Points
  BY <1>2 DEF DeskOf, InputTypes
<1>4. s \in Desks /\ FromNothing(s)
  BY <1>1, <1>3 DEF Desks, FromNothing
<1>5. Events(call.r) = <<>> \o call.todo
  <2>1. call.todo \in Seq(Event)
    BY DEF InputCalls
  <2>2. <<>> \o call.todo = call.todo
    BY <2>1, ConcatEmptySeq
  <2>3. QED
    BY <2>2
<1>6. Leads(<<>>, s, DeskOf(call))
  BY <1>2, <1>4, LeadsNowhere
<1>7. QED
  BY <1>1, <1>4, <1>5, <1>6 DEF Led

LEMMA FirstAndRest ==
  ASSUME NEW es \in Seq(Event), es # <<>>
  PROVE  Head(es) = es[1] /\ Tail(es) \in Seq(Event) /\ es = <<Head(es)>> \o Tail(es)
OBVIOUS

\* One event of it is sent.
LEMMA SoFarGoesOn ==
  ASSUME NEW todo \in Seq(Event), todo # <<>>, NEW e \in Event, e = todo[1], e.do # "refuse",
         NEW sent \in Seq(Event), NEW s, NEW t, Leads(sent, s, t)
  PROVE  \E more \in Seq(Event) : sent \o todo = more \o Tail(todo) /\ Leads(more, s, Sent(e, t))
<1>a. Tail(todo) \in Seq(Event) /\ <<e>> \in Seq(Event)
  BY FirstAndRest
<1>1. PICK rest \in Seq(Event) : rest = Tail(todo)
  BY <1>a
<1>2. PICK o \in Seq(Event) : o = <<e>>
  BY <1>a
<1>3. todo = o \o rest
  <2>1. e = Head(todo) /\ todo = <<Head(todo)>> \o Tail(todo)
    BY FirstAndRest
  <2>2. QED
    BY <1>1, <1>2, <2>1
<1>4. sent \o todo = (sent \o o) \o rest
  <2>1. (sent \o o) \o rest = sent \o (o \o rest)
    BY ConcatAssociative
  <2>2. QED
    BY <1>3, <2>1
<1>5. Leads(sent \o o, s, Sent(e, t))
  BY <1>2, LeadsOn
<1>6. sent \o o \in Seq(Event)
  OBVIOUS
<1>7. sent \o todo = (sent \o o) \o Tail(todo)
  BY <1>1, <1>4
<1>8. QED
  BY <1>5, <1>6, <1>7

\* All of it is sent.
LEMMA SoFarEnds ==
  ASSUME NEW call \in InputCalls, call.todo = <<>>, NEW sent \in Seq(Event), NEW s \in Desks, FromNothing(s), Led(call, sent, s)
  PROVE  Received(call.r, call.got)
<1>1. sent \o <<>> = sent
  BY ConcatEmptySeq
<1>2. Leads(Events(call.r), s, DeskOf(call)) /\ call.r \in InputRequests
  BY <1>1 DEF Led, InputCalls
<1>3. Received(call.r, DeskOf(call).got)
  BY <1>2, EventsReceived DEF FromNothing
<1>4. QED
  BY <1>3 DEF DeskOf

\* The others' calls when c goes on: they are at rest, or were disturbed.
LEMMA OthersSolo ==
  ASSUME InputTypes, AloneInv, NEW c \in InputCallers, InFlight(c), NEW new,
         inputCall' = [inputCall EXCEPT ![c] = new], interleaved' = interleaved,
         new.from = inputCall[c].from, new.at # "idle", Alone(c) => SoFar(new)'
  PROVE  AloneInv'
<1>1. inputCall'[c] = new /\ \A d \in InputCallers \ {c} : inputCall'[d] = inputCall[d]
  BY DEF InputTypes
<1>2. OthersRest'
  <2>1. \A d \in InputCallers : InFlight(d)' => InFlight(d)
    BY <1>1 DEF InFlight
  <2>2. QED
    BY <2>1 DEF AloneInv, OthersRest
<1>3. ASSUME NEW d \in InputCallers, inputCall'[d].at # "idle", Alone(d)' PROVE SoFar(inputCall[d])'
  <2>1. CASE d = c
    <3>1. Alone(c)
      BY <1>1, <1>3, <2>1 DEF Alone
    <3>2. SoFar(new)'
      BY <3>1
    <3>3. inputCall'[d] = new
      BY <1>1, <2>1
    <3>4. QED
      BY <3>2, <3>3 DEF SoFar, Led, DeskOf
  <2>2. CASE d # c
    <3>1. inputCall'[d] = inputCall[d] /\ Alone(d)
      BY <1>1, <1>3, <2>2 DEF Alone
    <3>2. ~InFlight(d)
      BY <2>2, <3>1 DEF AloneInv, OthersRest, Alone
    <3>3. inputCall[d].at \in {"ok", "failed"}
      BY <1>3, <3>1, <3>2 DEF InFlight
    <3>4. SoFar(inputCall[d])
      BY <3>1, <3>3 DEF AloneInv
    <3>5. QED
      BY <3>1, <3>3, <3>4 DEF SoFar
  <2>3. QED
    BY <2>1, <2>2
<1>4. QED
  BY <1>2, <1>3 DEF AloneInv

\* One call goes on and the desk stays as it is.
LEMMA MovesOn ==
  ASSUME InputTypes, AloneInv, NEW c \in InputCallers, InFlight(c), NEW new,
         inputCall' = [inputCall EXCEPT ![c] = new], interleaved' = interleaved, UNCHANGED deskVars,
         new.from = inputCall[c].from, new.at # "idle", Alone(c) => SoFar(new)
  PROVE  AloneInv'
<1>1. held' = held /\ cursor' = cursor
  BY DEF deskVars
<1>2. ASSUME Alone(c) PROVE SoFar(new)'
  <2>1. SoFar(new)
    BY <1>2
  <2>2. QED
    BY <1>1, <2>1 DEF SoFar, Led, DeskOf
<1>3. QED
  BY <1>2, OthersSolo

\* What is known of an undisturbed call that is in flight.
LEMMA SoloCall ==
  ASSUME InputInv, AloneInv, NEW c \in InputCallers, InFlight(c)
  PROVE  inputCall[c] \in InputCalls /\ inputCall[c].at # "idle" /\ (Alone(c) => SoFar(inputCall[c]))
<1>1. inputCall[c].at # "idle"
  BY DEF InFlight
<1>2. QED
  BY <1>1, CallTyped DEF InputInv, AloneInv

LEMMA LookBeforeSolo ==
  ASSUME InputInv, AloneInv, NEW c \in InputCallers, LookBefore(c)
  PROVE  AloneInv'
<1>1. inputCall[c].at \in {"pre1", "post1"} /\ InFlight(c)
  BY DEF LookBefore, InFlight
<1>2. inputCall[c] \in InputCalls /\ (Alone(c) => SoFar(inputCall[c]))
  BY <1>1, SoloCall
<1>t. InputTypes
  BY DEF InputInv
<1>3. PICK at : at = (IF inputCall[c].at = "pre1" THEN "pre2" ELSE "post2")
  OBVIOUS
<1>4. PICK new : new = [inputCall[c] EXCEPT !.before = shown, !.at = at]
  OBVIOUS
<1>5. inputCall' = [inputCall EXCEPT ![c] = new]
  BY <1>3, <1>4, <1>t, <1>2 DEF LookBefore, InputTypes, InputCalls
<1>6. /\ new.at = at /\ new.r = inputCall[c].r /\ new.todo = inputCall[c].todo /\ new.got = inputCall[c].got
      /\ new.from = inputCall[c].from
  BY <1>2, <1>4 DEF InputCalls
<1>7. Alone(c) => SoFar(new)
  BY <1>1, <1>2, <1>3, <1>6 DEF SoFar
<1>8. interleaved' = interleaved /\ UNCHANGED deskVars
  BY DEF LookBefore
<1>9. new.at # "idle"
  BY <1>3, <1>6
<1>10. QED
  BY <1>t, <1>1, <1>5, <1>6, <1>7, <1>8, <1>9, MovesOn

LEMMA PreVerifyCheckSolo ==
  ASSUME InputInv, AloneInv, NEW c \in InputCallers, PreVerifyCheck(c)
  PROVE  AloneInv'
<1>1. inputCall[c].at = "pre2" /\ InFlight(c)
  BY DEF PreVerifyCheck, InFlight
<1>2. inputCall[c] \in InputCalls /\ inputCall[c].at # "idle" /\ (Alone(c) => SoFar(inputCall[c]))
  BY <1>1, SoloCall
<1>t. InputTypes
  BY DEF InputInv
<1>3. PICK at \in {"pre1", "pre2", "send", "post1", "post2", "answer", "ok", "failed"} :
        at \in {"send", "failed"} /\ inputCall' = [inputCall EXCEPT ![c].at = at]
  BY DEF PreVerifyCheck, InputGoes
<1>4. PICK new \in InputCalls :
           /\ inputCall' = [inputCall EXCEPT ![c] = new]
           /\ OnlyMoved(new, inputCall[c], at)
  BY <1>t, <1>2, <1>3, CallAt, Zenon
<1>5. ASSUME Alone(c) PROVE SoFar(new)
  <2>1. new.todo = Events(new.r) /\ held = {}
    BY <1>1, <1>2, <1>4, <1>5 DEF SoFar, OnlyMoved
  <2>2. new.got = <<>>
    BY <1>1, <1>4 DEF InputInv, CallFits, Noted, OnlyMoved
  <2>3. \E sent \in Seq(Event), s \in Desks : FromNothing(s) /\ Led(new, sent, s)
    BY <1>t, <2>1, <2>2, SoFarBegins
  <2>4. new.at \in {"send", "failed"}
    BY <1>3, <1>4 DEF OnlyMoved
  <2>5. QED
    BY <2>3, <2>4 DEF SoFar
<1>6. interleaved' = interleaved /\ UNCHANGED deskVars
  BY DEF PreVerifyCheck
<1>7. new.from = inputCall[c].from /\ new.at # "idle"
  BY <1>3, <1>4 DEF OnlyMoved
<1>8. QED
  BY <1>t, <1>1, <1>4, <1>5, <1>6, <1>7, MovesOn

LEMMA InputSentSolo ==
  ASSUME InputInv, AloneInv, NEW c \in InputCallers, InputSent(c)
  PROVE  AloneInv'
<1>1. inputCall[c].at = "send" /\ inputCall[c].todo = <<>> /\ InFlight(c)
  BY DEF InputSent, InFlight
<1>2. inputCall[c] \in InputCalls /\ inputCall[c].at # "idle" /\ (Alone(c) => SoFar(inputCall[c]))
  BY <1>1, SoloCall
<1>t. InputTypes
  BY DEF InputInv
<1>3. PICK at \in {"pre1", "pre2", "send", "post1", "post2", "answer", "ok", "failed"} :
        at \in {"answer", "post1"} /\ inputCall' = [inputCall EXCEPT ![c].at = at]
  BY DEF InputSent, InputGoes
<1>4. PICK new \in InputCalls :
           /\ inputCall' = [inputCall EXCEPT ![c] = new]
           /\ OnlyMoved(new, inputCall[c], at)
  BY <1>t, <1>2, <1>3, CallAt, Zenon
<1>5. ASSUME Alone(c) PROVE SoFar(new)
  <2>1. PICK sent \in Seq(Event), s \in Desks : FromNothing(s) /\ Led(inputCall[c], sent, s)
    BY <1>1, <1>2, <1>5 DEF SoFar
  <2>2. PICK call \in InputCalls : call = inputCall[c]
    BY <1>2
  <2>3. Received(call.r, call.got)
    BY <1>1, <2>1, <2>2, SoFarEnds
  <2>4. Received(new.r, new.got) /\ new.at \in {"answer", "post1"}
    BY <1>3, <1>4, <2>2, <2>3 DEF OnlyMoved
  <2>5. QED
    BY <2>4 DEF SoFar
<1>6. interleaved' = interleaved /\ UNCHANGED deskVars
  BY DEF InputSent
<1>7. new.from = inputCall[c].from /\ new.at # "idle"
  BY <1>3, <1>4 DEF OnlyMoved
<1>8. QED
  BY <1>t, <1>1, <1>4, <1>5, <1>6, <1>7, MovesOn

LEMMA VerifyActionSolo ==
  ASSUME InputInv, AloneInv, NEW c \in InputCallers, VerifyAction(c)
  PROVE  AloneInv'
<1>1. inputCall[c].at = "post2" /\ InFlight(c)
  BY DEF VerifyAction, InFlight
<1>2. inputCall[c] \in InputCalls /\ (Alone(c) => SoFar(inputCall[c]))
  BY <1>1, SoloCall
<1>t. InputTypes
  BY DEF InputInv
<1>3. PICK v : v = VerifyOCRResults(inputCall[c].before, shown, inputCall[c].r.post)
  OBVIOUS
<1>4. PICK new : new = [inputCall[c] EXCEPT !.at = "answer", !.verified = v]
  OBVIOUS
<1>5. inputCall' = [inputCall EXCEPT ![c] = new]
  BY <1>3, <1>4, <1>t, <1>2 DEF VerifyAction, InputTypes, InputCalls
<1>6. new.at = "answer" /\ new.r = inputCall[c].r /\ new.got = inputCall[c].got /\ new.from = inputCall[c].from
  BY <1>2, <1>4 DEF InputCalls
<1>7. Alone(c) => SoFar(new)
  BY <1>1, <1>2, <1>6 DEF SoFar
<1>8. interleaved' = interleaved /\ UNCHANGED deskVars
  BY DEF VerifyAction
<1>9. QED
  BY <1>t, <1>1, <1>5, <1>6, <1>7, <1>8, MovesOn

LEMMA VerifiedResultSolo ==
  ASSUME InputInv, AloneInv, NEW c \in InputCallers, VerifiedResult(c)
  PROVE  AloneInv'
<1>1. inputCall[c].at = "answer" /\ InFlight(c)
  BY DEF VerifiedResult, InFlight
<1>2. inputCall[c] \in InputCalls /\ inputCall[c].at # "idle" /\ (Alone(c) => SoFar(inputCall[c]))
  BY <1>1, SoloCall
<1>t. InputTypes
  BY DEF InputInv
<1>3. PICK new : /\ inputCall' = [inputCall EXCEPT ![c] = new]
                 /\ new.at = "ok" /\ new.r = inputCall[c].r /\ new.got = inputCall[c].got /\ new.from = inputCall[c].from
  <2>1. CASE inputCall[c].r.tool # "click"
    <3>1. inputCall' = [inputCall EXCEPT ![c].at = "ok"]
      BY <2>1 DEF VerifiedResult, InputGoes
    <3>2. PICK new \in InputCalls : inputCall' = [inputCall EXCEPT ![c] = new] /\ OnlyMoved(new, inputCall[c], "ok")
      <4>1. "ok" \in {"pre1", "pre2", "send", "post1", "post2", "answer", "ok", "failed"}
        OBVIOUS
      <4>2. QED
        BY <1>t, <1>2, <3>1, <4>1, CallAt, Zenon
    <3>3. QED
      BY <3>2 DEF OnlyMoved
  <2>2. CASE inputCall[c].r.tool = "click"
    <3>1. PICK new : new = [inputCall[c] EXCEPT !.at = "ok", !.validated = lastClickVal]
      OBVIOUS
    <3>2. inputCall' = [inputCall EXCEPT ![c] = new]
      BY <1>2, <1>t, <2>2, <3>1 DEF VerifiedResult, InputTypes, InputCalls
    <3>3. new.at = "ok" /\ new.r = inputCall[c].r /\ new.got = inputCall[c].got /\ new.from = inputCall[c].from
      BY <1>2, <3>1 DEF InputCalls
    <3>4. QED
      BY <3>2, <3>3
  <2>3. QED
    BY <2>1, <2>2
<1>4. Alone(c) => SoFar(new)
  BY <1>1, <1>2, <1>3 DEF SoFar
<1>5. interleaved' = interleaved /\ UNCHANGED deskVars
  BY DEF VerifiedResult
<1>6. new.from = inputCall[c].from /\ new.at # "idle" /\ inputCall' = [inputCall EXCEPT ![c] = new]
  BY <1>3
<1>7. QED
  BY <1>t, <1>1, <1>4, <1>5, <1>6, MovesOn

LEMMA SendInputSolo ==
  ASSUME InputInv, AloneInv, NEW c \in InputCallers, SendInput(c)
  PROVE  AloneInv'
<1>1. inputCall[c].at = "send" /\ inputCall[c].todo # <<>> /\ InFlight(c)
  BY DEF SendInput, InFlight
<1>c. inputCall[c] \in InputCalls /\ inputCall[c].at # "idle" /\ (Alone(c) => SoFar(inputCall[c]))
  BY <1>1, SoloCall
<1>t. InputTypes
  BY DEF InputInv
<1>d. inputCall[c].todo \in Seq(Event) /\ inputCall[c].got \in Seq(Arrival) /\ clicked \in Nat
  BY <1>c, <1>t DEF InputCalls, InputTypes
<1>2. PICK e, rest, stops : e = Head(inputCall[c].todo) /\ rest = Tail(inputCall[c].todo)
        /\ stops = (e.do = "refuse" \/ (e.do = "elevation" /\ elevated))
  OBVIOUS
<1>3. e = inputCall[c].todo[1] /\ e \in Event /\ rest \in Seq(Event) /\ stops \in BOOLEAN
  BY <1>1, <1>2, <1>d, RestReleases
<1>4. /\ held' = CASE e.do = "down" -> held \cup {e.key} [] e.do = "up" -> held \ {e.key} [] OTHER -> held
      /\ cursor' = IF stops THEN cursor ELSE Where(e)
      /\ interleaved' = interleaved
  BY <1>2, Zenon DEF SendInput
<1>6. CASE stops
  <2>1. inputCall' = [inputCall EXCEPT ![c].at = "failed"]
    BY <1>2, <1>6 DEF SendInput, InputGoes
  <2>2. PICK new \in InputCalls : inputCall' = [inputCall EXCEPT ![c] = new] /\ OnlyMoved(new, inputCall[c], "failed")
    <3>1. "failed" \in {"pre1", "pre2", "send", "post1", "post2", "answer", "ok", "failed"}
      OBVIOUS
    <3>2. QED
      BY <1>t, <1>c, <2>1, <3>1, CallAt, Zenon
  <2>3. new.at = "failed" /\ new.from = inputCall[c].from
    BY <2>2 DEF OnlyMoved
  <2>4. SoFar(new)'
    BY <2>3 DEF SoFar
  <2>5. new.at # "idle"
    BY <2>3
  <2>6. QED
    BY <1>t, <1>1, <1>4, <2>2, <2>3, <2>4, <2>5, OthersSolo
<1>7. CASE ~stops
  <2>a. PICK got : got = IF IsArrival(e) THEN Append(inputCall[c].got, [key |-> e.key, mods |-> held \cap Mods, at |-> Where(e)])
                         ELSE inputCall[c].got
    OBVIOUS
  <2>g. got \in Seq(Arrival)
    <3>1. CASE IsArrival(e)
      <4>1. [key |-> e.key, mods |-> held \cap Mods, at |-> Where(e)] \in Arrival
        BY <1>3, <1>t, <3>1, EventFields DEF IsArrival, Arrival
      <4>2. QED
        BY <1>d, <2>a, <3>1, <4>1
    <3>2. CASE ~IsArrival(e)
      BY <1>d, <2>a, <3>2
    <3>3. QED
      BY <3>1, <3>2
  <2>1. PICK new \in InputCalls :
          /\ inputCall' = [inputCall EXCEPT ![c] = new]
          /\ new.at = "send" /\ new.todo = rest /\ new.r = inputCall[c].r
          /\ new.from = inputCall[c].from /\ new.got = got
    <3>1. CASE e.do = "classify"
      <4>0. PICK n \in Nat : n = clicked + 1
        BY <1>d
      <4>1. PICK new : new = [inputCall[c] EXCEPT !.todo = rest, !.mine = n]
        OBVIOUS
      <4>2. inputCall' = [inputCall EXCEPT ![c].todo = rest, ![c].mine = clicked + 1]
        BY <1>2, <1>7, <3>1 DEF SendInput
      <4>3. inputCall' = [inputCall EXCEPT ![c] = new]
        BY <1>t, <1>c, <4>0, <4>1, <4>2 DEF InputTypes, InputCalls
      <4>4. new \in InputCalls
        BY <1>c, <1>3, <4>1 DEF InputCalls
      <4>5. /\ new.at = "send" /\ new.todo = rest /\ new.r = inputCall[c].r
            /\ new.from = inputCall[c].from /\ new.got = inputCall[c].got
        BY <1>1, <1>c, <4>1 DEF InputCalls
      <4>6. got = inputCall[c].got
        BY <2>a, <3>1 DEF IsArrival
      <4>7. QED
        BY <4>3, <4>4, <4>5, <4>6
    <3>2. CASE e.do # "classify"
      <4>1. inputCall' = [d \in InputCallers |->
              IF d = c THEN [inputCall[c] EXCEPT !.todo = rest, !.got = got, !.since = {shown}] ELSE inputCall[d]]
        <5>1. CASE IsArrival(e)
          BY <1>2, <1>7, <2>a, <5>1 DEF SendInput, IsArrival
        <5>2. CASE ~IsArrival(e)
          BY <1>2, <1>7, <2>a, <3>2, <5>2 DEF SendInput, IsArrival
        <5>3. QED
          BY <5>1, <5>2
      <4>2. PICK new : new = [inputCall[c] EXCEPT !.todo = rest, !.got = got, !.since = {shown}]
        OBVIOUS
      <4>3. inputCall' = [inputCall EXCEPT ![c] = new]
        BY <1>t, <4>1, <4>2 DEF InputTypes
      <4>4. new \in InputCalls
        <5>1. {shown} \in SUBSET Screens
          BY <1>t DEF InputTypes
        <5>2. QED
          BY <1>c, <1>3, <2>g, <4>2, <5>1 DEF InputCalls
      <4>5. /\ new.at = "send" /\ new.todo = rest /\ new.r = inputCall[c].r
            /\ new.from = inputCall[c].from /\ new.got = got
        BY <1>1, <1>c, <4>2 DEF InputCalls
      <4>6. QED
        BY <4>3, <4>4, <4>5
    <3>3. QED
      BY <3>1, <3>2
  <2>2. ASSUME Alone(c) PROVE SoFar(new)'
    <3>1. PICK sent \in Seq(Event), s \in Desks : FromNothing(s) /\ Led(inputCall[c], sent, s)
      BY <1>1, <1>c, <2>2 DEF SoFar
    <3>2. PICK call \in InputCalls : call = inputCall[c]
      BY <1>c
    <3>3. PICK old : old = DeskOf(call)
      OBVIOUS
    <3>4. old.held = held /\ old.cursor = cursor /\ old.got = call.got
      BY <3>3 DEF DeskOf
    <3>5. DeskOf(new)' = Sent(e, old)
      <4>1. DeskOf(new)' = [held |-> held', cursor |-> cursor', got |-> got]
        BY <2>1 DEF DeskOf
      <4>2. cursor' = Pointed(e, old)
        BY <1>4, <1>7, <3>4 DEF Where, Pointed
      <4>3. held' = IF e.do = "down" THEN old.held \cup {e.key} ELSE IF e.do = "up" THEN old.held \ {e.key} ELSE old.held
        BY <1>4, <3>4
      <4>4. Where(e) = Pointed(e, old)
        BY <3>4 DEF Where, Pointed
      <4>5. got = IF IsArrival(e) THEN Append(old.got, Arrived(e, old)) ELSE old.got
        BY <2>a, <3>2, <3>4, <4>4 DEF Arrived
      <4>6. QED
        BY <4>1, <4>2, <4>3, <4>5 DEF Sent
    <3>6. e.do # "refuse" /\ e = call.todo[1] /\ call.todo # <<>> /\ call.todo \in Seq(Event)
      BY <1>1, <1>2, <1>3, <1>7, <1>d, <3>2
    <3>7. Leads(sent, s, old) /\ Events(call.r) = sent \o call.todo
      BY <3>1, <3>2, <3>3 DEF Led
    <3>8. PICK more \in Seq(Event) : sent \o call.todo = more \o Tail(call.todo) /\ Leads(more, s, Sent(e, old))
      <4>1. PICK todo \in Seq(Event) : todo = call.todo
        BY <3>6
      <4>2. todo # <<>> /\ e = todo[1] /\ e.do # "refuse" /\ e \in Event
        BY <1>3, <3>6, <4>1
      <4>3. \E more \in Seq(Event) : sent \o todo = more \o Tail(todo) /\ Leads(more, s, Sent(e, old))
        BY <3>7, <4>2, SoFarGoesOn
      <4>4. QED
        BY <4>1, <4>3
    <3>n. Events(new.r) = more \o new.todo
      BY <1>2, <2>1, <3>2, <3>7, <3>8
    <3>9. Led(new, more, s)'
      BY <3>5, <3>8, <3>n DEF Led
    <3>10. QED
      BY <2>1, <3>1, <3>9 DEF SoFar
  <2>3. new.at # "idle" /\ new.from = inputCall[c].from
    BY <2>1
  <2>4. inputCall' = [inputCall EXCEPT ![c] = new]
    BY <2>1
  <2>5. QED
    BY <1>t, <1>1, <1>4, <2>2, <2>3, <2>4, OthersSolo
<1>8. QED
  BY <1>3, <1>6, <1>7

LEMMA InputBeginSolo ==
  ASSUME InputInv, AloneInv, NEW c \in InputCallers, NEW r \in InputRequests, InputBegin(c, r)
  PROVE  AloneInv'
<1>t. InputTypes
  BY DEF InputInv
<1>1. PICK new : new = [at |-> IF r.pre.kind = "none" THEN "send" ELSE "pre1", r |-> r, todo |-> Events(r),
                      got |-> <<>>, before |-> shown, since |-> {}, verified |-> FALSE,
                      mine |-> 0, validated |-> 0, from |-> held \cup (IF elevated THEN Mods ELSE {})]
  OBVIOUS
<1>2. inputCall' = [inputCall EXCEPT ![c] = new]
  BY <1>1, <1>t DEF InputBegin, InputTypes
<1>3. inputCall'[c] = new /\ \A d \in InputCallers \ {c} : inputCall'[d] = inputCall[d]
  BY <1>2, <1>t DEF InputTypes
<1>4. new.at \in {"send", "pre1"} /\ new.r = r /\ new.todo = Events(r) /\ new.got = <<>>
      /\ new.from = held \cup (IF elevated THEN Mods ELSE {})
  BY <1>1
<1>5. UNCHANGED <<held, cursor>>
  BY DEF InputBegin, deskVars
<1>6. ~InFlight(c)
  BY DEF InputBegin
<1>7. interleaved' = IF \E d \in InputCallers \ {c} : InFlight(d)
              THEN interleaved \cup {c} \cup {d \in InputCallers : InFlight(d)} ELSE interleaved \ {c}
  BY DEF InputBegin
<1>new. new \in InputCalls
  <2>1. inputCall'[c] \in InputCalls \cup {NoInputCall} /\ inputCall'[c].at # "idle"
    <3>1. InputTypes'
      BY InputBeginKeeps DEF InputInv
    <3>2. QED
      BY <1>3, <1>4, <3>1 DEF InputTypes
  <2>2. QED
    BY <1>3, <2>1 DEF NoInputCall
<1>8. OthersRest'
  <2>1. ASSUME NEW d \in InputCallers, NEW f \in InputCallers, InFlight(d)', InFlight(f)', d # f PROVE d \in interleaved'
    <3>1. \A x \in InputCallers \ {c} : InFlight(x)' => InFlight(x)
      BY <1>3 DEF InFlight
    <3>2. \E x \in InputCallers \ {c} : InFlight(x)
      BY <2>1, <3>1
    <3>3. interleaved' = interleaved \cup {c} \cup {x \in InputCallers : InFlight(x)}
      BY <1>7, <3>2
    <3>4. d = c \/ InFlight(d)
      BY <2>1, <3>1
    <3>5. QED
      BY <3>3, <3>4
  <2>2. QED
    BY <2>1 DEF OthersRest
<1>9. ASSUME Alone(c)' PROVE SoFar(new)'
  <2>1. held = {}
    BY <1>3, <1>4, <1>9 DEF Alone
  <2>2. \E sent \in Seq(Event), s \in Desks : FromNothing(s) /\ Led(new, sent, s)
    BY <1>t, <1>new, <1>4, <2>1, SoFarBegins
  <2>3. SoFar(new)
    BY <1>4, <2>1, <2>2 DEF SoFar
  <2>4. QED
    BY <1>5, <2>3 DEF SoFar, Led, DeskOf
<1>10. ASSUME NEW d \in InputCallers, inputCall'[d].at # "idle", Alone(d)' PROVE SoFar(inputCall[d])'
  <2>1. CASE d = c
    <3>1. SoFar(new)'
      BY <1>9, <1>10, <2>1
    <3>2. QED
      BY <1>3, <2>1, <3>1 DEF SoFar, Led, DeskOf
  <2>2. CASE d # c
    <3>1. inputCall'[d] = inputCall[d] /\ Alone(d)
      BY <1>3, <1>7, <1>10, <2>2 DEF Alone
    <3>2. SoFar(inputCall[d])
      BY <1>10, <3>1 DEF AloneInv
    <3>3. QED
      BY <1>5, <3>1, <3>2 DEF SoFar, Led, DeskOf
  <2>3. QED
    BY <2>1, <2>2
<1>11. QED
  BY <1>8, <1>10 DEF AloneInv

LEMMA ScreenChangesSolo ==
  ASSUME InputInv, AloneInv, ScreenChanges
  PROVE  AloneInv'
<1>t. InputTypes
  BY DEF InputInv
<1>1. UNCHANGED <<held, cursor, interleaved>>
  BY DEF ScreenChanges, deskVars
<1>2. ASSUME NEW c \in InputCallers
      PROVE  /\ inputCall'[c].at = inputCall[c].at
             /\ inputCall'[c] = inputCall[c] \/
                  /\ inputCall'[c].r = inputCall[c].r /\ inputCall'[c].todo = inputCall[c].todo
                  /\ inputCall'[c].got = inputCall[c].got /\ inputCall'[c].from = inputCall[c].from
  <2>1. CASE InFlight(c)
    <3>1. inputCall[c] \in InputCalls
      BY <1>t, <2>1, CallTyped DEF InFlight
    <3>2. PICK since : since = inputCall[c].since \cup {shown'}
      OBVIOUS
    <3>3. inputCall'[c] = [inputCall[c] EXCEPT !.since = since]
      BY <2>1, <3>2 DEF ScreenChanges
    <3>4. QED
      BY <3>1, <3>3 DEF InputCalls
  <2>2. CASE ~InFlight(c)
    BY <2>2 DEF ScreenChanges
  <2>3. QED
    BY <2>1, <2>2
<1>3. OthersRest'
  BY <1>1, <1>2 DEF AloneInv, OthersRest, InFlight
<1>4. ASSUME NEW c \in InputCallers, inputCall'[c].at # "idle", Alone(c)' PROVE SoFar(inputCall[c])'
  <2>1. Alone(c) /\ inputCall[c].at # "idle"
    BY <1>1, <1>2, <1>4 DEF Alone
  <2>2. SoFar(inputCall[c])
    BY <2>1 DEF AloneInv
  <2>3. QED
    BY <1>1, <1>2, <2>2 DEF SoFar, Led, DeskOf
<1>5. QED
  BY <1>3, <1>4 DEF AloneInv

LEMMA SoloStep == InputInv /\ AloneInv /\ [InputNext]_inputVars => AloneInv'
<1> SUFFICES ASSUME InputInv, AloneInv, [InputNext]_inputVars PROVE AloneInv'
  OBVIOUS
<1>1. ASSUME NEW c \in InputCallers, NEW r \in InputRequests, InputBegin(c, r) PROVE AloneInv'
  BY <1>1, InputBeginSolo
<1>2. ASSUME NEW c \in InputCallers, InputStep(c) PROVE AloneInv'
  <2>1. CASE LookBefore(c)
    BY <2>1, LookBeforeSolo
  <2>2. CASE PreVerifyCheck(c)
    BY <2>2, PreVerifyCheckSolo
  <2>3. CASE SendInput(c)
    BY <2>3, SendInputSolo
  <2>4. CASE InputSent(c)
    BY <2>4, InputSentSolo
  <2>5. CASE VerifyAction(c)
    BY <2>5, VerifyActionSolo
  <2>6. CASE VerifiedResult(c)
    BY <2>6, VerifiedResultSolo
  <2>7. QED
    BY <1>2, <2>1, <2>2, <2>3, <2>4, <2>5, <2>6 DEF InputStep
<1>3. CASE ScreenChanges
  BY <1>3, ScreenChangesSolo
<1>4. ASSUME UNCHANGED <<held, cursor, inputCall, interleaved>> PROVE AloneInv'
  <2>1. OthersRest'
    BY <1>4 DEF AloneInv, OthersRest, InFlight
  <2>2. \A c \in InputCallers : inputCall'[c].at # "idle" /\ Alone(c)' => SoFar(inputCall[c])'
    BY <1>4 DEF AloneInv, Alone, SoFar, Led, DeskOf
  <2>3. QED
    BY <2>1, <2>2 DEF AloneInv
<1>5. CASE ForegroundChanges
  BY <1>4, <1>5 DEF ForegroundChanges, deskVars
<1>6. CASE UNCHANGED inputVars
  BY <1>4, <1>6 DEF inputVars
<1>7. QED
  BY <1>1, <1>2, <1>3, <1>5, <1>6 DEF InputNext

\* A call that no other ran beside, with nothing held when it began, is
\* received as it was meant: its clicks where they were asked for, its text
\* character by character, its keys with the modifiers named up to each.
THEOREM SoloReceivedHolds == InputSpec => []SoloReceived
<1>1. AloneInv => SoloReceived
  BY DEF AloneInv, SoFar, Alone, SoloReceived
<1>2. QED
  BY <1>1, InputInitInv, InputStepInv, SoloInit, SoloStep, PTL DEF InputSpec

\* What the input tools promise, as a whole: nothing left down, a call that
\* ran alone received as meant, verification that tells what the screen
\* showed, and each click's validation given out once.
THEOREM InputAsAskedHolds == InputSpec => []InputAsAsked
<1>1. NothingLeftDown /\ SoloReceived /\ VerifiedHonestly /\ ValidatedOnce => InputAsAsked
  BY DEF InputAsAsked
<1>2. QED
  BY <1>1, NothingLeftDownHolds, SoloReceivedHolds, VerifiedHonestlyHolds, ValidatedOnceHolds, PTL

-----------------------------------------------------------------------------
(* File tools                                                                *)

Trees == [Paths -> Nodes]
Strings == Seq(FileNames)
\* Each thing in it lies in a directory.
IsTree(t) == \A p \in Paths : t[p] # NoNode => Parent(p) = <<>> \/ t[Parent(p)] = Dir
FileStages == {"src", "dst", "write", "put", "copy", "move", "delete", "create", "chdir", "chdir2", "verify", "ok", "failed"}
FileCalls ==
  [at : FileStages, req : FileRequests, p : Strings, q : Strings, fresh : BOOLEAN,
   todo : Seq(Strings \X Strings), was : Trees]
Readers == [path : Strings, page : Nat, more : BOOLEAN, got : Seq(FileRows), of : SUBSET Seq(FileRows)]
FileTypes ==
  /\ tree \in Trees /\ workDir \in Strings
  /\ fileCall \in [FileCallers -> FileCalls \cup {NoFileCall}]
  /\ overlapped \in SUBSET FileCallers /\ reader \in Readers /\ fileCalls \in Nat

\* A copy that goes on has something left to copy, and only those with two paths resolve a second.
CallHasPaths == \A c \in FileCallers :
  /\ fileCall[c].at = "copy" => fileCall[c].todo # <<>>
  /\ fileCall[c].at = "dst" => fileCall[c].req.tool \in {"copy", "move"}

\* The pages read so far of a file that has not changed are the beginning of it.
PagesSoFar ==
  /\ IsFiniteSet(reader.of) /\ (reader.more => reader.of # {})
  /\ \A rows \in reader.of : reader.of = {rows} =>
       /\ Len(reader.got) = reader.page /\ reader.page <= Len(rows)
       /\ \A n \in 1..reader.page : reader.got[n] = rows[n]
       /\ reader.more <=> reader.page < Len(rows)
FileInv == FileTypes /\ IsTree(tree) /\ CallHasPaths /\ PagesSoFar

\* What the paths and their parents are.
LEMMA PathsAre == \A p : p \in Paths <=> p \in Strings /\ Len(p) \in 1..MaxDepth
<1>1. ASSUME NEW p \in Paths PROVE p \in Strings /\ Len(p) \in 1..MaxDepth
  <2>1. PICK n \in 1..MaxDepth : p \in [1..n -> FileNames]
    BY DEF Paths
  <2>2. n \in Nat
    BY FileBounds
  <2>3. p \in Strings /\ Len(p) = n
    BY <2>1, <2>2 DEF Strings
  <2>4. QED
    BY <2>3
<1>2. ASSUME NEW p \in Strings, Len(p) \in 1..MaxDepth PROVE p \in Paths
  <2>1. p \in [1..Len(p) -> FileNames]
    BY DEF Strings
  <2>2. QED
    BY <1>2, <2>1 DEF Paths
<1>3. QED
  BY <1>1, <1>2

Begins(x, p) == Len(x) <= Len(p) /\ \A i \in 1..Len(x) : p[i] = x[i]

LEMMA BeginsIs ==
  ASSUME NEW x \in Strings, NEW p \in Strings
  PROVE  (Len(x) <= Len(p) /\ SubSeq(p, 1, Len(x)) = x) <=> Begins(x, p)
<1>0. Len(x) \in Nat /\ Len(p) \in Nat
  BY DEF Strings
<1> SUFFICES ASSUME Len(x) <= Len(p) PROVE SubSeq(p, 1, Len(x)) = x <=> \A i \in 1..Len(x) : p[i] = x[i]
  BY DEF Begins
<1>1. \A i \in 1..Len(x) : p[i] \in FileNames
  BY <1>0 DEF Strings
<1>2. /\ SubSeq(p, 1, Len(x)) \in Seq(FileNames) /\ Len(SubSeq(p, 1, Len(x))) = Len(x)
      /\ \A i \in 1..Len(x) : SubSeq(p, 1, Len(x))[i] = p[i]
  BY <1>0, <1>1, SubSeqProperties
<1>3. ASSUME \A i \in 1..Len(x) : p[i] = x[i] PROVE SubSeq(p, 1, Len(x)) = x
  BY <1>2, <1>3, SeqEqual DEF Strings
<1>4. ASSUME SubSeq(p, 1, Len(x)) = x PROVE \A i \in 1..Len(x) : p[i] = x[i]
  BY <1>2, <1>4
<1>5. QED
  BY <1>3, <1>4

LEMMA ParentIs ==
  ASSUME NEW p \in Strings
  PROVE  /\ Parent(p) \in Strings
         /\ p # <<>> => /\ Len(Parent(p)) = Len(p) - 1 /\ Len(p) \in Nat /\ Len(p) > 0
                        /\ \A i \in 1..Len(p) - 1 : Parent(p)[i] = p[i]
                        /\ Parent(p) = <<>> <=> Len(p) = 1
         /\ p = <<>> => Parent(p) = <<>>
<1>0. Len(p) \in Nat /\ p \in Seq(FileNames) /\ (p = <<>> <=> Len(p) = 0)
  BY DEF Strings
<1>1. \A i \in 1..Len(p) - 1 : p[i] \in FileNames
  BY <1>0
<1>2. /\ Parent(p) \in Seq(FileNames) /\ Len(Parent(p)) = IF 1 <= Len(p) - 1 THEN Len(p) - 1 ELSE 0
      /\ \A i \in 1..Len(p) - 1 : Parent(p)[i] = p[i]
  <2>1. Len(p) - 1 \in Int /\ Len(p) - 1 - 1 + 1 = Len(p) - 1
    BY <1>0
  <2>2. /\ SubSeq(p, 1, Len(p) - 1) \in Seq(FileNames)
        /\ Len(SubSeq(p, 1, Len(p) - 1)) = IF 1 <= Len(p) - 1 THEN Len(p) - 1 - 1 + 1 ELSE 0
        /\ \A i \in 1..Len(p) - 1 - 1 + 1 : SubSeq(p, 1, Len(p) - 1)[i] = p[1 + i - 1]
    BY <1>1, <2>1, SubSeqProperties
  <2>3. \A i \in 1..Len(p) - 1 : 1 + i - 1 = i
    BY <1>0
  <2>4. QED
    BY <2>1, <2>2, <2>3 DEF Parent
<1>3. Parent(p) = <<>> <=> Len(Parent(p)) = 0
  BY <1>2
<1>4. Parent(p) \in Strings
  BY <1>2 DEF Strings
<1>5. ASSUME p # <<>>
      PROVE  /\ Len(Parent(p)) = Len(p) - 1 /\ Len(p) \in Nat /\ Len(p) > 0
             /\ Parent(p) = <<>> <=> Len(p) = 1
  <2>1. Len(p) > 0
    BY <1>0, <1>5
  <2>2. Len(Parent(p)) = Len(p) - 1
    <3>1. CASE Len(p) = 1
      BY <1>2, <3>1
    <3>2. CASE Len(p) # 1
      <4>0. \A l \in Nat : l > 0 /\ l # 1 => 1 <= l - 1
        OBVIOUS
      <4>1. 1 <= Len(p) - 1
        BY <1>0, <2>1, <3>2, <4>0, Zenon
      <4>2. QED
        BY <1>2, <4>1
    <3>3. QED
      BY <3>1, <3>2
  <2>3. Parent(p) = <<>> <=> Len(p) = 1
    BY <1>0, <1>3, <2>2
  <2>4. QED
    BY <1>0, <2>1, <2>2, <2>3
<1>6. ASSUME p = <<>> PROVE Parent(p) = <<>>
  BY <1>0, <1>2, <1>3, <1>6
<1>7. QED
  BY <1>2, <1>4, <1>5, <1>6

LEMMA ParentPath ==
  ASSUME NEW p \in Paths
  PROVE  /\ p \in Strings /\ p # <<>> /\ Parent(p) \in Strings /\ Len(p) \in Nat /\ Len(p) > 0 /\ Len(Parent(p)) = Len(p) - 1
         /\ Parent(p) = <<>> \/ Parent(p) \in Paths
         /\ \A i \in 1..Len(p) - 1 : Parent(p)[i] = p[i]
<1>1. p \in Strings /\ Len(p) \in 1..MaxDepth /\ MaxDepth \in Nat
  BY PathsAre, FileBounds
<1>2. p # <<>>
  BY <1>1 DEF Strings
<1>3. /\ Parent(p) \in Strings /\ Len(Parent(p)) = Len(p) - 1 /\ Len(p) \in Nat /\ Len(p) > 0
      /\ Parent(p) = <<>> <=> Len(p) = 1
  BY <1>1, <1>2, ParentIs
<1>4. Parent(p) = <<>> \/ Parent(p) \in Paths
  <2>1. CASE Len(p) = 1
    BY <1>3, <2>1
  <2>2. CASE Len(p) # 1
    <3>1. Len(Parent(p)) \in 1..MaxDepth
      BY <1>1, <1>3, <2>2
    <3>2. QED
      BY <1>3, <3>1, PathsAre
  <2>3. QED
    BY <2>1, <2>2
<1>5. QED
  BY <1>1, <1>2, <1>3, <1>4, ParentIs

\* What is made, and what lies below, by the names it begins with.
LEMMA MadeIs ==
  ASSUME NEW t \in Trees, NEW p \in Strings
  PROVE  /\ MkdirAll(t, p) \in Trees
         /\ \A x \in Paths : Begins(x, p) => MkdirAll(t, p)[x] = Dir
         /\ \A x \in Paths : ~Begins(x, p) => MkdirAll(t, p)[x] = t[x]
<1>1. \A x \in Paths : (Len(x) <= Len(p) /\ SubSeq(p, 1, Len(x)) = x) <=> Begins(x, p)
  BY PathsAre, BeginsIs
<1>2. Dir \in Nodes
  BY DEF Nodes
<1>3. QED
  BY <1>1, <1>2 DEF MkdirAll, Trees

LEMMA BelowIs ==
  ASSUME NEW p \in Strings
  PROVE  \A x \in Paths : x \in Below(p) <=> Len(x) > Len(p) /\ Begins(p, x)
<1> SUFFICES ASSUME NEW x \in Paths PROVE x \in Below(p) <=> Len(x) > Len(p) /\ Begins(p, x)
  OBVIOUS
<1>1. x \in Strings /\ Len(x) \in Nat /\ Len(p) \in Nat
  BY PathsAre DEF Strings
<1>2. (Len(p) <= Len(x) /\ SubSeq(x, 1, Len(p)) = p) <=> Begins(p, x)
  BY <1>1, BeginsIs
<1>3. QED
  BY <1>1, <1>2 DEF Below

\* Making directories leaves a tree.
LEMMA MadeTree ==
  ASSUME NEW t \in Trees, IsTree(t), NEW d \in Strings
  PROVE  IsTree(MkdirAll(t, d))
<1> SUFFICES ASSUME NEW x \in Paths, MkdirAll(t, d)[x] # NoNode, Parent(x) # <<>>
             PROVE  MkdirAll(t, d)[Parent(x)] = Dir
  BY DEF IsTree
<1>1. /\ Parent(x) \in Paths /\ Len(Parent(x)) = Len(x) - 1 /\ Len(x) \in Nat
      /\ \A i \in 1..Len(x) - 1 : Parent(x)[i] = x[i]
  BY ParentPath
<1>2. CASE Begins(x, d)
  <2>1. Begins(Parent(x), d)
    <3>1. Len(d) \in Nat
      BY DEF Strings
    <3>2. QED
      BY <1>1, <1>2, <3>1 DEF Begins
  <2>2. QED
    BY <1>1, <2>1, MadeIs
<1>3. CASE ~Begins(x, d)
  <2>1. t[x] # NoNode
    BY <1>3, MadeIs
  <2>2. t[Parent(x)] = Dir
    BY <2>1 DEF IsTree
  <2>3. QED
    BY <1>1, <2>2, MadeIs
<1>4. QED
  BY <1>2, <1>3

\* Putting a file where its directory has been made, and no directory is, leaves a tree.
LEMMA PutTree ==
  ASSUME NEW t \in Trees, IsTree(t), NEW d \in Paths, t[d] # Dir, NEW node \in Nodes
  PROVE  /\ [MkdirAll(t, Parent(d)) EXCEPT ![d] = node] \in Trees
         /\ IsTree([MkdirAll(t, Parent(d)) EXCEPT ![d] = node])
<1> DEFINE made == MkdirAll(t, Parent(d))
           new == [made EXCEPT ![d] = node]
<1>1. /\ d \in Strings /\ Parent(d) \in Strings /\ Len(d) \in Nat /\ Len(d) > 0 /\ Len(Parent(d)) = Len(d) - 1
      /\ Parent(d) = <<>> \/ Parent(d) \in Paths
  BY ParentPath
<1>2. made \in Trees /\ IsTree(made)
  BY <1>1, MadeIs, MadeTree
<1>3. made[d] = t[d]
  <2>1. ~Begins(d, Parent(d))
    BY <1>1 DEF Begins
  <2>2. QED
    BY <1>1, <2>1, MadeIs
<1>4. Parent(d) # <<>> => made[Parent(d)] = Dir
  <2>1. Begins(Parent(d), Parent(d))
    BY <1>1 DEF Begins
  <2>2. QED
    BY <1>1, <2>1, MadeIs
<1> HIDE DEF made
<1>5. new \in Trees /\ new[d] = node /\ \A x \in Paths \ {d} : new[x] = made[x]
  BY <1>2 DEF Trees
<1> HIDE DEF new
<1>6. ASSUME NEW x \in Paths, new[x] # NoNode, Parent(x) # <<>> PROVE new[Parent(x)] = Dir
  <2>1. Parent(x) \in Paths /\ Len(Parent(x)) = Len(x) - 1 /\ Len(x) \in Nat
    BY <1>6, ParentPath
  <2>2. CASE x = d
    <3>1. Parent(d) # d
      BY <1>1
    <3>2. QED
      BY <1>4, <1>5, <1>6, <2>1, <2>2, <3>1
  <2>3. CASE x # d
    <3>1. made[x] # NoNode
      BY <1>5, <1>6, <2>3
    <3>2. made[Parent(x)] = Dir
      BY <1>2, <1>6, <3>1 DEF IsTree
    <3>3. Parent(x) # d
      BY <1>3, <3>2
    <3>4. QED
      BY <1>5, <2>1, <3>2, <3>3
  <2>4. QED
    BY <2>2, <2>3
<1>7. IsTree(new)
  BY <1>6 DEF IsTree
<1>8. QED
  BY <1>5, <1>7 DEF new, made

\* What lies in a directory lies below what the directory is, or lies below.
LEMMA BelowGoesOn ==
  ASSUME NEW p \in Strings, NEW x \in Paths, Parent(x) = p \/ (Parent(x) \in Paths /\ Parent(x) \in Below(p))
  PROVE  x \in Below(p)
<1>1. /\ x \in Strings /\ Len(x) \in Nat /\ Len(Parent(x)) = Len(x) - 1 /\ Parent(x) \in Strings /\ Len(p) \in Nat
      /\ \A i \in 1..Len(x) - 1 : Parent(x)[i] = x[i]
  BY ParentPath DEF Strings
<1>2. Len(Parent(x)) >= Len(p) /\ Begins(p, Parent(x))
  <2>1. CASE Parent(x) = p
    BY <1>1, <2>1 DEF Begins
  <2>2. CASE Parent(x) \in Paths /\ Parent(x) \in Below(p)
    BY <1>1, <2>2, BelowIs
  <2>3. QED
    BY <2>1, <2>2
<1>3. Len(x) > Len(p) /\ Begins(p, x)
  BY <1>1, <1>2 DEF Begins
<1>4. QED
  BY <1>3, BelowIs

\* Deleting something with all that is in it leaves a tree.
LEMMA CutTree ==
  ASSUME NEW t \in Trees, IsTree(t), NEW p \in Strings
  PROVE  /\ [x \in Paths |-> IF x = p \/ x \in Below(p) THEN NoNode ELSE t[x]] \in Trees
         /\ IsTree([x \in Paths |-> IF x = p \/ x \in Below(p) THEN NoNode ELSE t[x]])
<1>1. NoNode \in Nodes
  BY DEF Nodes
<1> DEFINE new == [x \in Paths |-> IF x = p \/ x \in Below(p) THEN NoNode ELSE t[x]]
<1>2. new \in Trees
  BY <1>1 DEF Trees
<1>3. ASSUME NEW x \in Paths, new[x] # NoNode, Parent(x) # <<>> PROVE new[Parent(x)] = Dir
  <2>1. t[x] # NoNode /\ x \notin Below(p)
    BY <1>3
  <2>2. Parent(x) \in Paths /\ t[Parent(x)] = Dir
    BY <1>3, <2>1, ParentPath DEF IsTree
  <2>3. Parent(x) # p /\ Parent(x) \notin Below(p)
    BY <2>1, <2>2, BelowGoesOn
  <2>4. QED
    BY <2>2, <2>3
<1>4. QED
  BY <1>2, <1>3 DEF IsTree

\* A rename leaves a tree: what lay in p lies in q, in the same directories.
Renamed(t, p, q) == [x \in Paths |->
  IF x = q \/ x \in Below(q)
  THEN IF p \o SubSeq(x, Len(q) + 1, Len(x)) \in Paths THEN t[p \o SubSeq(x, Len(q) + 1, Len(x))] ELSE NoNode
  ELSE IF x = p \/ x \in Below(p) THEN NoNode ELSE t[x]]

\* Where in p something in q comes from.
LEMMA FromIs ==
  ASSUME NEW p \in Strings, NEW q \in Strings, NEW x \in Paths, x = q \/ x \in Below(q)
  PROVE  /\ p \o SubSeq(x, Len(q) + 1, Len(x)) \in Strings
         /\ Len(p \o SubSeq(x, Len(q) + 1, Len(x))) = Len(p) + Len(x) - Len(q)
         /\ \A i \in 1..Len(p) : (p \o SubSeq(x, Len(q) + 1, Len(x)))[i] = p[i]
         /\ \A i \in 1..Len(x) - Len(q) : (p \o SubSeq(x, Len(q) + 1, Len(x)))[Len(p) + i] = x[Len(q) + i]
<1>1. x \in Strings /\ Len(x) \in Nat /\ Len(q) \in Nat /\ Len(p) \in Nat /\ Len(x) >= Len(q)
  BY PathsAre, BelowIs DEF Strings
<1>2. PICK s : s = SubSeq(x, Len(q) + 1, Len(x))
  OBVIOUS
<1>3. /\ s \in Seq(FileNames) /\ Len(s) = Len(x) - Len(q)
      /\ \A i \in 1..Len(x) - Len(q) : s[i] = x[Len(q) + i]
  <2>1. \A i \in Len(q) + 1..Len(x) : x[i] \in FileNames
    BY <1>1 DEF Strings
  <2>2. /\ s \in Seq(FileNames)
        /\ Len(s) = IF Len(q) + 1 <= Len(x) THEN Len(x) - (Len(q) + 1) + 1 ELSE 0
        /\ \A i \in 1..Len(x) - (Len(q) + 1) + 1 : s[i] = x[Len(q) + 1 + i - 1]
    BY <1>1, <1>2, <2>1, SubSeqProperties
  <2>3. Len(s) = Len(x) - Len(q)
    <3>1. CASE Len(x) = Len(q)
      <4>1. ~(Len(q) + 1 <= Len(x)) /\ Len(x) - Len(q) = 0
        BY <1>1, <3>1
      <4>2. QED
        BY <2>2, <4>1
    <3>2. CASE Len(x) # Len(q)
      <4>1. Len(q) + 1 <= Len(x) /\ Len(x) - (Len(q) + 1) + 1 = Len(x) - Len(q)
        BY <1>1, <3>2
      <4>2. QED
        BY <2>2, <4>1
    <3>3. QED
      BY <3>1, <3>2
  <2>4. Len(x) - (Len(q) + 1) + 1 = Len(x) - Len(q) /\ \A i \in 1..Len(x) - Len(q) : Len(q) + 1 + i - 1 = Len(q) + i
    BY <1>1
  <2>5. QED
    BY <2>2, <2>3, <2>4
<1>4. p \in Seq(FileNames)
  BY DEF Strings
<1>5. p \o s \in Strings /\ Len(p \o s) = Len(p) + Len(s)
  BY <1>3, <1>4, ConcatProperties, Zenon DEF Strings
<1>6. \A i \in 1..Len(p) + Len(s) : (p \o s)[i] = IF i <= Len(p) THEN p[i] ELSE s[i - Len(p)]
  BY <1>3, <1>4, ConcatProperties
<1>7. \A i \in 1..Len(p) : (p \o s)[i] = p[i]
  BY <1>1, <1>3, <1>6
<1>8. ASSUME NEW i \in 1..Len(x) - Len(q) PROVE (p \o s)[Len(p) + i] = x[Len(q) + i]
  <2>1. Len(p) + i \in 1..Len(p) + Len(s) /\ ~(Len(p) + i <= Len(p)) /\ Len(p) + i - Len(p) = i
    BY <1>1, <1>3
  <2>2. QED
    BY <1>3, <1>6, <2>1
<1>9. Len(p \o s) = Len(p) + Len(x) - Len(q)
  BY <1>1, <1>3, <1>5
<1>10. QED
  BY <1>2, <1>5, <1>7, <1>8, <1>9

LEMMA RenamedTree ==
  ASSUME NEW t \in Trees, IsTree(t), NEW p \in Paths, NEW q \in Strings,
         Parent(q) # <<>> => t[Parent(q)] = Dir, p # q => ~Begins(p, Parent(q))
  PROVE  Renamed(t, p, q) \in Trees /\ IsTree(Renamed(t, p, q))
<1> DEFINE From(x) == p \o SubSeq(x, Len(q) + 1, Len(x))
           In(r, x) == x = r \/ x \in Below(r)
           new == Renamed(t, p, q)
<1>1. NoNode \in Nodes
  BY DEF Nodes
<1>2. new \in Trees
  BY <1>1 DEF Trees, Renamed
<1>3. \A x \in Paths : new[x] = IF In(q, x) THEN IF From(x) \in Paths THEN t[From(x)] ELSE NoNode
                               ELSE IF In(p, x) THEN NoNode ELSE t[x]
  BY DEF Renamed
<1>p. p \in Strings /\ Len(p) \in Nat /\ Len(q) \in Nat /\ Len(p) > 0
  BY ParentPath DEF Strings
<1>f. \A x \in Paths : In(q, x) =>
        /\ From(x) \in Strings /\ Len(From(x)) = Len(p) + Len(x) - Len(q)
        /\ \A i \in 1..Len(p) : From(x)[i] = p[i]
        /\ \A i \in 1..Len(x) - Len(q) : From(x)[Len(p) + i] = x[Len(q) + i]
  BY <1>p, FromIs
<1> HIDE DEF From, new
<1>4. ASSUME NEW x \in Paths, new[x] # NoNode, Parent(x) # <<>> PROVE new[Parent(x)] = Dir
  <2>1. /\ x \in Strings /\ Parent(x) \in Paths /\ Parent(x) \in Strings /\ Len(x) \in Nat /\ Len(Parent(x)) = Len(x) - 1
        /\ \A i \in 1..Len(x) - 1 : Parent(x)[i] = x[i]
    BY <1>4, ParentPath
  <2>2. CASE x \in Below(q)
    <3>1. From(x) \in Paths /\ t[From(x)] # NoNode
      BY <1>3, <1>4, <2>2
    <3>2. Len(x) > Len(q) /\ Begins(q, x)
      BY <2>2, BelowIs
    <3>3. In(q, Parent(x))
      <4>1. Begins(q, Parent(x))
        BY <1>p, <2>1, <3>2 DEF Begins
      <4>2. CASE Len(Parent(x)) > Len(q)
        BY <2>1, <4>1, <4>2, BelowIs
      <4>3. CASE ~(Len(Parent(x)) > Len(q))
        <5>1. Len(Parent(x)) = Len(q)
          BY <1>p, <2>1, <3>2, <4>3
        <5>2. \A i \in 1..Len(q) : Parent(x)[i] = q[i]
          BY <4>1 DEF Begins
        <5>3. Parent(x) = q
          BY <2>1, <5>1, <5>2, SeqEqual DEF Strings
        <5>4. QED
          BY <5>3
      <4>4. QED
        BY <4>2, <4>3
    <3>4. /\ Parent(From(x)) \in Strings /\ From(x) # <<>> /\ Len(From(x)) \in Nat
          /\ Len(Parent(From(x))) = Len(From(x)) - 1
          /\ Parent(From(x)) = <<>> \/ Parent(From(x)) \in Paths
          /\ \A i \in 1..Len(From(x)) - 1 : Parent(From(x))[i] = From(x)[i]
      BY <3>1, ParentPath
    <3>5. Len(From(Parent(x))) = Len(Parent(From(x)))
      BY <1>p, <1>f, <2>1, <2>2, <3>3, <3>4
    <3>6. ASSUME NEW i \in 1..Len(From(Parent(x))) PROVE From(Parent(x))[i] = Parent(From(x))[i]
      <4>1. i \in 1..Len(From(x)) - 1 /\ Parent(From(x))[i] = From(x)[i]
        BY <3>4, <3>5
      <4>2. CASE i <= Len(p)
        <5>1. i \in 1..Len(p)
          BY <1>p, <4>1, <4>2
        <5>2. From(x)[i] = p[i] /\ From(Parent(x))[i] = p[i]
          BY <1>f, <2>1, <2>2, <3>3, <5>1
        <5>3. QED
          BY <4>1, <5>2
      <4>3. CASE i > Len(p)
        <5>1. PICK j \in 1..Len(Parent(x)) - Len(q) : i = Len(p) + j
          <6>1. Len(From(x)) = Len(p) + Len(x) - Len(q)
            BY <1>f, <2>2
          <6>2. i - Len(p) \in 1..Len(Parent(x)) - Len(q) /\ i = Len(p) + (i - Len(p))
            BY <1>p, <2>1, <4>1, <4>3, <6>1
          <6>3. QED
            BY <6>2
        <5>2. j \in 1..Len(x) - Len(q) /\ Len(q) + j \in 1..Len(x) - 1
          BY <1>p, <2>1
        <5>3. From(x)[i] = x[Len(q) + j]
          BY <1>f, <2>2, <5>1, <5>2
        <5>4. From(Parent(x))[i] = Parent(x)[Len(q) + j]
          BY <1>f, <2>1, <3>3, <5>1
        <5>5. QED
          BY <2>1, <4>1, <5>2, <5>3, <5>4
      <4>4. QED
        BY <1>p, <4>1, <4>2, <4>3, <3>4
    <3>7. From(Parent(x)) = Parent(From(x))
      <4>1. From(Parent(x)) \in Seq(FileNames) /\ Parent(From(x)) \in Seq(FileNames)
        BY <1>f, <2>1, <3>3, <3>4 DEF Strings
      <4>2. QED
        BY <3>5, <3>6, <4>1, SeqEqual
    <3>8. Len(From(Parent(x))) >= Len(p)
      BY <1>f, <1>p, <2>1, <3>2, <3>3
    <3>9. Parent(From(x)) # <<>>
      BY <1>p, <3>7, <3>8
    <3>10. t[Parent(From(x))] = Dir
      BY <3>1, <3>9 DEF IsTree
    <3>11. QED
      BY <1>3, <2>1, <3>3, <3>4, <3>7, <3>9, <3>10
  <2>3. CASE x = q
    <3>1. Parent(x) # q /\ Parent(x) \notin Below(q)
      BY <1>p, <2>1, <2>3, BelowIs
    <3>2. t[Parent(x)] = Dir
      BY <1>4, <2>3
    <3>3. ~In(p, Parent(x))
      <4>1. CASE p = q
        BY <3>1, <4>1
      <4>2. CASE p # q
        <5>1. ~Begins(p, Parent(x))
          BY <2>3, <4>2
        <5>2. Parent(x) # p
          BY <1>p, <5>1 DEF Begins
        <5>3. QED
          BY <1>p, <2>1, <5>1, <5>2, BelowIs
      <4>3. QED
        BY <4>1, <4>2
    <3>4. QED
      BY <1>3, <2>1, <3>1, <3>2, <3>3
  <2>4. CASE ~In(q, x)
    <3>1. ~In(p, x) /\ t[x] # NoNode
      BY <1>3, <1>4, <2>4
    <3>2. t[Parent(x)] = Dir
      BY <1>4, <3>1 DEF IsTree
    <3>3. ~In(q, Parent(x)) /\ ~In(p, Parent(x))
      BY <1>p, <2>1, <2>4, <3>1, BelowGoesOn
    <3>4. QED
      BY <1>3, <2>1, <3>2, <3>3
  <2>5. QED
    BY <2>2, <2>3, <2>4
<1>5. IsTree(new)
  BY <1>4 DEF IsTree
<1>6. QED
  BY <1>2, <1>5 DEF new

-----------------------------------------------------------------------------
LEMMA FileCallTyped ==
  ASSUME FileTypes, NEW c \in FileCallers, fileCall[c].at # "idle"
  PROVE  fileCall[c] \in FileCalls
<1>1. fileCall[c] \in FileCalls \cup {NoFileCall}
  BY DEF FileTypes
<1>2. NoFileCall.at = "idle"
  BY DEF NoFileCall
<1>3. QED
  BY <1>1, <1>2

LEMMA FilesInitInv == FilesInit => FileInv
<1> SUFFICES ASSUME FilesInit PROVE FileInv
  OBVIOUS
<1>1. tree \in Trees /\ IsTree(tree)
  BY FirstTreeAssumption DEF FilesInit, Trees, IsTree
<1>2. reader \in Readers /\ reader.of = {} /\ ~reader.more
  <2>1. <<>> \in Strings /\ <<>> \in Seq(FileRows)
    BY EmptySeq DEF Strings
  <2>2. QED
    BY <2>1 DEF FilesInit, Readers
<1>3. workDir \in Strings
  BY FileBounds DEF FilesInit, Strings
<1>4. FileTypes
  BY <1>1, <1>2, <1>3 DEF FilesInit, FileTypes
<1>5. CallHasPaths
  BY DEF FilesInit, CallHasPaths, NoFileCall
<1>6. PagesSoFar
  BY <1>2, FS_EmptySet DEF PagesSoFar
<1>7. QED
  BY <1>1, <1>4, <1>5, <1>6 DEF FileInv

\* One call goes on and leaves a tree.
LEMMA OneFileCallGoes ==
  ASSUME FileInv, NEW c \in FileCallers, NEW new \in FileCalls, fileCall' = [fileCall EXCEPT ![c] = new],
         new.at = "copy" => new.todo # <<>>, new.at = "dst" => new.req.tool \in {"copy", "move"},
         tree' \in Trees, IsTree(tree'), workDir' \in Strings, UNCHANGED <<overlapped, reader, fileCalls>>
  PROVE  FileInv'
<1>1. FileTypes'
  <2>1. fileCall' \in [FileCallers -> FileCalls \cup {NoFileCall}]
    BY DEF FileInv, FileTypes
  <2>2. QED
    BY <2>1 DEF FileInv, FileTypes
<1>2. CallHasPaths'
  <2>1. fileCall'[c] = new /\ \A d \in FileCallers \ {c} : fileCall'[d] = fileCall[d]
    BY DEF FileInv, FileTypes
  <2>2. QED
    BY <2>1 DEF FileInv, CallHasPaths
<1>3. PagesSoFar'
  BY DEF FileInv, PagesSoFar
<1>4. IsTree(tree)'
  BY DEF IsTree
<1>5. QED
  BY <1>1, <1>2, <1>3, <1>4 DEF FileInv

\* So it does when only its place changes.
LEMMA FileCallMoves ==
  ASSUME FileInv, NEW c \in FileCallers, fileCall[c].at # "idle", NEW how \in FileStages, how \notin {"copy", "dst"},
         fileCall' = [fileCall EXCEPT ![c].at = how],
         tree' \in Trees, IsTree(tree'), workDir' \in Strings, UNCHANGED <<overlapped, reader, fileCalls>>
  PROVE  FileInv'
<1>1. fileCall[c] \in FileCalls
  BY FileCallTyped DEF FileInv
<1>2. PICK new : new = [fileCall[c] EXCEPT !.at = how]
  OBVIOUS
<1>3. new \in FileCalls /\ new.at = how
  BY <1>1, <1>2 DEF FileCalls
<1>4. fileCall' = [fileCall EXCEPT ![c] = new]
  BY <1>2
<1>5. QED
  BY <1>3, <1>4, OneFileCallGoes

\* The stages a step may end at.
LEMMA FileStagesAre ==
  /\ {"failed", "ok", "verify", "chdir2", "put"} \subseteq FileStages
  /\ \A r \in FileRequests : r.tool \in FileStages /\ r.tool # "dst"
  /\ \A s \in {"failed", "ok", "verify", "chdir2", "put"} : s \notin {"copy", "dst"}
  BY FileRequestsAssumption DEF FileStages

LEMMA FileBeginKeeps ==
  ASSUME FileInv, NEW c \in FileCallers, NEW req \in FileRequests, FileBegin(c, req)
  PROVE  FileInv'
<1>1. PICK new : new = [at |-> IF ~FilePreCheck(req) THEN "failed" ELSE IF req.tool = "chdir" THEN "chdir" ELSE "src",
                      req |-> req, p |-> <<>>, q |-> <<>>, fresh |-> FALSE, todo |-> <<>>, was |-> tree]
  OBVIOUS
<1>2. new \in FileCalls /\ new.at \notin {"copy", "dst"}
  <2>1. <<>> \in Strings /\ <<>> \in Seq(Strings \X Strings)
    BY EmptySeq DEF Strings
  <2>2. (IF ~FilePreCheck(req) THEN "failed" ELSE IF req.tool = "chdir" THEN "chdir" ELSE "src") \in {"failed", "chdir", "src"}
    OBVIOUS
  <2>3. tree \in Trees
    BY DEF FileInv, FileTypes
  <2>4. QED
    BY <1>1, <2>1, <2>2, <2>3 DEF FileCalls, FileStages
<1>3. \A d \in FileCallers : fileCall'[d] = IF d = c THEN new ELSE IF Going(d) THEN fileCall[d] ELSE NoFileCall
  BY <1>1 DEF FileBegin
<1>4. fileCall' \in [FileCallers -> FileCalls \cup {NoFileCall}]
  <2>1. \A d \in FileCallers : fileCall'[d] \in FileCalls \cup {NoFileCall}
    BY <1>2, <1>3 DEF FileInv, FileTypes
  <2>2. fileCall' = [d \in FileCallers |-> fileCall'[d]]
    BY DEF FileBegin
  <2>3. QED
    BY <2>1, <2>2
<1>5. UNCHANGED <<tree, workDir, reader>> /\ overlapped' \in SUBSET FileCallers /\ fileCalls' \in Nat
  BY DEF FileBegin, FileInv, FileTypes
<1>6. FileTypes'
  BY <1>4, <1>5 DEF FileInv, FileTypes
<1>7. CallHasPaths'
  BY <1>2, <1>3 DEF FileInv, CallHasPaths, NoFileCall
<1>8. PagesSoFar' /\ IsTree(tree)'
  BY <1>5 DEF FileInv, PagesSoFar, IsTree
<1>9. QED
  BY <1>6, <1>7, <1>8 DEF FileInv

LEMMA ResolvedPath ==
  ASSUME FileTypes, NEW arg, arg.path \in Seq(FileNames)
  PROVE  ResolvePath(arg) \in Strings /\ AsProcess(arg) \in Strings
  BY FileBounds DEF FileTypes, ResolvePath, AsProcess, Strings

LEMMA ResolveSourceKeeps ==
  ASSUME FileInv, NEW c \in FileCallers, ResolveSource(c)
  PROVE  FileInv'
<1>t. FileTypes
  BY DEF FileInv
<1>1. fileCall[c].at = "src" /\ fileCall[c] \in FileCalls
  BY <1>t, FileCallTyped DEF ResolveSource
<1>2. fileCall[c].req \in FileRequests /\ fileCall[c].req.src.path \in Seq(FileNames)
  BY <1>1, FileRequestsAssumption DEF FileCalls
<1>3. PICK p \in Strings : p = ResolvePath(fileCall[c].req.src)
  BY <1>t, <1>2, ResolvedPath
<1>4. PICK at : at = (IF fileCall[c].req.tool \in {"copy", "move"} THEN "dst" ELSE fileCall[c].req.tool)
  OBVIOUS
<1>5. PICK new : new = [fileCall[c] EXCEPT !.p = p, !.q = p, !.todo = <<>>, !.at = at]
  OBVIOUS
<1>6. fileCall' = [fileCall EXCEPT ![c] = new]
  BY <1>3, <1>4, <1>5 DEF ResolveSource
<1>7. at \in FileStages /\ at # "copy" /\ (at = "dst" => fileCall[c].req.tool \in {"copy", "move"})
  BY <1>2, <1>4, FileStagesAre DEF FileStages
<1>8. new \in FileCalls /\ new.at = at /\ new.req = fileCall[c].req
  <2>1. <<>> \in Seq(Strings \X Strings)
    BY EmptySeq
  <2>2. QED
    BY <1>1, <1>5, <1>7, <2>1 DEF FileCalls
<1>9. UNCHANGED <<tree, workDir, overlapped, reader, fileCalls>>
  BY DEF ResolveSource
<1>10. QED
  BY <1>t, <1>6, <1>7, <1>8, <1>9, OneFileCallGoes DEF FileInv, FileTypes

LEMMA ResolveDestinationKeeps ==
  ASSUME FileInv, NEW c \in FileCallers, ResolveDestination(c)
  PROVE  FileInv'
<1>t. FileTypes
  BY DEF FileInv
<1>1. fileCall[c].at = "dst" /\ fileCall[c] \in FileCalls
  BY <1>t, FileCallTyped DEF ResolveDestination
<1>2. fileCall[c].req \in FileRequests /\ fileCall[c].req.tool \in {"copy", "move"} /\ fileCall[c].p \in Strings
  BY <1>1 DEF FileCalls, FileInv, CallHasPaths
<1>3. PICK q \in Strings : q = ResolvePath(fileCall[c].req.dst)
  BY <1>t, <1>2, ResolvedPath, FileRequestsAssumption
<1>4. PICK todo : todo = <<<<fileCall[c].p, q>>>>
  OBVIOUS
<1>5. PICK new : new = [fileCall[c] EXCEPT !.q = q, !.at = fileCall[c].req.tool, !.todo = todo]
  OBVIOUS
<1>6. fileCall' = [fileCall EXCEPT ![c] = new]
  BY <1>3, <1>4, <1>5 DEF ResolveDestination
<1>7. todo \in Seq(Strings \X Strings) /\ todo # <<>>
  BY <1>2, <1>4
<1>8. new \in FileCalls /\ new.at = fileCall[c].req.tool /\ new.todo = todo
  BY <1>1, <1>2, <1>5, <1>7, FileStagesAre DEF FileCalls
<1>9. UNCHANGED <<tree, workDir, overlapped, reader, fileCalls>>
  BY DEF ResolveDestination
<1>10. QED
  BY <1>t, <1>2, <1>6, <1>7, <1>8, <1>9, OneFileCallGoes DEF FileInv, FileTypes

LEMMA WriteLookKeeps ==
  ASSUME FileInv, NEW c \in FileCallers, WriteLook(c)
  PROVE  FileInv'
<1>t. FileTypes /\ UNCHANGED <<tree, workDir, overlapped, reader, fileCalls>>
  BY DEF FileInv, WriteLook
<1>1. fileCall[c].at = "write" /\ fileCall[c] \in FileCalls
  BY <1>t, FileCallTyped DEF WriteLook
<1>2. CASE IsThere(fileCall[c].p) /\ ~fileCall[c].req.overwrite
  <2>1. fileCall' = [fileCall EXCEPT ![c].at = "failed"]
    BY <1>2 DEF WriteLook, FileEnds
  <2>2. QED
    BY <1>t, <1>1, <2>1, FileCallMoves, FileStagesAre DEF FileInv, FileTypes
<1>3. CASE ~(IsThere(fileCall[c].p) /\ ~fileCall[c].req.overwrite)
  <2>1. PICK fresh \in BOOLEAN : fresh = ~IsThere(fileCall[c].p)
    OBVIOUS
  <2>2. PICK new : new = [fileCall[c] EXCEPT !.at = "put", !.fresh = fresh]
    OBVIOUS
  <2>3. fileCall' = [fileCall EXCEPT ![c] = new]
    BY <1>3, <2>1, <2>2 DEF WriteLook
  <2>4. new \in FileCalls /\ new.at = "put"
    BY <1>1, <2>2 DEF FileCalls, FileStages
  <2>5. QED
    BY <1>t, <2>3, <2>4, OneFileCallGoes DEF FileInv, FileTypes
<1>4. QED
  BY <1>2, <1>3

\* What a file holds, and what a write leaves in it, are rows.
LEMMA FileIs ==
  ASSUME FileTypes, NEW p, IsFile(p)
  PROVE  p \in Paths /\ tree[p].rows \in Seq(FileRows) /\ tree[p].form \in BOOLEAN /\ tree[p] \in Nodes
<1>1. p \in Paths /\ tree[p] # NoNode /\ tree[p] # Dir
  BY DEF IsFile, IsThere, IsDir
<1>2. tree[p] \in Nodes
  BY <1>1 DEF FileTypes, Trees
<1>3. tree[p] \in [kind : {"file"}, rows : Seq(FileRows), form : BOOLEAN]
  BY <1>1, <1>2 DEF Nodes
<1>4. QED
  BY <1>1, <1>2, <1>3

LEMMA TextFileIs == \A rows \in Seq(FileRows) : TextFile(rows) \in Nodes /\ TextFile(rows).rows = rows
  BY DEF TextFile, Nodes

LEMMA WrittenIs ==
  ASSUME FileTypes, NEW p, NEW rows \in Seq(FileRows), NEW wasNew
  PROVE  Written(p, rows, wasNew) \in Nodes
<1>1. PICK old : old = IF IsFile(p) THEN tree[p] ELSE TextFile(<<>>)
  OBVIOUS
<1>2. old \in Nodes /\ old.rows \in Seq(FileRows)
  <2>1. CASE IsFile(p)
    BY <1>1, <2>1, FileIs
  <2>2. CASE ~IsFile(p)
    <3>1. <<>> \in Seq(FileRows)
      BY EmptySeq
    <3>2. QED
      BY <1>1, <2>2, <3>1, TextFileIs
  <2>3. QED
    BY <2>1, <2>2
<1>3. PICK rest : rest = SubSeq(old.rows, Len(rows) + 1, Len(old.rows))
  OBVIOUS
<1>4. rest \in Seq(FileRows)
  <2>1. Len(rows) + 1 \in Int /\ Len(old.rows) \in Int /\ \A i \in Len(rows) + 1..Len(old.rows) : old.rows[i] \in FileRows
    BY <1>2
  <2>2. QED
    BY <1>3, <2>1, SubSeqProperties
<1>5. TextFile(rows) \in Nodes /\ TextFile(rows \o rest) \in Nodes
  <2>1. rows \o rest \in Seq(FileRows)
    BY <1>4, ConcatProperties
  <2>2. QED
    BY <2>1, TextFileIs
<1>6. \/ Written(p, rows, wasNew) = TextFile(rows \o rest) \/ Written(p, rows, wasNew) = old
      \/ Written(p, rows, wasNew) = TextFile(rows)
  BY <1>1, <1>3 DEF Written
<1>7. QED
  BY <1>2, <1>5, <1>6

LEMMA WriteFileKeeps ==
  ASSUME FileInv, NEW c \in FileCallers, WriteFile(c)
  PROVE  FileInv'
<1>t. FileTypes /\ UNCHANGED <<workDir, overlapped, reader, fileCalls>>
  BY DEF FileInv, WriteFile
<1>1. fileCall[c].at = "put" /\ fileCall[c] \in FileCalls
  BY <1>t, FileCallTyped DEF WriteFile
<1>2. PICK p \in Strings : p = fileCall[c].p
  BY <1>1 DEF FileCalls
<1>3. CASE CanMkdirAll(Parent(p)) /\ Len(p) <= MaxDepth /\ ~IsDir(p)
  <2>1. p \in Paths
    <3>1. p # <<>> /\ p \in Seq(FileNames)
      BY <1>3 DEF IsDir, Strings
    <3>2. Len(p) \in 1..MaxDepth
      BY <1>3, <3>1, FileBounds
    <3>3. QED
      BY <3>2, PathsAre
  <2>2. PICK node \in Nodes : node = Written(p, fileCall[c].req.rows, fileCall[c].fresh)
    <3>1. fileCall[c].req.rows \in Seq(FileRows)
      BY <1>1, FileRequestsAssumption DEF FileCalls
    <3>2. QED
      BY <1>t, <3>1, WrittenIs
  <2>3. tree' = [MkdirAll(tree, Parent(p)) EXCEPT ![p] = node] /\ fileCall' = [fileCall EXCEPT ![c].at = "verify"]
    BY <1>2, <1>3, <2>2 DEF WriteFile, FileGoes
  <2>4. tree' \in Trees /\ IsTree(tree')
    <3>1. tree \in Trees /\ IsTree(tree) /\ tree[p] # Dir
      BY <1>3, <2>1 DEF FileInv, FileTypes, IsDir
    <3>2. QED
      BY <2>1, <2>3, <3>1, PutTree
  <2>5. QED
    BY <1>t, <1>1, <2>3, <2>4, FileCallMoves, FileStagesAre DEF FileTypes
<1>4. CASE ~(CanMkdirAll(Parent(p)) /\ Len(p) <= MaxDepth /\ ~IsDir(p))
  <2>1. tree' = tree /\ fileCall' = [fileCall EXCEPT ![c].at = "failed"]
    BY <1>2, <1>4 DEF WriteFile, FileEnds
  <2>2. QED
    BY <1>t, <1>1, <2>1, FileCallMoves, FileStagesAre DEF FileInv, FileTypes
<1>5. QED
  BY <1>3, <1>4

\* What is still to copy, as a set.
Pairs(todo) == {todo[n] : n \in 1..Len(todo)}

Inside(t, s, d) == {<<Append(s, n), Append(d, n)>> :
                      n \in {n \in FileNames : Append(s, n) \in Paths /\ t[Append(s, n)] # NoNode}}

\* What is in a directory, in any order, is something to copy.
LEMMA EntriesAre ==
  ASSUME NEW t, NEW s \in Strings, NEW d \in Strings, NEW order \in Entries(t, s, d)
  PROVE  /\ order \in Seq(Strings \X Strings)
         /\ Pairs(order) = Inside(t, s, d)
<1> DEFINE names == {n \in FileNames : Append(s, n) \in Paths /\ t[Append(s, n)] # NoNode}
           inside == {<<Append(s, n), Append(d, n)>> : n \in names}
<1>1. IsFiniteSet(inside)
  <2>1. IsFiniteSet(names)
    BY FileBounds, FS_Subset
  <2> DEFINE f == [n \in names |-> <<Append(s, n), Append(d, n)>>]
  <2>2. f \in [names -> inside] /\ \A e \in inside : \E n \in names : f[n] = e
    OBVIOUS
  <2> HIDE DEF names, inside, f
  <2>3. f \in Surjection(names, inside)
    BY <2>2 DEF Surjection
  <2>4. QED
    BY <2>1, <2>3, FS_Surjection
<1>2. Cardinality(inside) \in Nat
  BY <1>1, FS_CardinalityType
<1>3. inside \subseteq Strings \X Strings
  <2>1. \A n \in FileNames : Append(s, n) \in Strings /\ Append(d, n) \in Strings
    BY DEF Strings
  <2>2. ASSUME NEW e \in inside PROVE e \in Strings \X Strings
    <3>1. PICK n \in names : e = <<Append(s, n), Append(d, n)>>
      OBVIOUS
    <3>2. QED
      BY <2>1, <3>1
  <2>3. QED
    BY <2>2
<1>4. order \in [1..Cardinality(inside) -> inside] /\ \A e \in inside : \E n \in DOMAIN order : order[n] = e
  BY DEF Entries
<1> HIDE DEF inside
<1>5. order \in Seq(inside) /\ DOMAIN order = 1..Len(order)
  BY <1>2, <1>4
<1>6. Pairs(order) = inside
  BY <1>4, <1>5 DEF Pairs
<1>7. order \in Seq(Strings \X Strings)
  BY <1>3, <1>5
<1>8. QED
  BY <1>6, <1>7 DEF inside, Inside

\* How a copy goes on, or ends.
CopyGoes(c, todo) ==
  fileCall' = [fileCall EXCEPT ![c] = [@ EXCEPT !.todo = todo, !.at = IF todo = <<>> THEN "verify" ELSE "copy"]]

LEMMA CopyOneKeeps ==
  ASSUME FileInv, NEW c \in FileCallers, CopyOne(c)
  PROVE  FileInv'
<1>t. FileTypes /\ UNCHANGED <<workDir, overlapped, reader, fileCalls>>
  BY DEF FileInv, CopyOne
<1>1. fileCall[c].at = "copy" /\ fileCall[c] \in FileCalls
  BY <1>t, FileCallTyped DEF CopyOne
<1>2. fileCall[c].todo \in Seq(Strings \X Strings) /\ fileCall[c].todo # <<>>
  BY <1>1 DEF FileCalls, FileInv, CallHasPaths
<1>3. PICK s \in Strings, d \in Strings, rest \in Seq(Strings \X Strings) :
        s = fileCall[c].todo[1][1] /\ d = fileCall[c].todo[1][2] /\ rest = Tail(fileCall[c].todo)
  <2>1. fileCall[c].todo[1] \in Strings \X Strings /\ Tail(fileCall[c].todo) \in Seq(Strings \X Strings)
    BY <1>2
  <2>2. QED
    BY <2>1
<1>n. tree \in Trees /\ IsTree(tree)
  BY DEF FileInv, FileTypes
<1>4. ASSUME NEW todo \in Seq(Strings \X Strings), CopyGoes(c, todo), tree' \in Trees, IsTree(tree') PROVE FileInv'
  <2>1. PICK at : at = IF todo = <<>> THEN "verify" ELSE "copy"
    OBVIOUS
  <2>2. PICK new : new = [fileCall[c] EXCEPT !.todo = todo, !.at = at]
    OBVIOUS
  <2>3. fileCall' = [fileCall EXCEPT ![c] = new]
    BY <1>4, <2>1, <2>2 DEF CopyGoes
  <2>4. at \in FileStages /\ (at = "copy" => todo # <<>>) /\ at # "dst"
    BY <2>1 DEF FileStages
  <2>5. new \in FileCalls /\ new.at = at /\ new.todo = todo
    BY <1>1, <2>2, <2>4 DEF FileCalls
  <2>6. QED
    BY <1>t, <1>4, <2>3, <2>4, <2>5, OneFileCallGoes DEF FileTypes
<1>5. \/ /\ tree' = MkdirAll(tree, d)
         /\ \E order \in Entries(MkdirAll(tree, d), s, d) : CopyGoes(c, order \o rest)
      \/ /\ IsFile(s) /\ Len(d) <= MaxDepth /\ ~IsDir(d)
         /\ tree' = [MkdirAll(tree, Parent(d)) EXCEPT ![d] = tree[s]]
         /\ CopyGoes(c, rest)
      \/ fileCall' = [fileCall EXCEPT ![c].at = "failed"] /\ tree' = tree
  BY <1>3 DEF CopyOne, FileEnds, CopyGoes
<1>6. CASE tree' = MkdirAll(tree, d) /\ \E order \in Entries(MkdirAll(tree, d), s, d) : CopyGoes(c, order \o rest)
  <2>1. PICK order \in Entries(MkdirAll(tree, d), s, d) : CopyGoes(c, order \o rest)
    BY <1>6
  <2>2. order \o rest \in Seq(Strings \X Strings)
    BY <2>1, EntriesAre, ConcatProperties
  <2>3. tree' \in Trees /\ IsTree(tree')
    BY <1>n, <1>6, MadeIs, MadeTree
  <2>4. QED
    BY <1>4, <2>1, <2>2, <2>3
<1>7. CASE IsFile(s) /\ Len(d) <= MaxDepth /\ ~IsDir(d)
           /\ tree' = [MkdirAll(tree, Parent(d)) EXCEPT ![d] = tree[s]] /\ CopyGoes(c, rest)
  <2>1. d \in Paths
    <3>1. d # <<>> /\ d \in Seq(FileNames)
      BY <1>7 DEF IsDir, Strings
    <3>2. Len(d) \in 1..MaxDepth
      BY <1>7, <3>1, FileBounds
    <3>3. QED
      BY <3>2, PathsAre
  <2>2. tree[s] \in Nodes /\ tree[d] # Dir
    BY <1>t, <1>7, <2>1, FileIs DEF IsDir
  <2>3. tree' \in Trees /\ IsTree(tree')
    BY <1>n, <1>7, <2>1, <2>2, PutTree
  <2>4. QED
    BY <1>4, <1>7, <2>3
<1>8. CASE fileCall' = [fileCall EXCEPT ![c].at = "failed"] /\ tree' = tree
  BY <1>t, <1>1, <1>8, FileCallMoves, FileStagesAre DEF FileInv, FileTypes
<1>9. QED
  BY <1>5, <1>6, <1>7, <1>8

\* A rename that can be made goes nowhere inside of what it renames.
LEMMA NotIntoItself ==
  ASSUME NEW p \in Paths, NEW q \in Strings, Len(q) <= MaxDepth, CanMkdirAll(Parent(q)), IsThere(p),
         IsDir(p) => q \notin Below(p)
  PROVE  ~Begins(p, Parent(q))
<1> SUFFICES ASSUME Begins(p, Parent(q)) PROVE FALSE
  OBVIOUS
<1>1. p \in Strings /\ Len(p) \in Nat /\ Len(p) > 0 /\ Len(q) \in Nat /\ Parent(q) \in Strings /\ Len(Parent(q)) \in Nat
  <2>1. p \in Strings /\ Len(p) \in Nat /\ Len(p) > 0
    BY ParentPath
  <2>2. Parent(q) \in Strings
    BY ParentIs
  <2>3. Len(q) \in Nat /\ Len(Parent(q)) \in Nat
    BY <2>2 DEF Strings
  <2>4. QED
    BY <2>1, <2>2, <2>3
<1>2. q # <<>>
  BY <1>1, ParentIs DEF Begins
<1>3. Len(Parent(q)) = Len(q) - 1 /\ \A i \in 1..Len(q) - 1 : Parent(q)[i] = q[i]
  BY <1>2, ParentIs
<1>4. Len(q) > Len(p) /\ Begins(p, q)
  BY <1>1, <1>3 DEF Begins
<1>5. q \in Paths
  <2>1. Len(q) \in 1..MaxDepth
    BY <1>1, <1>4, FileBounds
  <2>2. QED
    BY <2>1, PathsAre
<1>6. q \in Below(p)
  BY <1>1, <1>4, <1>5, BelowIs
<1>7. IsFile(p)
  BY <1>6 DEF IsFile
<1>8. SubSeq(Parent(q), 1, Len(p)) = p
  BY <1>1, BeginsIs
<1>9. Len(p) \in 1..Len(Parent(q))
  BY <1>1 DEF Begins
<1>10. QED
  BY <1>7, <1>8, <1>9 DEF CanMkdirAll, NotFiles

LEMMA MoveFileKeeps ==
  ASSUME FileInv, NEW c \in FileCallers, MoveFile(c)
  PROVE  FileInv'
<1>t. FileTypes /\ UNCHANGED <<workDir, overlapped, reader, fileCalls>>
  BY DEF FileInv, MoveFile
<1>1. fileCall[c].at = "move" /\ fileCall[c] \in FileCalls
  BY <1>t, FileCallTyped DEF MoveFile
<1>2. PICK p \in Strings, q \in Strings : p = fileCall[c].p /\ q = fileCall[c].q
  BY <1>1 DEF FileCalls
<1>n. tree \in Trees /\ IsTree(tree) /\ Parent(q) \in Strings
  BY ParentIs DEF FileInv, FileTypes
<1>3. PICK made \in Trees : made = MkdirAll(tree, Parent(q)) /\ IsTree(made)
  BY <1>n, MadeIs, MadeTree
<1>4. \/ tree' = tree /\ fileCall' = [fileCall EXCEPT ![c].at = "failed"]
      \/ tree' = made /\ fileCall' = [fileCall EXCEPT ![c].at = "failed"]
      \/ /\ CanMkdirAll(Parent(q)) /\ p # <<>> /\ IsThere(p) /\ Len(p) - Len(p) + Len(q) <= MaxDepth
         /\ IF IsDir(p) THEN ~IsThere(q) /\ q \notin Below(p) ELSE ~IsDir(q)
         /\ tree' = Renamed(made, p, q) /\ fileCall' = [fileCall EXCEPT ![c].at = "verify"]
  BY <1>2, <1>3 DEF MoveFile, FileEnds, FileGoes, Renamed
<1>5. CASE tree' = tree /\ fileCall' = [fileCall EXCEPT ![c].at = "failed"]
  BY <1>t, <1>1, <1>n, <1>5, FileCallMoves, FileStagesAre DEF FileTypes
<1>6. CASE tree' = made /\ fileCall' = [fileCall EXCEPT ![c].at = "failed"]
  BY <1>t, <1>1, <1>3, <1>6, FileCallMoves, FileStagesAre DEF FileTypes
<1>7. CASE /\ CanMkdirAll(Parent(q)) /\ p # <<>> /\ IsThere(p) /\ Len(p) - Len(p) + Len(q) <= MaxDepth
           /\ IF IsDir(p) THEN ~IsThere(q) /\ q \notin Below(p) ELSE ~IsDir(q)
           /\ tree' = Renamed(made, p, q) /\ fileCall' = [fileCall EXCEPT ![c].at = "verify"]
  <2>1. p \in Paths /\ Len(p) \in Nat /\ Len(p) > 0 /\ Len(q) \in Nat /\ Len(Parent(q)) \in Nat
    BY <1>7, <1>n, ParentPath DEF IsThere, Strings
  <2>2. Parent(q) # <<>> => made[Parent(q)] = Dir
    <3>1. Parent(q) # <<>> => Parent(q) \in Paths
      <4>1. Len(Parent(q)) <= MaxDepth /\ MaxDepth \in Nat
        BY <1>7, FileBounds DEF CanMkdirAll
      <4>2. Parent(q) # <<>> => Len(Parent(q)) \in 1..MaxDepth
        BY <1>n, <2>1, <4>1 DEF Strings
      <4>3. QED
        BY <1>n, <4>2, PathsAre
    <3>2. Begins(Parent(q), Parent(q))
      BY <2>1 DEF Begins
    <3>3. QED
      BY <1>3, <1>n, <3>1, <3>2, MadeIs
  <2>3. ~Begins(p, Parent(q))
    BY <1>7, <2>1, NotIntoItself
  <2>4. tree' \in Trees /\ IsTree(tree')
    BY <1>3, <1>7, <2>1, <2>2, <2>3, RenamedTree
  <2>5. QED
    BY <1>t, <1>1, <1>7, <2>4, FileCallMoves, FileStagesAre DEF FileTypes
<1>8. QED
  BY <1>4, <1>5, <1>6, <1>7

LEMMA DeleteFileKeeps ==
  ASSUME FileInv, NEW c \in FileCallers, DeleteFile(c)
  PROVE  FileInv'
<1>t. FileTypes /\ UNCHANGED <<workDir, overlapped, reader, fileCalls>>
  BY DEF FileInv, DeleteFile
<1>1. fileCall[c].at = "delete" /\ fileCall[c] \in FileCalls
  BY <1>t, FileCallTyped DEF DeleteFile
<1>2. PICK p \in Strings : p = fileCall[c].p
  BY <1>1 DEF FileCalls
<1>3. \/ /\ tree' = [x \in Paths |-> IF x = p \/ x \in Below(p) THEN NoNode ELSE tree[x]]
         /\ fileCall' = [fileCall EXCEPT ![c].at = "verify"]
      \/ tree' = tree /\ fileCall' = [fileCall EXCEPT ![c].at = "failed"]
  BY <1>2 DEF DeleteFile, FileEnds, FileGoes
<1>4. tree' \in Trees /\ IsTree(tree')
  BY <1>3, CutTree DEF FileInv, FileTypes
<1>5. QED
  BY <1>t, <1>1, <1>3, <1>4, FileCallMoves, FileStagesAre DEF FileTypes

LEMMA CreateDirectoryKeeps ==
  ASSUME FileInv, NEW c \in FileCallers, CreateDirectory(c)
  PROVE  FileInv'
<1>t. FileTypes /\ UNCHANGED <<workDir, overlapped, reader, fileCalls>>
  BY DEF FileInv, CreateDirectory
<1>1. fileCall[c].at = "create" /\ fileCall[c] \in FileCalls
  BY <1>t, FileCallTyped DEF CreateDirectory
<1>2. PICK p \in Strings : p = fileCall[c].p
  BY <1>1 DEF FileCalls
<1>3. \/ tree' = MkdirAll(tree, p) /\ fileCall' = [fileCall EXCEPT ![c].at = "verify"]
      \/ tree' = tree /\ fileCall' = [fileCall EXCEPT ![c].at = "failed"]
  BY <1>2 DEF CreateDirectory, FileEnds, FileGoes
<1>4. tree' \in Trees /\ IsTree(tree')
  BY <1>3, MadeIs, MadeTree DEF FileInv, FileTypes
<1>5. QED
  BY <1>t, <1>1, <1>3, <1>4, FileCallMoves, FileStagesAre DEF FileTypes

LEMMA LookForDirectoryKeeps ==
  ASSUME FileInv, NEW c \in FileCallers, LookForDirectory(c)
  PROVE  FileInv'
<1>t. FileTypes /\ UNCHANGED <<tree, workDir, overlapped, reader, fileCalls>>
  BY DEF FileInv, LookForDirectory
<1>1. fileCall[c].at = "chdir" /\ fileCall[c] \in FileCalls
  BY <1>t, FileCallTyped DEF LookForDirectory
<1>2. \/ fileCall' = [fileCall EXCEPT ![c].at = "chdir2"]
      \/ fileCall' = [fileCall EXCEPT ![c].at = "failed"]
  BY DEF LookForDirectory, FileGoes
<1>3. QED
  BY <1>t, <1>1, <1>2, FileCallMoves, FileStagesAre DEF FileInv, FileTypes

LEMMA SetWorkingDirectoryKeeps ==
  ASSUME FileInv, NEW c \in FileCallers, SetWorkingDirectory(c)
  PROVE  FileInv'
<1>t. FileTypes /\ UNCHANGED <<tree, overlapped, reader, fileCalls>>
  BY DEF FileInv, SetWorkingDirectory
<1>1. fileCall[c].at = "chdir2" /\ fileCall[c] \in FileCalls
  BY <1>t, FileCallTyped DEF SetWorkingDirectory
<1>2. fileCall' = [fileCall EXCEPT ![c].at = "ok"]
  BY DEF SetWorkingDirectory, FileEnds
<1>3. workDir' \in Strings
  <2>1. fileCall[c].req.src.path \in Seq(FileNames)
    BY <1>1, FileRequestsAssumption DEF FileCalls
  <2>2. QED
    BY <1>t, <2>1, ResolvedPath DEF SetWorkingDirectory
<1>4. QED
  BY <1>t, <1>1, <1>2, <1>3, FileCallMoves, FileStagesAre DEF FileInv, FileTypes

LEMMA FilePostVerifyKeeps ==
  ASSUME FileInv, NEW c \in FileCallers, FilePostVerify(c)
  PROVE  FileInv'
<1>t. FileTypes /\ UNCHANGED <<tree, workDir, overlapped, reader, fileCalls>>
  BY DEF FileInv, FilePostVerify
<1>1. fileCall[c].at = "verify" /\ fileCall[c] \in FileCalls
  BY <1>t, FileCallTyped DEF FilePostVerify
<1>2. \/ fileCall' = [fileCall EXCEPT ![c].at = "ok"]
      \/ fileCall' = [fileCall EXCEPT ![c].at = "failed"]
  BY DEF FilePostVerify, FileEnds
<1>3. QED
  BY <1>t, <1>1, <1>2, FileCallMoves, FileStagesAre DEF FileInv, FileTypes

\* The next page of a file that has not changed is the row that follows.
LEMMA ReadPageKeeps ==
  ASSUME FileInv, NEW p \in Paths, ReadPage(p)
  PROVE  FileInv'
<1>t. FileTypes /\ PagesSoFar /\ UNCHANGED <<tree, workDir, fileCall, overlapped, fileCalls>>
  BY DEF FileInv, ReadPage
<1>r. reader \in Readers /\ reader.more \in BOOLEAN /\ reader.page \in Nat /\ reader.got \in Seq(FileRows)
  BY <1>t DEF FileTypes, Readers
<1>1. PICK rows \in Seq(FileRows) : rows = tree[p].rows /\ rows # <<>>
  BY <1>t, FileIs DEF ReadPage
<1>2. Len(rows) \in Nat /\ Len(rows) > 0
  BY <1>1
<1>3. PICK page \in Nat : page = IF reader.more THEN reader.page + 1 ELSE 1
  BY <1>r
<1>4. PICK now \in 1..Len(rows) : now = IF page > Len(rows) THEN Len(rows) ELSE page
  <2>1. page >= 1
    BY <1>r, <1>3
  <2>2. QED
    BY <1>2, <2>1
<1>5. PICK got \in Seq(FileRows) : got = IF reader.more THEN Append(reader.got, rows[now]) ELSE <<rows[now]>>
  <2>1. PICK row \in FileRows : row = rows[now]
    BY <1>1
  <2>2. Append(reader.got, row) \in Seq(FileRows) /\ <<row>> \in Seq(FileRows)
    BY <1>r, AppendProperties
  <2>3. QED
    BY <2>1, <2>2
<1>6. PICK of \in SUBSET Seq(FileRows) : of = IF reader.more THEN reader.of \cup {rows} ELSE {rows}
  BY <1>r DEF Readers
<1>7. reader' = [path |-> p, page |-> now, more |-> Truncated(rows, now), got |-> got, of |-> of]
  BY <1>1, <1>3, <1>4, <1>5, <1>6 DEF ReadPage
<1>8. PICK more \in BOOLEAN : more <=> now < Len(rows)
  <2>1. (now < Len(rows)) \in BOOLEAN
    BY <1>2
  <2>2. QED
    BY <2>1
<1>9. /\ reader'.page = now /\ (reader'.more <=> now < Len(rows)) /\ reader'.got = got /\ reader'.of = of
      /\ reader' \in Readers
  <2>1. Truncated(rows, now) \in BOOLEAN /\ (Truncated(rows, now) <=> now < Len(rows)) /\ p \in Strings
    BY <1>2, PathsAre DEF Truncated
  <2>2. QED
    BY <1>7, <2>1 DEF Readers
<1>10. rows \in of
  BY <1>6
<1>11. ASSUME NEW one \in of, of = {one}
       PROVE  /\ Len(got) = now /\ now <= Len(one) /\ \A n \in 1..now : got[n] = one[n]
              /\ now < Len(rows) <=> now < Len(one)
  <2>1. one = rows
    BY <1>10, <1>11
  <2>2. CASE ~reader.more
    <3>1. now = 1 /\ got = <<rows[1]>>
      BY <1>2, <1>3, <1>4, <1>5, <2>2
    <3>2. QED
      BY <2>1, <3>1
  <2>3. CASE reader.more
    <3>1. reader.of = {rows}
      BY <1>6, <1>11, <1>t, <2>1, <2>3 DEF PagesSoFar
    <3>2. /\ Len(reader.got) = reader.page /\ reader.page < Len(rows)
          /\ \A n \in 1..reader.page : reader.got[n] = rows[n]
      BY <1>t, <2>3, <3>1 DEF PagesSoFar
    <3>3. now = reader.page + 1 /\ got = Append(reader.got, rows[now])
      BY <1>2, <1>3, <1>4, <1>5, <1>r, <2>3, <3>2
    <3>4. /\ Len(got) = Len(reader.got) + 1 /\ got[Len(reader.got) + 1] = rows[now]
          /\ \A n \in 1..Len(reader.got) : got[n] = reader.got[n]
      BY <1>r, <3>3, AppendProperties
    <3>5. Len(got) = now /\ \A n \in 1..now : got[n] = rows[n]
      <4>1. ASSUME NEW n \in 1..now PROVE n = now \/ n \in 1..reader.page
        BY <1>r, <3>3
      <4>2. QED
        BY <3>2, <3>3, <3>4, <4>1
    <3>6. QED
      BY <2>1, <3>5
  <2>4. QED
    BY <1>r, <2>2, <2>3
<1>12. PagesSoFar'
  <2>1. IsFiniteSet(of)
    BY <1>t, <1>6, FS_AddElement, FS_Singleton DEF PagesSoFar
  <2>2. QED
    BY <1>9, <1>10, <1>11, <2>1 DEF PagesSoFar
<1>13. QED
  BY <1>t, <1>9, <1>12 DEF FileInv, FileTypes, IsTree, CallHasPaths

LEMMA FileStepInv == FileInv /\ [FilesNext]_fileVars => FileInv'
<1> SUFFICES ASSUME FileInv, [FilesNext]_fileVars PROVE FileInv'
  OBVIOUS
<1>1. ASSUME NEW c \in FileCallers, NEW req \in FileRequests, FileBegin(c, req) PROVE FileInv'
  BY <1>1, FileBeginKeeps
<1>2. ASSUME NEW c \in FileCallers, FileStep(c) PROVE FileInv'
  BY <1>2, ResolveSourceKeeps, ResolveDestinationKeeps, WriteLookKeeps, WriteFileKeeps, CopyOneKeeps, MoveFileKeeps,
     DeleteFileKeeps, CreateDirectoryKeeps, LookForDirectoryKeeps, SetWorkingDirectoryKeeps, FilePostVerifyKeeps
     DEF FileStep
<1>3. ASSUME NEW p \in Paths, ReadPage(p) PROVE FileInv'
  BY <1>3, ReadPageKeeps
<1>4. CASE UNCHANGED fileVars
  BY <1>4 DEF fileVars, FileInv, FileTypes, IsTree, CallHasPaths, PagesSoFar
<1>5. QED
  BY <1>1, <1>2, <1>3, <1>4 DEF FilesNext

FileSpec == FilesInit /\ [][FilesNext]_fileVars

LEMMA FileInvAlways == FileSpec => []FileInv
  BY FilesInitInv, FileStepInv, PTL DEF FileSpec

(* What is on disk is at every moment a map from paths to nothing, to         *)
(* directories and to files of rows, and every call is at a stage of its tool *)
(* with the paths that the stage needs (filesystem.go and its handlers).      *)
THEOREM FileTypeCorrect == FileSpec => []FileTypes
<1>1. FileInv => FileTypes
  BY DEF FileInv
<1>2. QED
  BY FileInvAlways, <1>1, PTL

(* Whatever calls interleave, and wherever a copy or a move ends half way,    *)
(* each thing on disk lies in a directory: MkdirAll, the rename of a tree and *)
(* the recycle bin never leave something where no directory is.               *)
THEOREM TreeStaysHolds == FileSpec => []TreeStays
<1>1. ASSUME FileInv PROVE TreeStays
  <2> SUFFICES ASSUME NEW p \in Paths, IsThere(p) PROVE IsDir(Parent(p))
    BY DEF TreeStays
  <2>1. p # <<>> /\ (Parent(p) = <<>> \/ Parent(p) \in Paths)
    BY ParentPath
  <2>2. tree[p] # NoNode
    BY <2>1 DEF IsThere
  <2>3. Parent(p) = <<>> \/ tree[Parent(p)] = Dir
    BY <1>1, <2>2 DEF FileInv, IsTree
  <2>4. QED
    BY <2>1, <2>3 DEF IsDir
<1>2. QED
  BY FileInvAlways, <1>1, PTL

(* The pages that read_file answers for a file nobody writes meanwhile are    *)
(* that file, whole and in order, when it says that no more follow.           *)
THEOREM PagesAddUpHolds == FileSpec => []PagesAddUp
<1>1. ASSUME FileInv PROVE PagesAddUp
  <2> SUFFICES ASSUME ~reader.more, Cardinality(reader.of) = 1, reader.got # <<>> PROVE reader.got \in reader.of
    BY DEF PagesAddUp
  <2>r. /\ reader.page \in Nat /\ reader.got \in Seq(FileRows) /\ reader.of \subseteq Seq(FileRows)
    BY <1>1 DEF FileInv, FileTypes, Readers
  <2>1. PICK rows : reader.of = {rows}
    <3>1. IsFiniteSet(reader.of)
      BY <1>1 DEF FileInv, PagesSoFar
    <3>2. QED
      BY <3>1, FS_Singleton
  <2>2. rows \in reader.of /\ rows \in Seq(FileRows)
    BY <2>1, <2>r
  <2>3. /\ Len(reader.got) = reader.page /\ reader.page <= Len(rows) /\ ~(reader.page < Len(rows))
        /\ \A n \in 1..reader.page : reader.got[n] = rows[n]
    BY <1>1, <2>1, <2>2 DEF FileInv, PagesSoFar
  <2>4. Len(reader.got) = Len(rows)
    BY <2>2, <2>3, <2>r
  <2>5. reader.got = rows
    BY <2>2, <2>3, <2>4, <2>r, SeqEqual
  <2>6. QED
    BY <2>2, <2>5
<1>2. QED
  BY FileInvAlways, <1>1, PTL

-----------------------------------------------------------------------------
(* What a call does that nothing else runs beside.                           *)

\* A path, and what it begins with.
LEMMA ConcatIs ==
  ASSUME NEW p \in Strings, NEW e \in Strings
  PROVE  /\ p \o e \in Strings /\ Len(p \o e) = Len(p) + Len(e) /\ Len(p) \in Nat /\ Len(e) \in Nat
         /\ \A i \in 1..Len(p) : (p \o e)[i] = p[i]
         /\ \A i \in 1..Len(e) : (p \o e)[Len(p) + i] = e[i]
<1>1. p \in Seq(FileNames) /\ e \in Seq(FileNames) /\ Len(p) \in Nat /\ Len(e) \in Nat
  BY DEF Strings
<1>2. /\ p \o e \in Seq(FileNames) /\ Len(p \o e) = Len(p) + Len(e)
      /\ \A i \in 1..Len(p) + Len(e) : (p \o e)[i] = IF i <= Len(p) THEN p[i] ELSE e[i - Len(p)]
  BY <1>1, ConcatProperties
<1>3. \A i \in 1..Len(p) : (p \o e)[i] = p[i]
  BY <1>1, <1>2
<1>4. ASSUME NEW i \in 1..Len(e) PROVE (p \o e)[Len(p) + i] = e[i]
  <2>1. Len(p) + i \in 1..Len(p) + Len(e) /\ ~(Len(p) + i <= Len(p)) /\ Len(p) + i - Len(p) = i
    BY <1>1
  <2>2. QED
    BY <1>2, <2>1
<1>5. p \o e \in Strings
  BY <1>2 DEF Strings
<1>6. QED
  BY <1>1, <1>2, <1>3, <1>4, <1>5

LEMMA EmptyRemainder == <<>> \in Strings /\ \A p \in Strings : p \o <<>> = p /\ Begins(<<>>, p) /\ Begins(p, p) /\ (p = <<>> <=> Len(p) = 0)
<1>1. <<>> \in Seq(FileNames) /\ Len(<<>>) = 0
  BY EmptySeq
<1>2. ASSUME NEW p \in Strings PROVE p \o <<>> = p /\ Begins(<<>>, p) /\ Begins(p, p) /\ (p = <<>> <=> Len(p) = 0)
  <2>1. p \in Seq(FileNames) /\ Len(p) \in Nat
    BY <1>2 DEF Strings
  <2>2. p \o <<>> = p
    BY <2>1, ConcatEmptySeq
  <2>3. Begins(<<>>, p) /\ Begins(p, p)
    BY <1>1, <2>1 DEF Begins
  <2>4. p = <<>> <=> Len(p) = 0
    BY <2>1
  <2>5. QED
    BY <2>2, <2>3, <2>4
<1>3. QED
  BY <1>1, <1>2 DEF Strings

LEMMA Remainder ==
  ASSUME NEW p \in Strings, NEW x \in Strings, Begins(p, x)
  PROVE  SubSeq(x, Len(p) + 1, Len(x)) \in Strings /\ x = p \o SubSeq(x, Len(p) + 1, Len(x))
<1>1. x \in Seq(FileNames) /\ Len(x) \in Nat /\ Len(p) \in Nat /\ Len(p) <= Len(x)
  BY DEF Strings, Begins
<1>2. SubSeq(x, 1, Len(p)) = p
  BY BeginsIs
<1>3. SubSeq(x, 1, Len(p)) \o SubSeq(x, Len(p) + 1, Len(x)) = SubSeq(x, 1, Len(x))
  <2>1. 1 \in 1..Len(x) + 1 /\ Len(p) \in 1 - 1..Len(x) /\ Len(x) \in Len(p)..Len(x)
    BY <1>1
  <2>2. QED
    BY <1>1, <2>1, ConcatAdjacentSubSeq
<1>4. SubSeq(x, 1, Len(x)) = x
  <2>1. Begins(x, x)
    BY EmptyRemainder
  <2>2. QED
    BY <2>1, BeginsIs
<1>5. SubSeq(x, Len(p) + 1, Len(x)) \in Strings
  <2>1. Len(p) + 1 \in Int /\ Len(x) \in Int /\ \A i \in Len(p) + 1..Len(x) : x[i] \in FileNames
    BY <1>1
  <2>2. QED
    BY <2>1, SubSeqProperties DEF Strings
<1>6. QED
  BY <1>2, <1>3, <1>4, <1>5

LEMMA BeginsBoth ==
  ASSUME NEW p \in Strings, NEW q \in Strings, NEW x \in Strings, Begins(p, x), Begins(q, x)
  PROVE  Begins(p, q) \/ Begins(q, p)
<1>1. Len(p) \in Nat /\ Len(q) \in Nat
  BY DEF Strings
<1>2. QED
  BY <1>1 DEF Begins

LEMMA BeginsThrough ==
  ASSUME NEW p \in Strings, NEW q \in Strings, NEW x \in Strings, Begins(p, q), Begins(q, x)
  PROVE  Begins(p, x)
<1>1. Len(p) \in Nat /\ Len(q) \in Nat /\ Len(x) \in Nat
  BY DEF Strings
<1>2. QED
  BY <1>1 DEF Begins

LEMMA BeginsSame ==
  ASSUME NEW p \in Strings, NEW q \in Strings, Begins(p, q), p # q
  PROVE  Len(p) < Len(q)
<1>1. Len(p) \in Nat /\ Len(q) \in Nat /\ Len(p) <= Len(q)
  BY DEF Strings, Begins
<1>2. CASE Len(p) = Len(q)
  <2>1. \A i \in 1..Len(p) : p[i] = q[i]
    BY DEF Begins
  <2>2. p = q
    BY <1>2, <2>1, SeqEqual DEF Strings
  <2>3. QED
    BY <2>2
<1>3. QED
  BY <1>1, <1>2

LEMMA BeginsConcat ==
  ASSUME NEW p \in Strings, NEW e \in Strings
  PROVE  Begins(p, p \o e) /\ \A f \in Strings : Begins(p \o e, p \o f) <=> Begins(e, f)
<1>1. Begins(p, p \o e)
  BY ConcatIs DEF Begins
<1>2. ASSUME NEW f \in Strings, Begins(e, f) PROVE Begins(p \o e, p \o f)
  <2>1. Len(p \o e) <= Len(p \o f) /\ Len(e) <= Len(f)
    BY <1>2, ConcatIs DEF Begins
  <2>2. ASSUME NEW i \in 1..Len(p \o e) PROVE (p \o f)[i] = (p \o e)[i]
    <3>1. CASE i <= Len(p)
      <4>1. i \in 1..Len(p)
        BY <3>1, ConcatIs
      <4>2. QED
        BY <4>1, ConcatIs
    <3>2. CASE ~(i <= Len(p))
      <4>1. PICK j \in 1..Len(e) : i = Len(p) + j
        <5>1. i - Len(p) \in 1..Len(e) /\ i = Len(p) + (i - Len(p))
          BY <3>2, ConcatIs
        <5>2. QED
          BY <5>1
      <4>2. j \in 1..Len(f) /\ f[j] = e[j]
        BY <1>2, <2>1, ConcatIs DEF Begins
      <4>3. QED
        BY <4>1, <4>2, ConcatIs
    <3>3. QED
      BY <3>1, <3>2
  <2>3. QED
    BY <2>1, <2>2 DEF Begins
<1>3. ASSUME NEW f \in Strings, Begins(p \o e, p \o f) PROVE Begins(e, f)
  <2>1. Len(e) <= Len(f)
    BY <1>3, ConcatIs DEF Begins
  <2>2. ASSUME NEW i \in 1..Len(e) PROVE f[i] = e[i]
    <3>1. Len(p) + i \in 1..Len(p \o e) /\ i \in 1..Len(f)
      <4>1. Len(p \o e) = Len(p) + Len(e) /\ Len(p) \in Nat /\ Len(e) \in Nat /\ Len(f) \in Nat
        BY ConcatIs
      <4>2. QED
        BY <2>1, <4>1
    <3>2. (p \o f)[Len(p) + i] = (p \o e)[Len(p) + i]
      BY <1>3, <3>1 DEF Begins
    <3>3. QED
      BY <3>1, <3>2, ConcatIs
  <2>3. QED
    BY <2>1, <2>2 DEF Begins
<1>4. QED
  BY <1>1, <1>2, <1>3

LEMMA SameRemainder ==
  ASSUME NEW p \in Strings, NEW e \in Strings, NEW f \in Strings, p \o e = p \o f
  PROVE  e = f
<1>1. Begins(p \o e, p \o f) /\ Begins(p \o f, p \o e)
  BY ConcatIs, EmptyRemainder
<1>2. Begins(e, f) /\ Begins(f, e)
  BY <1>1, BeginsConcat
<1>3. Len(e) \in Nat /\ Len(f) \in Nat
  BY ConcatIs
<1>4. ASSUME e # f PROVE FALSE
  <2>1. Len(e) < Len(f) /\ Len(f) < Len(e)
    BY <1>2, <1>4, BeginsSame
  <2>2. QED
    BY <1>3, <2>1
<1>5. QED
  BY <1>4

\* The next name on the way to a path.
LEMMA NextName ==
  ASSUME NEW p \in Strings, NEW x \in Strings, Begins(p, x), p # x
  PROVE  \E n \in FileNames : Append(p, n) \in Strings /\ Begins(Append(p, n), x) /\ Len(Append(p, n)) = Len(p) + 1
<1>1. Len(p) \in Nat /\ Len(x) \in Nat /\ Len(p) < Len(x) /\ p \in Seq(FileNames) /\ x \in Seq(FileNames)
  BY BeginsSame DEF Strings
<1>2. PICK n \in FileNames : n = x[Len(p) + 1]
  BY <1>1
<1>3. /\ Append(p, n) \in Seq(FileNames) /\ Len(Append(p, n)) = Len(p) + 1
      /\ \A i \in 1..Len(p) : Append(p, n)[i] = p[i]
      /\ Append(p, n)[Len(p) + 1] = n
  BY <1>1, AppendProperties
<1>4. ASSUME NEW i \in 1..Len(p) + 1 PROVE x[i] = Append(p, n)[i]
  <2>1. i \in 1..Len(p) \/ i = Len(p) + 1
    BY <1>1
  <2>2. QED
    BY <1>2, <1>3, <2>1 DEF Begins
<1>5. Begins(Append(p, n), x)
  BY <1>1, <1>3, <1>4 DEF Begins
<1>6. QED
  BY <1>3, <1>5 DEF Strings

LEMMA AppendRemainder ==
  ASSUME NEW p \in Strings, NEW e \in Strings, NEW n \in FileNames
  PROVE  Append(e, n) \in Strings /\ Append(p \o e, n) = p \o Append(e, n)
<1>1. p \in Seq(FileNames) /\ e \in Seq(FileNames) /\ p \o e \in Seq(FileNames) /\ <<n>> \in Seq(FileNames)
  BY ConcatProperties DEF Strings
<1>2. Append(e, n) = e \o <<n>> /\ Append(p \o e, n) = (p \o e) \o <<n>>
  BY <1>1, AppendIsConcat
<1>3. (p \o e) \o <<n>> = p \o (e \o <<n>>)
  BY <1>1, ConcatAssociative
<1>4. Append(e, n) \in Seq(FileNames)
  BY <1>1, AppendProperties
<1>5. QED
  BY <1>2, <1>3, <1>4 DEF Strings

\* What is at a path of a tree.
LEMMA AtIs ==
  ASSUME NEW p \in Strings
  PROVE  /\ IsDir(p) <=> NodeAt(tree, p) = Dir
         /\ IsThere(p) <=> NodeAt(tree, p) # NoNode
  BY PathsAre, EmptyRemainder DEF NodeAt, IsDir, IsThere, Dir, NoNode

LEMMA AtPath ==
  ASSUME NEW t, NEW p \in Strings
  PROVE  /\ p \in Paths => p # <<>> /\ NodeAt(t, p) = t[p]
         /\ p # <<>> => (p \in Paths <=> Len(p) <= MaxDepth)
         /\ NodeAt(t, p) # NoNode => p = <<>> \/ p \in Paths
         /\ p = <<>> => NodeAt(t, p) = Dir
<1>1. Len(p) \in Nat /\ MaxDepth \in Nat /\ (p = <<>> <=> Len(p) = 0)
  BY FileBounds, EmptyRemainder DEF Strings
<1>2. p \in Paths <=> Len(p) \in 1..MaxDepth
  BY PathsAre
<1>3. QED
  BY <1>1, <1>2 DEF NodeAt

\* On the way to what is there are directories.
LEMMA Ancestors ==
  ASSUME NEW t \in Trees, IsTree(t), NEW x \in Strings, NodeAt(t, x) # NoNode, NEW y \in Strings, Begins(y, x), y # x
  PROVE  NodeAt(t, y) = Dir
<1>1. CASE y = <<>>
  BY <1>1, AtPath
<1>2. CASE y # <<>>
  <2> DEFINE T == {Len(z) : z \in {z \in Paths : t[z] # NoNode /\ Begins(y, z) /\ y # z}}
  <2>0. \A z \in Paths : z \in Strings /\ Len(z) \in Nat
    BY PathsAre DEF Strings
  <2>1. T \in SUBSET Nat
    BY <2>0
  <2>2. Len(x) \in T
    <3>1. Len(x) > Len(y) /\ Len(y) \in Nat
      BY BeginsSame DEF Strings
    <3>2. x # <<>>
      BY <3>1, EmptyRemainder
    <3>3. x \in Paths /\ t[x] # NoNode
      BY <3>2, AtPath
    <3>4. QED
      BY <3>3
  <2>3. PICK m \in T : \A l \in T : m <= l
    <3> HIDE DEF T
    <3>1. QED
      BY <2>1, <2>2, LeastNumber
  <2>4. PICK z \in Paths : m = Len(z) /\ t[z] # NoNode /\ Begins(y, z) /\ y # z
    BY <2>3
  <2>5. /\ Parent(z) \in Strings /\ Len(Parent(z)) = Len(z) - 1 /\ Len(z) \in Nat /\ Len(z) > Len(y) /\ Len(y) \in Nat
        /\ \A i \in 1..Len(z) - 1 : Parent(z)[i] = z[i]
    BY <2>4, <2>0, ParentPath, BeginsSame DEF Strings
  <2>6. Begins(y, Parent(z))
    BY <2>4, <2>5 DEF Begins
  <2>7. Parent(z) # <<>>
    <3>1. Len(y) > 0
      BY <1>2, <2>5, EmptyRemainder
    <3>2. QED
      BY <2>5, <3>1, EmptyRemainder
  <2>8. Parent(z) \in Paths /\ t[Parent(z)] = Dir
    BY <2>4, <2>7, ParentPath DEF IsTree
  <2>9. Parent(z) = y
    <3>1. CASE Parent(z) # y
      <4>1. t[Parent(z)] # NoNode
        BY <2>8 DEF Dir, NoNode
      <4>2. Len(Parent(z)) \in T
        BY <2>6, <2>8, <3>1, <4>1
      <4>3. Len(z) <= Len(Parent(z))
        BY <2>3, <2>4, <4>2
      <4>4. QED
        BY <2>5, <4>3
    <3>2. QED
      BY <3>1
  <2>10. QED
    BY <2>8, <2>9, AtPath
<1>3. QED
  BY <1>1, <1>2

\* What MkdirAll and a file put in what it made leave at a path.
LEMMA MadeAt ==
  ASSUME NEW t \in Trees, NEW d \in Strings, Len(d) <= MaxDepth
  PROVE  \A y \in Strings : NodeAt(MkdirAll(t, d), y) = IF Begins(y, d) THEN Dir ELSE NodeAt(t, y)
<1> SUFFICES ASSUME NEW y \in Strings PROVE NodeAt(MkdirAll(t, d), y) = IF Begins(y, d) THEN Dir ELSE NodeAt(t, y)
  OBVIOUS
<1>1. CASE y = <<>>
  BY <1>1, EmptyRemainder, AtPath
<1>2. CASE y \in Paths
  BY <1>2, MadeIs, AtPath
<1>3. CASE y # <<>> /\ y \notin Paths
  <2>0. Len(y) \in Nat /\ Len(d) \in Nat /\ MaxDepth \in Nat
    BY FileBounds DEF Strings
  <2>1. ~(Len(y) <= MaxDepth)
    BY <1>3, AtPath
  <2>2. ~Begins(y, d)
    BY <2>0, <2>1 DEF Begins
  <2>3. QED
    BY <1>3, <2>2 DEF NodeAt
<1>4. QED
  BY <1>1, <1>2, <1>3

\* Something put at d, and the directories made on the way there.
PutIn(u, t, d, node) == u = [MkdirAll(t, Parent(d)) EXCEPT ![d] = node]
ShowsPut(u, t, d, node) == \A y \in Strings : NodeAt(u, y) = IF y = d THEN node ELSE IF Begins(y, d) THEN Dir ELSE NodeAt(t, y)
SameBelow(t, w, p) == \A f \in Strings : NodeAt(t, p \o f) = NodeAt(w, p \o f)
OnlyDirsBefore(t, d) == \A y \in Strings : Begins(y, d) /\ y # d /\ NodeAt(t, y) # NoNode => NodeAt(t, y) = Dir

LEMMA PutAt ==
  ASSUME NEW t \in Trees, NEW d \in Paths, NEW node, NEW new, PutIn(new, t, d, node)
  PROVE  ShowsPut(new, t, d, node)
<1>1. /\ d \in Strings /\ d # <<>> /\ Parent(d) \in Strings /\ Len(d) \in Nat /\ Len(Parent(d)) = Len(d) - 1
      /\ \A i \in 1..Len(d) - 1 : Parent(d)[i] = d[i]
  BY ParentPath
<1>2. Len(Parent(d)) <= MaxDepth
  BY <1>1, PathsAre, FileBounds
<1>3. PICK made \in Trees : made = MkdirAll(t, Parent(d))
  BY <1>1, MadeIs
<1>4. \A y \in Strings : NodeAt(made, y) = IF Begins(y, Parent(d)) THEN Dir ELSE NodeAt(t, y)
  BY <1>1, <1>2, <1>3, MadeAt
<1>5. ASSUME NEW y \in Strings PROVE Begins(y, Parent(d)) <=> Begins(y, d) /\ y # d
  <2>1. Begins(y, Parent(d)) => Begins(y, d) /\ y # d
    <3>1. Len(y) \in Nat
      BY DEF Strings
    <3>2. QED
      BY <1>1, <3>1 DEF Begins
  <2>2. ASSUME Begins(y, d), y # d PROVE Begins(y, Parent(d))
    <3>1. Len(y) < Len(d) /\ Len(y) \in Nat
      BY <1>1, <2>2, BeginsSame DEF Strings
    <3>2. QED
      BY <1>1, <2>2, <3>1 DEF Begins
  <2>3. QED
    BY <2>1, <2>2
<1>6. new = [made EXCEPT ![d] = node]
  BY <1>3 DEF PutIn
<1>7. new[d] = node /\ \A x \in Paths \ {d} : new[x] = made[x]
  BY <1>6 DEF Trees
<1>8. ASSUME NEW y \in Strings PROVE NodeAt(new, y) = IF y = d THEN node ELSE NodeAt(made, y)
  <2>1. CASE y \in Paths
    BY <1>7, <2>1, AtPath
  <2>2. CASE y \notin Paths
    BY <2>2 DEF NodeAt
  <2>3. QED
    BY <2>1, <2>2
<1>9. QED
  BY <1>4, <1>5, <1>8 DEF ShowsPut

\* No file on the way to a path: what is there on the way is a directory.
LEMMA OnTheWay ==
  ASSUME FileTypes, NEW d \in Strings, NotFiles(d), NEW y \in Strings, Begins(y, d), NodeAt(tree, y) # NoNode
  PROVE  NodeAt(tree, y) = Dir
<1>1. CASE y = <<>>
  BY <1>1, AtPath
<1>2. CASE y # <<>>
  <2>1. Len(y) \in 1..Len(d) /\ SubSeq(d, 1, Len(y)) = y
    <3>1. Len(y) \in Nat /\ Len(d) \in Nat /\ Len(y) > 0 /\ Len(y) <= Len(d)
      BY <1>2, EmptyRemainder DEF Strings, Begins
    <3>2. QED
      BY <3>1, BeginsIs
  <2>2. ~IsFile(y)
    BY <2>1 DEF NotFiles
  <2>3. QED
    BY <2>2, AtIs DEF IsFile
<1>3. QED
  BY <1>1, <1>2

\* What a step of a copy changes is on the way to its destination only.
LEMMA Apart ==
  ASSUME NEW p \in Strings, NEW q \in Strings, q \notin Below(p), p \notin Below(q),
         NEW x \in Strings, Len(x) <= MaxDepth, Begins(p, x), Begins(q, x)
  PROVE  p = q
<1>1. Len(p) \in Nat /\ Len(q) \in Nat /\ Len(x) \in Nat /\ MaxDepth \in Nat /\ Len(p) <= Len(x) /\ Len(q) <= Len(x)
  BY FileBounds DEF Strings, Begins
<1>2. ASSUME NEW r \in {p, q}, NEW s \in {p, q}, Begins(r, s), r # s, s \notin Below(r) PROVE FALSE
  <2>1. Len(s) > Len(r) /\ Len(s) <= MaxDepth /\ Len(s) \in Nat /\ Len(r) \in Nat
    BY <1>1, <1>2, BeginsSame
  <2>2. Len(s) \in 1..MaxDepth
    BY <1>1, <2>1
  <2>3. s \in Paths
    BY <2>2, PathsAre
  <2>4. QED
    BY <1>2, <2>1, <2>3, BelowIs
<1>3. Begins(p, q) \/ Begins(q, p)
  BY BeginsBoth
<1>4. QED
  BY <1>2, <1>3

\* Whatever was copied of w stays copied.
StaysCopied(u, t, w, p, q) ==
  \A f \in Strings : NodeAt(w, p \o f) # NoNode /\ NodeAt(t, q \o f) = NodeAt(w, p \o f) => NodeAt(u, q \o f) = NodeAt(w, p \o f)
ToCopy(t, w, p, q, x, y) ==
  /\ IsTree(t) /\ q \notin Below(p) /\ p \notin Below(q)
  /\ \E e \in Strings : x = p \o e /\ y = q \o e
  /\ Len(y) <= MaxDepth /\ NodeAt(t, x) # NoNode /\ SameBelow(t, w, p) /\ OnlyDirsBefore(t, y)

LEMMA CopyStep ==
  ASSUME NEW t \in Trees, NEW w, NEW u, NEW p \in Strings, NEW q \in Strings, NEW x, NEW y,
         ToCopy(t, w, p, q, x, y), ShowsPut(u, t, y, NodeAt(t, x))
  PROVE  SameBelow(u, w, p) /\ StaysCopied(u, t, w, p, q)
<1>e. PICK e \in Strings : x = p \o e /\ y = q \o e
  BY DEF ToCopy
<1>b. IsTree(t) /\ q \notin Below(p) /\ p \notin Below(q)
  BY DEF ToCopy
<1>0. /\ p \o e \in Strings /\ q \o e \in Strings
      /\ \A f \in Strings : NodeAt(t, p \o f) = NodeAt(w, p \o f)
      /\ \A z \in Strings : Begins(z, q \o e) /\ z # q \o e /\ NodeAt(t, z) # NoNode => NodeAt(t, z) = Dir
      /\ \A z \in Strings : NodeAt(u, z) = IF z = q \o e THEN NodeAt(t, p \o e) ELSE IF Begins(z, q \o e) THEN Dir ELSE NodeAt(t, z)
      /\ Len(q \o e) <= MaxDepth /\ NodeAt(t, p \o e) # NoNode
  BY <1>e, ConcatIs DEF ToCopy, SameBelow, OnlyDirsBefore, ShowsPut
<1>1. ASSUME NEW f \in Strings PROVE NodeAt(u, p \o f) = NodeAt(w, p \o f)
  <2>0. p \o f \in Strings /\ Begins(p, p \o f)
    BY ConcatIs, BeginsConcat
  <2>1. CASE Begins(p \o f, q \o e)
    <3>1. Begins(p, q \o e) /\ Begins(q, q \o e)
      BY <1>0, <2>0, <2>1, BeginsThrough, BeginsConcat
    <3>2. p = q
      BY <1>0, <1>b, <3>1, Apart
    <3>3. CASE p \o f = q \o e
      BY <1>0, <2>0, <3>2, <3>3
    <3>4. CASE p \o f # q \o e
      <4>1. NodeAt(t, p \o f) = Dir
        BY <1>0, <2>0, <2>1, <3>2, <3>4, <1>b, Ancestors
      <4>2. QED
        BY <1>0, <2>0, <2>1, <3>4, <4>1
    <3>5. QED
      BY <3>3, <3>4
  <2>2. CASE ~Begins(p \o f, q \o e)
    <3>1. p \o f # q \o e
      BY <1>0, <2>2, EmptyRemainder
    <3>2. QED
      BY <1>0, <2>0, <2>2, <3>1
  <2>3. QED
    BY <2>1, <2>2
<1>2. NodeAt(u, q \o e) = NodeAt(w, p \o e)
  BY <1>0
<1>3. ASSUME NEW f \in Strings, NodeAt(w, p \o f) # NoNode, NodeAt(t, q \o f) = NodeAt(w, p \o f)
      PROVE  NodeAt(u, q \o f) = NodeAt(w, p \o f)
  <2>0. q \o f \in Strings
    BY ConcatIs
  <2>1. CASE q \o f = q \o e
    <3>1. f = e
      BY <2>1, SameRemainder
    <3>2. QED
      BY <1>2, <3>1
  <2>2. CASE q \o f # q \o e /\ Begins(q \o f, q \o e)
    BY <1>0, <1>3, <2>0, <2>2
  <2>3. CASE q \o f # q \o e /\ ~Begins(q \o f, q \o e)
    BY <1>0, <1>3, <2>0, <2>3
  <2>4. QED
    BY <2>1, <2>2, <2>3
<1>4. QED
  BY <1>e, <1>1, <1>2, <1>3 DEF SameBelow, StaysCopied

LEMMA PairsAre ==
  ASSUME NEW S, NEW a \in Seq(S), NEW b \in Seq(S)
  PROVE  /\ Pairs(a \o b) = Pairs(a) \cup Pairs(b)
         /\ a # <<>> => Pairs(a) = {a[1]} \cup Pairs(Tail(a)) /\ a[1] \in Pairs(a)
<1>1. Len(a) \in Nat /\ Len(b) \in Nat
  OBVIOUS
<1>2. Len(a \o b) = Len(a) + Len(b) /\ \A i \in 1..Len(a) + Len(b) : (a \o b)[i] = IF i <= Len(a) THEN a[i] ELSE b[i - Len(a)]
  BY ConcatProperties
<1>3. Pairs(a \o b) \subseteq Pairs(a) \cup Pairs(b)
  <2> SUFFICES ASSUME NEW i \in 1..Len(a) + Len(b) PROVE (a \o b)[i] \in Pairs(a) \cup Pairs(b)
    BY <1>2 DEF Pairs
  <2>1. CASE i <= Len(a)
    BY <1>1, <1>2, <2>1 DEF Pairs
  <2>2. CASE ~(i <= Len(a))
    <3>1. i - Len(a) \in 1..Len(b)
      BY <1>1, <2>2
    <3>2. QED
      BY <1>2, <2>2, <3>1 DEF Pairs
  <2>3. QED
    BY <2>1, <2>2
<1>4. \A i \in 1..Len(a) : a[i] \in Pairs(a \o b)
  <2> SUFFICES ASSUME NEW i \in 1..Len(a) PROVE a[i] \in Pairs(a \o b)
    OBVIOUS
  <2>1. i \in 1..Len(a) + Len(b) /\ (a \o b)[i] = a[i]
    BY <1>1, <1>2
  <2>2. QED
    BY <1>2, <2>1 DEF Pairs
<1>5. \A i \in 1..Len(b) : b[i] \in Pairs(a \o b)
  <2> SUFFICES ASSUME NEW i \in 1..Len(b) PROVE b[i] \in Pairs(a \o b)
    OBVIOUS
  <2>1. Len(a) + i \in 1..Len(a) + Len(b) /\ ~(Len(a) + i <= Len(a)) /\ Len(a) + i - Len(a) = i
    BY <1>1
  <2>2. (a \o b)[Len(a) + i] = b[i]
    BY <1>2, <2>1
  <2>3. QED
    BY <1>2, <2>1, <2>2 DEF Pairs
<1>6. Pairs(a) \subseteq Pairs(a \o b) /\ Pairs(b) \subseteq Pairs(a \o b)
  BY <1>4, <1>5 DEF Pairs
<1>7. ASSUME a # <<>> PROVE Pairs(a) = {a[1]} \cup Pairs(Tail(a)) /\ a[1] \in Pairs(a)
  <2>1. Len(a) > 0 /\ Len(Tail(a)) = Len(a) - 1 /\ \A i \in 1..Len(a) - 1 : Tail(a)[i] = a[i + 1]
    BY <1>7
  <2>2. \A n \in 1..Len(a) : n = 1 \/ (n - 1 \in 1..Len(a) - 1 /\ a[n] = Tail(a)[n - 1])
    BY <1>1, <2>1
  <2>3. \A i \in 1..Len(a) - 1 : i + 1 \in 1..Len(a)
    BY <1>1
  <2>4. 1 \in 1..Len(a)
    BY <1>1, <2>1
  <2>5. QED
    BY <2>1, <2>2, <2>3, <2>4 DEF Pairs
<1>8. QED
  BY <1>3, <1>6, <1>7, Zenon

\* A copy beside which nothing runs: the source stays, and each thing of it is copied or will be.
CopyGoesOn(call) == call.q \notin Below(call.p) /\ call.p \notin Below(call.q) =>
  /\ IsTree(call.was)
  /\ \A e \in Strings : NodeAt(tree, call.p \o e) = NodeAt(call.was, call.p \o e)
  /\ \A xy \in Pairs(call.todo) : \E e \in Strings : xy = <<call.p \o e, call.q \o e>>
  /\ \A e \in Strings : NodeAt(call.was, call.p \o e) # NoNode =>
       \/ NodeAt(tree, call.q \o e) = NodeAt(call.was, call.p \o e)
       \/ \E xy \in Pairs(call.todo) : Begins(xy[1], call.p \o e)

\* How far a call has got beside which nothing runs.
Doing(call) ==
  /\ call.at \in {"src", "dst", "chdir", "chdir2", "write", "put", "move", "delete", "create"} => call.was = tree
  /\ call.at \in {"dst", "write", "put", "copy", "move", "delete", "create"} => call.p = ResolvePath(call.req.src)
  /\ call.at \in {"copy", "move"} => call.q = ResolvePath(call.req.dst)
  /\ call.at \in {"write", "copy", "move", "delete", "create"} => call.req.tool = call.at
  /\ call.at \in {"chdir", "chdir2"} => call.req.tool = "chdir"
  /\ call.at = "put" => /\ call.req.tool = "write" /\ call.fresh = ~IsThere(call.p)
                        /\ IsThere(call.p) => call.req.overwrite
  /\ call.at = "copy" => CopyGoesOn(call)
  /\ call.at \in {"verify", "ok"} => Did(call)
Solo(c) == c \notin overlapped /\ fileCall[c].at \notin {"idle", "failed"}
SoloInv == \A c \in FileCallers : Solo(c) =>
  /\ Doing(fileCall[c])
  /\ \A d \in FileCallers \ {c} : fileCall[d].at = "idle"

\* A step of a call that nothing runs beside changes no other call.
LEMMA SoloGoes ==
  ASSUME FileTypes, SoloInv, NEW c \in FileCallers, fileCall[c].at \notin {"idle", "failed"}, NEW new,
         fileCall' = [fileCall EXCEPT ![c] = new], overlapped' = overlapped,
         Solo(c) /\ new.at # "failed" => Doing(new)'
  PROVE  SoloInv'
<1>1. fileCall'[c] = new /\ \A d \in FileCallers \ {c} : fileCall'[d] = fileCall[d]
  BY DEF FileTypes
<1>2. ASSUME NEW d \in FileCallers, d # c, Solo(d)' PROVE FALSE
  <2>1. Solo(d)
    BY <1>1, <1>2 DEF Solo
  <2>2. fileCall[c].at = "idle"
    BY <1>2, <2>1 DEF SoloInv
  <2>3. QED
    BY <2>2
<1>3. ASSUME Solo(c)' PROVE Doing(fileCall[c])' /\ \A d \in FileCallers \ {c} : fileCall'[d].at = "idle"
  <2>1. Solo(c) /\ new.at # "failed"
    BY <1>1, <1>3 DEF Solo
  <2>2. \A d \in FileCallers \ {c} : fileCall[d].at = "idle"
    BY <2>1 DEF SoloInv
  <2>3. Doing(new)'
    BY <2>1
  <2>4. Doing(fileCall[c])'
    <3>1. new = fileCall'[c]
      BY <1>1
    <3>2. CopyGoesOn(new)' <=> CopyGoesOn(fileCall[c])'
      BY <3>1 DEF CopyGoesOn
    <3>3. Did(new)' <=> Did(fileCall[c])'
      BY <3>1 DEF Did
    <3>4. QED
      BY <2>3, <3>1, <3>2, <3>3 DEF Doing
  <2>5. QED
    BY <1>1, <2>2, <2>4
<1>4. QED
  BY <1>2, <1>3 DEF SoloInv

\* A call that fails has nothing to show.
LEMMA SoloFails ==
  ASSUME FileTypes, SoloInv, NEW c \in FileCallers, fileCall[c].at \notin {"idle", "failed"},
         fileCall' = [fileCall EXCEPT ![c].at = "failed"], overlapped' = overlapped
  PROVE  SoloInv'
<1>1. PICK new : new = [fileCall[c] EXCEPT !.at = "failed"]
  OBVIOUS
<1>2. fileCall' = [fileCall EXCEPT ![c] = new]
  BY <1>1
<1>3. fileCall[c] \in FileCalls
  BY FileCallTyped
<1>4. new.at = "failed"
  BY <1>1, <1>3 DEF FileCalls
<1>5. QED
  BY <1>2, <1>4, SoloGoes

\* Where a call stands that nothing runs beside.
LEMMA SoloIs ==
  ASSUME FileTypes, SoloInv, NEW c \in FileCallers, Solo(c)
  PROVE  Doing(fileCall[c])
  BY DEF SoloInv

LEMMA SoloInitInv == FilesInit => SoloInv
<1> SUFFICES ASSUME FilesInit, NEW c \in FileCallers PROVE ~Solo(c)
  BY DEF SoloInv
<1>1. QED
  BY DEF FilesInit, Solo, NoFileCall

LEMMA SoloBegin ==
  ASSUME FileInv, SoloInv, NEW c \in FileCallers, NEW req \in FileRequests, FileBegin(c, req)
  PROVE  SoloInv'
<1>1. PICK new : new = [at |-> IF ~FilePreCheck(req) THEN "failed" ELSE IF req.tool = "chdir" THEN "chdir" ELSE "src",
                        req |-> req, p |-> <<>>, q |-> <<>>, fresh |-> FALSE, todo |-> <<>>, was |-> tree]
  OBVIOUS
<1>2. \A d \in FileCallers : fileCall'[d] = IF d = c THEN new ELSE IF Going(d) THEN fileCall[d] ELSE NoFileCall
  BY <1>1 DEF FileBegin
<1>3. UNCHANGED <<tree, workDir>>
  BY DEF FileBegin
<1>4. ASSUME NEW d \in FileCallers, Solo(d)' PROVE d = c /\ \A b \in FileCallers \ {c} : ~Going(b)
  <2>1. CASE \E b \in FileCallers \ {c} : Going(b)
    <3>1. overlapped' = overlapped \cup {c} \cup {b \in FileCallers : Going(b)}
      BY <2>1 DEF FileBegin
    <3>2. d # c /\ ~Going(d)
      BY <1>4, <3>1 DEF Solo
    <3>3. fileCall'[d].at = "idle"
      BY <1>2, <3>2 DEF NoFileCall
    <3>4. QED
      BY <1>4, <3>3 DEF Solo
  <2>2. CASE ~\E b \in FileCallers \ {c} : Going(b)
    <3>1. d = c
      <4>1. ASSUME d # c PROVE fileCall'[d].at = "idle"
        BY <1>2, <2>2, <4>1 DEF NoFileCall
      <4>2. QED
        BY <1>4, <4>1 DEF Solo
    <3>2. QED
      BY <2>2, <3>1
  <2>3. QED
    BY <2>1, <2>2
<1>5. ASSUME Solo(c)' PROVE Doing(fileCall[c])' /\ \A d \in FileCallers \ {c} : fileCall'[d].at = "idle"
  <2>1. new.at \in {"chdir", "src"} /\ new.was = tree /\ new.req = req /\ (new.at = "chdir" => new.req.tool = "chdir")
    BY <1>1, <1>2, <1>5 DEF Solo
  <2>2. fileCall'[c] = new
    BY <1>2
  <2>3. Doing(fileCall[c])'
    BY <1>3, <2>1, <2>2 DEF Doing
  <2>4. \A d \in FileCallers \ {c} : fileCall'[d].at = "idle"
    BY <1>2, <1>4, <1>5 DEF NoFileCall
  <2>5. QED
    BY <2>3, <2>4
<1>6. QED
  BY <1>4, <1>5 DEF SoloInv

LEMMA SoloSource ==
  ASSUME FileInv, SoloInv, NEW c \in FileCallers, ResolveSource(c)
  PROVE  SoloInv'
<1>t. FileTypes
  BY DEF FileInv
<1>1. fileCall[c].at = "src" /\ fileCall[c] \in FileCalls
  BY <1>t, FileCallTyped DEF ResolveSource
<1>2. PICK p : p = ResolvePath(fileCall[c].req.src)
  OBVIOUS
<1>3. PICK at : at = (IF fileCall[c].req.tool \in {"copy", "move"} THEN "dst" ELSE fileCall[c].req.tool)
  OBVIOUS
<1>4. PICK new : new = [fileCall[c] EXCEPT !.p = p, !.q = p, !.todo = <<>>, !.at = at]
  OBVIOUS
<1>5. fileCall' = [fileCall EXCEPT ![c] = new] /\ UNCHANGED <<tree, workDir, overlapped>>
  BY <1>2, <1>3, <1>4 DEF ResolveSource
<1>6. new.at = at /\ new.req = fileCall[c].req /\ new.p = p /\ new.was = fileCall[c].was
  BY <1>1, <1>4 DEF FileCalls
<1>7. at \in {"dst", "write", "delete", "create", "chdir"} /\ (at # "dst" => at = fileCall[c].req.tool)
  BY <1>1, <1>3, FileRequestsAssumption DEF FileCalls
<1>8. ASSUME Solo(c) PROVE Doing(new)'
  <2>1. fileCall[c].was = tree
    BY <1>t, <1>1, <1>8, SoloIs DEF Doing
  <2>2. QED
    BY <1>2, <1>5, <1>6, <1>7, <2>1 DEF Doing, ResolvePath
<1>9. QED
  BY <1>t, <1>1, <1>5, <1>8, SoloGoes

LEMMA SoloDestination ==
  ASSUME FileInv, SoloInv, NEW c \in FileCallers, ResolveDestination(c)
  PROVE  SoloInv'
<1>t. FileTypes
  BY DEF FileInv
<1>1. fileCall[c].at = "dst" /\ fileCall[c] \in FileCalls /\ fileCall[c].req.tool \in {"copy", "move"}
  BY <1>t, FileCallTyped DEF ResolveDestination, FileInv, CallHasPaths
<1>2. PICK p \in Strings : p = fileCall[c].p
  BY <1>1 DEF FileCalls
<1>3. PICK q \in Strings : q = ResolvePath(fileCall[c].req.dst)
  BY <1>t, <1>1, ResolvedPath, FileRequestsAssumption DEF FileCalls
<1>4. PICK todo : todo = <<<<p, q>>>>
  OBVIOUS
<1>5. PICK new : new = [fileCall[c] EXCEPT !.q = q, !.at = fileCall[c].req.tool, !.todo = todo]
  OBVIOUS
<1>6. fileCall' = [fileCall EXCEPT ![c] = new] /\ UNCHANGED <<tree, workDir, overlapped>>
  BY <1>2, <1>3, <1>4, <1>5 DEF ResolveDestination
<1>7. /\ new.at = fileCall[c].req.tool /\ new.req = fileCall[c].req /\ new.p = p /\ new.q = q
      /\ new.was = fileCall[c].was /\ new.todo = todo
  BY <1>1, <1>2, <1>5 DEF FileCalls
<1>8. ASSUME Solo(c) PROVE Doing(new)'
  <2>1. fileCall[c].was = tree /\ p = ResolvePath(fileCall[c].req.src)
    BY <1>t, <1>1, <1>2, <1>8, SoloIs DEF Doing
  <2>2. CopyGoesOn(new)'
    <3>1. IsTree(tree)
      BY DEF FileInv
    <3>2. Pairs(todo) = {<<p, q>>}
      BY <1>4 DEF Pairs
    <3>3. <<>> \in Strings /\ p \o <<>> = p /\ q \o <<>> = q
      BY EmptyRemainder
    <3>4. \A e \in Strings : Begins(p, p \o e)
      BY BeginsConcat
    <3>5. \A xy \in Pairs(todo) : \E e \in Strings : xy = <<p \o e, q \o e>>
      BY <3>2, <3>3
    <3>6. <<p, q>> \in Pairs(todo) /\ <<p, q>>[1] = p
      BY <3>2
    <3>7. \A e \in Strings : \E xy \in Pairs(todo) : Begins(xy[1], p \o e)
      BY <3>4, <3>6
    <3>8. new.p = p /\ new.q = q /\ new.todo = todo /\ new.was = tree
      BY <1>7, <2>1
    <3>9. IsTree(new.was) /\ \A e \in Strings : NodeAt(tree', new.p \o e) = NodeAt(new.was, new.p \o e)
      BY <1>6, <3>1, <3>8
    <3>10. /\ \A xy \in Pairs(new.todo) : \E e \in Strings : xy = <<new.p \o e, new.q \o e>>
           /\ \A e \in Strings : \E xy \in Pairs(new.todo) : Begins(xy[1], new.p \o e)
      BY <3>5, <3>7, <3>8
    <3>11. QED
      BY <3>9, <3>10 DEF CopyGoesOn, IsTree
  <2>3. QED
    BY <1>1, <1>3, <1>6, <1>7, <2>1, <2>2 DEF Doing, ResolvePath
<1>9. QED
  BY <1>t, <1>1, <1>6, <1>8, SoloGoes

LEMMA SoloLook ==
  ASSUME FileInv, SoloInv, NEW c \in FileCallers, WriteLook(c)
  PROVE  SoloInv'
<1>t. FileTypes /\ UNCHANGED <<tree, workDir, overlapped>>
  BY DEF FileInv, WriteLook
<1>1. fileCall[c].at = "write" /\ fileCall[c] \in FileCalls
  BY <1>t, FileCallTyped DEF WriteLook
<1>2. CASE IsThere(fileCall[c].p) /\ ~fileCall[c].req.overwrite
  <2>1. fileCall' = [fileCall EXCEPT ![c].at = "failed"]
    BY <1>2 DEF WriteLook, FileEnds
  <2>2. QED
    BY <1>t, <1>1, <2>1, SoloFails
<1>3. CASE ~(IsThere(fileCall[c].p) /\ ~fileCall[c].req.overwrite)
  <2>1. PICK fresh \in BOOLEAN : fresh = ~IsThere(fileCall[c].p)
    OBVIOUS
  <2>2. PICK new : new = [fileCall[c] EXCEPT !.at = "put", !.fresh = fresh]
    OBVIOUS
  <2>3. fileCall' = [fileCall EXCEPT ![c] = new]
    BY <1>3, <2>1, <2>2 DEF WriteLook
  <2>4. /\ new.at = "put" /\ new.fresh = fresh /\ new.req = fileCall[c].req /\ new.p = fileCall[c].p
        /\ new.was = fileCall[c].was
    BY <1>1, <2>2 DEF FileCalls
  <2>5. ASSUME Solo(c) PROVE Doing(new)'
    <3>1. fileCall[c].was = tree /\ fileCall[c].p = ResolvePath(fileCall[c].req.src) /\ fileCall[c].req.tool = "write"
      BY <1>t, <1>1, <2>5, SoloIs DEF Doing
    <3>2. new.p = ResolvePath(new.req.src)'
      BY <1>t, <2>4, <3>1 DEF ResolvePath
    <3>3. IsThere(new.p)' <=> IsThere(fileCall[c].p)
      BY <1>t, <2>4 DEF IsThere
    <3>4. QED
      BY <1>t, <1>3, <2>1, <2>4, <3>1, <3>2, <3>3 DEF Doing
  <2>6. QED
    BY <1>t, <1>1, <2>3, <2>5, SoloGoes
<1>4. QED
  BY <1>2, <1>3

LEMMA SoloWrite ==
  ASSUME FileInv, SoloInv, NEW c \in FileCallers, WriteFile(c)
  PROVE  SoloInv'
<1>t. FileTypes /\ UNCHANGED <<workDir, overlapped>>
  BY DEF FileInv, WriteFile
<1>1. fileCall[c].at = "put" /\ fileCall[c] \in FileCalls
  BY <1>t, FileCallTyped DEF WriteFile
<1>2. PICK p \in Strings : p = fileCall[c].p
  BY <1>1 DEF FileCalls
<1>3. CASE CanMkdirAll(Parent(p)) /\ Len(p) <= MaxDepth /\ ~IsDir(p)
  <2>1. p \in Paths
    BY <1>3, AtPath DEF IsDir
  <2>2. PICK node : node = Written(p, fileCall[c].req.rows, fileCall[c].fresh)
    OBVIOUS
  <2>3. PICK new : new = [fileCall[c] EXCEPT !.at = "verify"]
    OBVIOUS
  <2>4. tree' = [MkdirAll(tree, Parent(p)) EXCEPT ![p] = node] /\ fileCall' = [fileCall EXCEPT ![c] = new]
    BY <1>2, <1>3, <2>2, <2>3 DEF WriteFile, FileGoes
  <2>5. new.at = "verify" /\ new.req = fileCall[c].req /\ new.was = fileCall[c].was
    BY <1>1, <2>3 DEF FileCalls
  <2>6. ASSUME Solo(c) PROVE Doing(new)'
    <3>1. /\ fileCall[c].was = tree /\ p = ResolvePath(fileCall[c].req.src) /\ fileCall[c].req.tool = "write"
          /\ fileCall[c].fresh = ~IsThere(p) /\ (IsThere(p) => fileCall[c].req.overwrite)
      BY <1>t, <1>1, <1>2, <2>6, SoloIs DEF Doing
    <3>2. NodeAt(tree', p) = node
      <4>1. tree \in Trees
        BY <1>t DEF FileTypes
      <4>2. PutIn(tree', tree, p, node)
        BY <2>4 DEF PutIn
      <4>3. ShowsPut(tree', tree, p, node)
        BY <2>1, <4>1, <4>2, PutAt
      <4>4. QED
        BY <2>1, <4>3, PathsAre DEF ShowsPut
    <3>3. IsThere(p) <=> NodeAt(tree, p) # NoNode
      BY AtIs
    <3>4. ASSUME NodeAt(tree, p) = NoNode PROVE node = TextFile(fileCall[c].req.rows)
      <4>1. ~IsThere(p) /\ ~IsFile(p) /\ fileCall[c].fresh = TRUE
        BY <3>1, <3>3, <3>4 DEF IsFile
      <4>2. fileCall[c].req.rows \in Seq(FileRows)
        BY <1>1, FileRequestsAssumption DEF FileCalls
      <4>3. PICK rows \in Seq(FileRows) : rows = fileCall[c].req.rows
        BY <4>2
      <4>4. TextFile(<<>>).rows = <<>>
        BY DEF TextFile
      <4>5. rows \o SubSeq(<<>>, Len(rows) + 1, Len(<<>>)) = rows
        <5>1. Len(rows) + 1 \in Int /\ Len(<<>>) \in Int /\ Len(<<>>) < Len(rows) + 1
          OBVIOUS
        <5>2. SubSeq(<<>>, Len(rows) + 1, Len(<<>>)) = <<>>
          BY <5>1, SubSeqEmpty
        <5>3. QED
          BY <5>2, ConcatEmptySeq
      <4>6. QED
        BY <2>2, <4>1, <4>3, <4>4, <4>5 DEF Written
    <3>5. p = (IF new.req.src.abs THEN new.req.src.path ELSE workDir' \o new.req.src.path)
      BY <1>t, <2>5, <3>1 DEF ResolvePath
    <3>6. Did(new)'
      BY <2>5, <3>1, <3>2, <3>3, <3>4, <3>5 DEF Did
    <3>7. QED
      BY <2>5, <3>6 DEF Doing
  <2>7. QED
    BY <1>t, <1>1, <2>4, <2>6, SoloGoes
<1>4. CASE ~(CanMkdirAll(Parent(p)) /\ Len(p) <= MaxDepth /\ ~IsDir(p))
  <2>1. fileCall' = [fileCall EXCEPT ![c].at = "failed"]
    BY <1>2, <1>4 DEF WriteFile, FileEnds
  <2>2. QED
    BY <1>t, <1>1, <2>1, SoloFails
<1>5. QED
  BY <1>3, <1>4

\* What a copy brings from below p to below q is what it was asked to bring.
LEMMA OntoIs ==
  ASSUME NEW p \in Strings, NEW q \in Strings, NEW xy \in Onto(p, q)
  PROVE  \E e \in Strings : xy = <<p \o e, q \o e>>
<1>1. PICK x \in {p} \cup Below(p) : xy = <<x, q \o SubSeq(x, Len(p) + 1, Len(x))>>
  BY DEF Onto
<1>2. x \in Strings /\ Begins(p, x)
  <2>1. CASE x = p
    BY <2>1, EmptyRemainder
  <2>2. CASE x \in Below(p)
    <3>1. x \in Paths
      BY <2>2 DEF Below
    <3>2. QED
      BY <2>2, <3>1, BelowIs, PathsAre
  <2>3. QED
    BY <1>1, <2>1, <2>2
<1>3. SubSeq(x, Len(p) + 1, Len(x)) \in Strings /\ x = p \o SubSeq(x, Len(p) + 1, Len(x))
  BY <1>2, Remainder
<1>4. QED
  BY <1>1, <1>3

LEMMA SoloCopy ==
  ASSUME FileInv, SoloInv, NEW c \in FileCallers, CopyOne(c)
  PROVE  SoloInv'
<1>t. FileTypes /\ UNCHANGED <<workDir, overlapped>>
  BY DEF FileInv, CopyOne
<1>1. fileCall[c].at = "copy" /\ fileCall[c] \in FileCalls
  BY <1>t, FileCallTyped DEF CopyOne
<1>2. fileCall[c].todo \in Seq(Strings \X Strings) /\ fileCall[c].todo # <<>>
  BY <1>1 DEF FileCalls, FileInv, CallHasPaths
<1>3. PICK s \in Strings, d \in Strings, rest \in Seq(Strings \X Strings) :
        s = fileCall[c].todo[1][1] /\ d = fileCall[c].todo[1][2] /\ rest = Tail(fileCall[c].todo)
  <2>1. fileCall[c].todo[1] \in Strings \X Strings /\ Tail(fileCall[c].todo) \in Seq(Strings \X Strings)
    BY <1>2
  <2>2. QED
    BY <2>1
<1>a. fileCall[c].todo[1] = <<s, d>>
  <2>1. fileCall[c].todo[1] \in Strings \X Strings
    BY <1>2
  <2>2. QED
    BY <1>3, <2>1
<1>n. tree \in Trees /\ IsTree(tree)
  BY DEF FileInv, FileTypes
<1>p. PICK p \in Strings, q \in Strings, w \in Trees : p = fileCall[c].p /\ q = fileCall[c].q /\ w = fileCall[c].was
  BY <1>1 DEF FileCalls
<1>d. \/ /\ IsDir(s) /\ CanMkdirAll(d) /\ tree' = MkdirAll(tree, d)
         /\ \E order \in Entries(MkdirAll(tree, d), s, d) : CopyGoes(c, order \o rest)
      \/ /\ IsFile(s) /\ Len(d) <= MaxDepth /\ CanMkdirAll(Parent(d)) /\ ~IsDir(d)
         /\ tree' = [MkdirAll(tree, Parent(d)) EXCEPT ![d] = tree[s]]
         /\ CopyGoes(c, rest)
      \/ fileCall' = [fileCall EXCEPT ![c].at = "failed"] /\ tree' = tree
  BY <1>3 DEF CopyOne, FileEnds, CopyGoes
<1> DEFINE Beside == q \notin Below(p) /\ p \notin Below(q)
           Copied(t, todo) ==
             /\ \A e \in Strings : NodeAt(t, p \o e) = NodeAt(w, p \o e)
             /\ \A xy \in Pairs(todo) : \E e \in Strings : xy = <<p \o e, q \o e>>
             /\ \A e \in Strings : NodeAt(w, p \o e) # NoNode =>
                  NodeAt(t, q \o e) = NodeAt(w, p \o e) \/ \E xy \in Pairs(todo) : Begins(xy[1], p \o e)
\* The call as it was.
<1>s. ASSUME Solo(c)
      PROVE  /\ p = ResolvePath(fileCall[c].req.src) /\ q = ResolvePath(fileCall[c].req.dst) /\ fileCall[c].req.tool = "copy"
             /\ Beside => IsTree(w) /\ Copied(tree, fileCall[c].todo)
  <2>1. Doing(fileCall[c])
    BY <1>t, <1>s, SoloIs
  <2>2. CopyGoesOn(fileCall[c])
    BY <1>1, <2>1 DEF Doing
  <2>3. Beside => IsTree(w) /\ Copied(tree, fileCall[c].todo)
    BY <1>p, <2>2 DEF CopyGoesOn
  <2>4. QED
    BY <1>1, <1>p, <2>1, <2>3 DEF Doing
\* The call as it goes on.
<1>4. ASSUME NEW todo \in Seq(Strings \X Strings), CopyGoes(c, todo), Solo(c) /\ Beside => Copied(tree', todo) PROVE SoloInv'
  <2>1. PICK at : at = IF todo = <<>> THEN "verify" ELSE "copy"
    OBVIOUS
  <2>2. PICK new : new = [fileCall[c] EXCEPT !.todo = todo, !.at = at]
    OBVIOUS
  <2>3. fileCall' = [fileCall EXCEPT ![c] = new]
    BY <1>4, <2>1, <2>2 DEF CopyGoes
  <2>4. /\ new.at = at /\ new.todo = todo /\ new.req = fileCall[c].req /\ new.was = w /\ new.p = p /\ new.q = q
    BY <1>1, <1>p, <2>2 DEF FileCalls
  <2>5. ASSUME Solo(c) PROVE Doing(new)'
    <3>1. /\ p = ResolvePath(new.req.src)' /\ q = ResolvePath(new.req.dst)' /\ new.req.tool = "copy"
      BY <1>t, <1>s, <2>4, <2>5 DEF ResolvePath
    <3>2. CASE todo # <<>>
      <4>1. Beside => IsTree(w) /\ Copied(tree', todo)
        BY <1>4, <1>s, <2>5
      <4>2. CopyGoesOn(new)'
        BY <2>4, <4>1 DEF CopyGoesOn, IsTree
      <4>3. new.at = "copy"
        BY <2>1, <2>4, <3>2
      <4>4. QED
        BY <2>4, <3>1, <4>2, <4>3 DEF Doing
    <3>3. CASE todo = <<>>
      <4>1. Pairs(todo) = {}
        <5>1. Len(todo) = 0
          BY <3>3
        <5>2. QED
          BY <5>1 DEF Pairs
      <4>2. ASSUME Beside, NEW xy \in Onto(p, q), NodeAt(w, xy[1]) # NoNode PROVE NodeAt(tree', xy[2]) = NodeAt(w, xy[1])
        <5>1. PICK e \in Strings : xy = <<p \o e, q \o e>>
          BY OntoIs
        <5>2. xy[1] = p \o e /\ xy[2] = q \o e
          BY <5>1
        <5>3. NodeAt(w, p \o e) # NoNode => NodeAt(tree', q \o e) = NodeAt(w, p \o e)
          BY <1>4, <2>5, <4>1, <4>2
        <5>4. QED
          BY <4>2, <5>2, <5>3
      <4>3. /\ p = (IF new.req.src.abs THEN new.req.src.path ELSE workDir' \o new.req.src.path)
            /\ q = (IF new.req.dst.abs THEN new.req.dst.path ELSE workDir' \o new.req.dst.path)
        BY <3>1 DEF ResolvePath
      <4>4. Did(new)'
        BY <2>4, <3>1, <4>2, <4>3 DEF Did
      <4>5. new.at = "verify"
        BY <2>1, <2>4, <3>3
      <4>6. QED
        BY <4>4, <4>5 DEF Doing
    <3>4. QED
      BY <3>2, <3>3
  <2>6. QED
    BY <1>t, <1>1, <2>3, <2>5, SoloGoes
\* One thing copied, which is the first of what is to copy.
<1>5. ASSUME NEW todo \in Seq(Strings \X Strings), Solo(c), Beside, NodeAt(tree, s) # NoNode, Len(d) <= MaxDepth,
             OnlyDirsBefore(tree, d), ShowsPut(tree', tree, d, NodeAt(tree, s)),
             Pairs(rest) \subseteq Pairs(todo),
             \A xy \in Pairs(todo) \ Pairs(rest) : \E n \in FileNames : xy = <<Append(s, n), Append(d, n)>>,
             \A x \in Strings : Begins(s, x) /\ x # s /\ NodeAt(w, x) # NoNode => \E xy \in Pairs(todo) : Begins(xy[1], x)
      PROVE  Copied(tree', todo)
  <2>1. Copied(tree, fileCall[c].todo)
    BY <1>s, <1>5
  <2>2. Pairs(fileCall[c].todo) = {<<s, d>>} \cup Pairs(rest)
    BY <1>2, <1>3, <1>a, PairsAre
  <2>3. PICK e \in Strings : s = p \o e /\ d = q \o e
    <3>1. PICK e \in Strings : <<s, d>> = <<p \o e, q \o e>>
      BY <2>1, <2>2
    <3>2. QED
      BY <3>1
  <2>4. PICK u, t : u = tree' /\ t = tree
    OBVIOUS
  <2>5. /\ \A f \in Strings : NodeAt(u, p \o f) = NodeAt(w, p \o f)
        /\ \A f \in Strings : NodeAt(w, p \o f) # NoNode /\ NodeAt(tree, q \o f) = NodeAt(w, p \o f) => NodeAt(u, q \o f) = NodeAt(w, p \o f)
        /\ NodeAt(u, q \o e) = NodeAt(w, p \o e)
    <3>1. t \in Trees /\ ShowsPut(u, t, d, NodeAt(t, s))
      BY <1>n, <1>5, <2>4
    <3>2. SameBelow(t, w, p)
      BY <2>1, <2>4 DEF SameBelow
    <3>3. ToCopy(t, w, p, q, s, d)
      BY <1>n, <1>5, <2>3, <2>4, <3>2 DEF ToCopy
    <3>4. SameBelow(u, w, p) /\ StaysCopied(u, t, w, p, q) /\ NodeAt(u, d) = NodeAt(w, s)
      <4>1. SameBelow(u, w, p)
        BY <3>1, <3>3, CopyStep
      <4>2. StaysCopied(u, t, w, p, q)
        BY <3>1, <3>3, CopyStep
      <4>3. NodeAt(u, d) = NodeAt(t, s)
        BY <3>1 DEF ShowsPut
      <4>4. NodeAt(t, s) = NodeAt(w, s)
        BY <2>3, <3>2 DEF SameBelow
      <4>5. QED
        BY <4>1, <4>2, <4>3, <4>4
    <3>5. QED
      BY <2>3, <2>4, <3>4 DEF SameBelow, StaysCopied
  <2>6. \A xy \in Pairs(todo) : \E f \in Strings : xy = <<p \o f, q \o f>>
    <3>1. ASSUME NEW xy \in Pairs(rest) PROVE \E f \in Strings : xy = <<p \o f, q \o f>>
      BY <2>1, <2>2
    <3>2. ASSUME NEW xy \in Pairs(todo) \ Pairs(rest) PROVE \E f \in Strings : xy = <<p \o f, q \o f>>
      <4>1. PICK n \in FileNames : xy = <<Append(s, n), Append(d, n)>>
        BY <1>5
      <4>2. Append(e, n) \in Strings /\ Append(s, n) = p \o Append(e, n) /\ Append(d, n) = q \o Append(e, n)
        BY <2>3, AppendRemainder
      <4>3. QED
        BY <4>1, <4>2
    <3>3. QED
      BY <3>1, <3>2
  <2>7. ASSUME NEW f \in Strings, NodeAt(w, p \o f) # NoNode
        PROVE  NodeAt(u, q \o f) = NodeAt(w, p \o f) \/ \E xy \in Pairs(todo) : Begins(xy[1], p \o f)
    <3>1. CASE NodeAt(tree, q \o f) = NodeAt(w, p \o f)
      BY <2>5, <2>7, <3>1
    <3>2. CASE \E xy \in Pairs(rest) : Begins(xy[1], p \o f)
      BY <1>5, <3>2
    <3>3. CASE Begins(s, p \o f)
      <4>1. CASE p \o f = s
        <5>1. f = e
          BY <2>3, <4>1, SameRemainder
        <5>2. QED
          BY <2>5, <5>1
      <4>2. CASE p \o f # s
        <5>1. p \o f \in Strings
          BY ConcatIs
        <5>2. QED
          BY <1>5, <2>7, <3>3, <4>2, <5>1
      <4>3. QED
        BY <4>1, <4>2
    <3>4. \/ NodeAt(tree, q \o f) = NodeAt(w, p \o f) \/ Begins(s, p \o f)
          \/ \E xy \in Pairs(rest) : Begins(xy[1], p \o f)
      <4>1. \/ NodeAt(tree, q \o f) = NodeAt(w, p \o f)
            \/ \E xy \in Pairs(fileCall[c].todo) : Begins(xy[1], p \o f)
        BY <2>1, <2>7
      <4>2. <<s, d>>[1] = s
        OBVIOUS
      <4>3. QED
        BY <2>2, <4>1, <4>2
    <3>5. QED
      BY <3>1, <3>2, <3>3, <3>4
  <2>8. QED
    BY <2>4, <2>5, <2>6, <2>7
<1>6. CASE /\ IsDir(s) /\ CanMkdirAll(d) /\ tree' = MkdirAll(tree, d)
           /\ \E order \in Entries(MkdirAll(tree, d), s, d) : CopyGoes(c, order \o rest)
  <2>1. tree' = MkdirAll(tree, d)
    BY <1>6
  <2>2. PICK order \in Entries(tree', s, d) : CopyGoes(c, order \o rest)
    BY <1>6
  <2>3. order \in Seq(Strings \X Strings) /\ order \o rest \in Seq(Strings \X Strings)
    BY <2>2, EntriesAre, ConcatProperties
  <2>4. ASSUME Solo(c), Beside PROVE Copied(tree', order \o rest)
    <3>1. NodeAt(tree, s) = Dir /\ Len(d) <= MaxDepth /\ NotFiles(d)
      BY <1>6, AtIs DEF CanMkdirAll
    <3>2. OnlyDirsBefore(tree, d)
      BY <1>t, <3>1, OnTheWay DEF OnlyDirsBefore
    <3>3. \A y \in Strings : NodeAt(tree', y) = IF Begins(y, d) THEN Dir ELSE NodeAt(tree, y)
      BY <1>n, <2>1, <3>1, MadeAt
    <3>4. ShowsPut(tree', tree, d, NodeAt(tree, s))
      BY <3>1, <3>3, EmptyRemainder DEF ShowsPut
    <3>5. Pairs(order \o rest) = Pairs(order) \cup Pairs(rest)
      BY <2>3, PairsAre
    <3>6. Pairs(order) = {<<Append(s, n), Append(d, n)>> :
                            n \in {n \in FileNames : Append(s, n) \in Paths /\ tree'[Append(s, n)] # NoNode}}
      <4>1. PICK u : u = tree'
        OBVIOUS
      <4>2. order \in Entries(u, s, d)
        BY <2>2, <4>1
      <4>3. Pairs(order) = Inside(u, s, d)
        BY <4>2, EntriesAre
      <4>4. QED
        BY <4>1, <4>3 DEF Inside
    <3>7. \A xy \in Pairs(order \o rest) \ Pairs(rest) : \E n \in FileNames : xy = <<Append(s, n), Append(d, n)>>
      BY <3>5, <3>6
    <3>8. ASSUME NEW x \in Strings, Begins(s, x), x # s, NodeAt(w, x) # NoNode
          PROVE  \E xy \in Pairs(order \o rest) : Begins(xy[1], x)
      <4>1. PICK n \in FileNames : Append(s, n) \in Strings /\ Begins(Append(s, n), x) /\ Len(Append(s, n)) = Len(s) + 1
        BY <3>8, NextName
      <4>2. IsTree(w) /\ Copied(tree, fileCall[c].todo)
        BY <1>s, <2>4
      <4>3. PICK f \in Strings : Append(s, n) = p \o f
        <5>1. <<s, d>> \in Pairs(fileCall[c].todo)
          BY <1>2, <1>3, <1>a, PairsAre
        <5>2. PICK e \in Strings : <<s, d>> = <<p \o e, q \o e>>
          BY <4>2, <5>1
        <5>3. s = p \o e
          BY <5>2
        <5>4. Append(e, n) \in Strings /\ Append(p \o e, n) = p \o Append(e, n)
          BY AppendRemainder
        <5>5. QED
          BY <5>3, <5>4, Zenon
      <4>4. NodeAt(w, Append(s, n)) # NoNode
        <5>1. CASE Append(s, n) = x
          BY <3>8, <5>1
        <5>2. CASE Append(s, n) # x
          <6>1. NodeAt(w, Append(s, n)) = Dir
            BY <3>8, <4>1, <4>2, <5>2, Ancestors
          <6>2. QED
            BY <6>1 DEF Dir, NoNode
        <5>3. QED
          BY <5>1, <5>2
      <4>5. NodeAt(tree, Append(s, n)) # NoNode
        BY <4>2, <4>3, <4>4
      <4>6. NodeAt(tree', Append(s, n)) # NoNode
        BY <3>3, <4>1, <4>5 DEF Dir, NoNode
      <4>7. Append(s, n) \in Paths /\ tree'[Append(s, n)] # NoNode
        <5>1. Append(s, n) # <<>>
          OBVIOUS
        <5>2. QED
          BY <4>1, <4>6, <5>1, AtPath
      <4>8. <<Append(s, n), Append(d, n)>> \in Pairs(order \o rest) /\ <<Append(s, n), Append(d, n)>>[1] = Append(s, n)
        BY <3>5, <3>6, <4>7
      <4>9. QED
        BY <4>1, <4>8
    <3>9. NodeAt(tree, s) # NoNode /\ Pairs(rest) \subseteq Pairs(order \o rest)
      BY <3>1, <3>5 DEF Dir, NoNode
    <3>10. QED
      BY <1>5, <2>3, <2>4, <3>1, <3>2, <3>4, <3>7, <3>8, <3>9
  <2>5. QED
    BY <1>4, <2>2, <2>3, <2>4
<1>7. CASE /\ IsFile(s) /\ Len(d) <= MaxDepth /\ CanMkdirAll(Parent(d)) /\ ~IsDir(d)
           /\ tree' = [MkdirAll(tree, Parent(d)) EXCEPT ![d] = tree[s]] /\ CopyGoes(c, rest)
  <2>1. PICK node : tree' = [MkdirAll(tree, Parent(d)) EXCEPT ![d] = node] /\ node = tree[s]
    BY <1>7
  <2>2. ASSUME Solo(c), Beside PROVE Copied(tree', rest)
    <3>1. d \in Paths /\ s \in Paths /\ NodeAt(tree, s) = tree[s] /\ NodeAt(tree, s) # NoNode /\ NodeAt(tree, s) # Dir
      <4>1. NodeAt(tree, s) # NoNode /\ NodeAt(tree, s) # Dir
        BY <1>7, AtIs DEF IsFile
      <4>2. d # <<>>
        BY <1>7 DEF IsDir
      <4>3. QED
        BY <1>7, <4>1, <4>2, AtPath
    <3>2. ShowsPut(tree', tree, d, NodeAt(tree, s))
      <4>1. tree \in Trees /\ d \in Paths /\ NodeAt(tree, s) = node
        BY <1>n, <2>1, <3>1
      <4>2. PutIn(tree', tree, d, node)
        BY <2>1 DEF PutIn
      <4>3. ShowsPut(tree', tree, d, node)
        BY <4>1, <4>2, PutAt
      <4>4. QED
        BY <4>1, <4>3
    <3>3. ASSUME NEW y \in Strings, Begins(y, d), y # d, NodeAt(tree, y) # NoNode PROVE NodeAt(tree, y) = Dir
      <4>1. /\ Parent(d) \in Strings /\ Len(Parent(d)) = Len(d) - 1 /\ Len(d) \in Nat
            /\ \A i \in 1..Len(d) - 1 : Parent(d)[i] = d[i]
        BY <3>1, ParentPath
      <4>2. Len(y) < Len(d) /\ Len(y) \in Nat
        BY <3>3, BeginsSame DEF Strings
      <4>3. Begins(y, Parent(d))
        BY <3>3, <4>1, <4>2 DEF Begins
      <4>4. NotFiles(Parent(d))
        BY <1>7 DEF CanMkdirAll
      <4>5. QED
        BY <1>t, <3>3, <4>1, <4>3, <4>4, OnTheWay
    <3>o. OnlyDirsBefore(tree, d)
      BY <3>3 DEF OnlyDirsBefore
    <3>4. ASSUME NEW x \in Strings, Begins(s, x), x # s, NodeAt(w, x) # NoNode PROVE FALSE
      <4>1. IsTree(w) /\ Copied(tree, fileCall[c].todo)
        BY <1>s, <2>2
      <4>2. NodeAt(w, s) = Dir
        BY <3>4, <4>1, Ancestors
      <4>3. PICK e \in Strings : <<s, d>> = <<p \o e, q \o e>>
        <5>1. <<s, d>> \in Pairs(fileCall[c].todo)
          BY <1>2, <1>3, <1>a, PairsAre
        <5>2. QED
          BY <4>1, <5>1
      <4>4. s = p \o e
        BY <4>3
      <4>5. QED
        BY <3>1, <4>1, <4>2, <4>4
    <3>5. QED
      BY <1>5, <1>7, <2>2, <3>1, <3>2, <3>o, <3>4
  <2>3. QED
    BY <1>4, <1>7, <2>2
<1>8. CASE fileCall' = [fileCall EXCEPT ![c].at = "failed"]
  BY <1>t, <1>1, <1>8, SoloFails
<1>9. QED
  BY <1>d, <1>6, <1>7, <1>8

\* A rename brings what is below p to below q, and leaves nothing at p.
LEMMA RenamedAt ==
  ASSUME NEW t \in Trees, NEW p \in Paths, NEW q \in Strings, p # q, p \notin Below(q)
  PROVE  /\ NodeAt(Renamed(t, p, q), p) = NoNode
         /\ \A e \in Strings : q \o e \in Paths /\ p \o e \in Paths => NodeAt(Renamed(t, p, q), q \o e) = t[p \o e]
<1>1. p \in Strings
  BY PathsAre
<1>2. PICK new : new = Renamed(t, p, q)
  OBVIOUS
<1>3. new[p] = NoNode
  BY <1>2 DEF Renamed
<1>4. ASSUME NEW e \in Strings, q \o e \in Paths, p \o e \in Paths PROVE new[q \o e] = t[p \o e]
  <2>1. PICK x \in Paths : x = q \o e /\ x \in Strings
    BY <1>4, ConcatIs
  <2>2. Begins(q, x)
    BY <2>1, BeginsConcat
  <2>3. x = q \/ x \in Below(q)
    <3>1. CASE x # q
      <4>1. Len(x) > Len(q)
        <5>1. Len(q) \in Nat /\ Len(x) \in Nat
          BY <2>1 DEF Strings
        <5>2. QED
          BY <2>1, <2>2, <3>1, <5>1, BeginsSame
      <4>2. QED
        BY <2>1, <2>2, <4>1, BelowIs
    <3>2. QED
      BY <3>1
  <2>4. SubSeq(x, Len(q) + 1, Len(x)) = e
    <3>1. PICK r \in Strings : r = SubSeq(x, Len(q) + 1, Len(x)) /\ x = q \o r
      BY <2>1, <2>2, Remainder
    <3>2. QED
      BY <2>1, <3>1, SameRemainder
  <2>5. new[x] = IF p \o SubSeq(x, Len(q) + 1, Len(x)) \in Paths THEN t[p \o SubSeq(x, Len(q) + 1, Len(x))] ELSE NoNode
    BY <1>2, <2>1, <2>3 DEF Renamed
  <2>6. QED
    BY <1>4, <2>1, <2>4, <2>5
<1>5. NodeAt(new, p) = NoNode
  BY <1>1, <1>3, AtPath
<1>6. ASSUME NEW e \in Strings, q \o e \in Paths, p \o e \in Paths PROVE NodeAt(new, q \o e) = t[p \o e]
  BY <1>4, <1>6, ConcatIs, AtPath
<1>7. QED
  BY <1>2, <1>5, <1>6

LEMMA SoloMove ==
  ASSUME FileInv, SoloInv, NEW c \in FileCallers, MoveFile(c)
  PROVE  SoloInv'
<1>t. FileTypes /\ UNCHANGED <<workDir, overlapped>>
  BY DEF FileInv, MoveFile
<1>1. fileCall[c].at = "move" /\ fileCall[c] \in FileCalls
  BY <1>t, FileCallTyped DEF MoveFile
<1>2. PICK p \in Strings, q \in Strings : p = fileCall[c].p /\ q = fileCall[c].q
  BY <1>1 DEF FileCalls
<1>n. tree \in Trees /\ IsTree(tree) /\ Parent(q) \in Strings
  BY ParentIs DEF FileInv, FileTypes
<1>3. PICK made \in Trees : made = MkdirAll(tree, Parent(q))
  BY <1>n, MadeIs
<1>4. PICK new : new = [fileCall[c] EXCEPT !.at = "verify"]
  OBVIOUS
<1>5. \/ fileCall' = [fileCall EXCEPT ![c].at = "failed"]
      \/ /\ CanMkdirAll(Parent(q)) /\ p # <<>> /\ IsThere(p)
         /\ \A x \in {p} \cup Below(p) : IsThere(x) => Len(x) - Len(p) + Len(q) <= MaxDepth
         /\ IF IsDir(p) THEN ~IsThere(q) /\ q \notin Below(p) ELSE ~IsDir(q)
         /\ tree' = Renamed(made, p, q) /\ fileCall' = [fileCall EXCEPT ![c] = new]
  BY <1>2, <1>3, <1>4 DEF MoveFile, FileEnds, FileGoes, Renamed
<1>6. CASE fileCall' = [fileCall EXCEPT ![c].at = "failed"]
  BY <1>t, <1>1, <1>6, SoloFails
<1>7. CASE /\ CanMkdirAll(Parent(q)) /\ p # <<>> /\ IsThere(p)
           /\ \A x \in {p} \cup Below(p) : IsThere(x) => Len(x) - Len(p) + Len(q) <= MaxDepth
           /\ IF IsDir(p) THEN ~IsThere(q) /\ q \notin Below(p) ELSE ~IsDir(q)
           /\ tree' = Renamed(made, p, q) /\ fileCall' = [fileCall EXCEPT ![c] = new]
  <2>1. new.at = "verify" /\ new.req = fileCall[c].req /\ new.was = fileCall[c].was
    BY <1>1, <1>4 DEF FileCalls
  <2>2. p \in Paths /\ NodeAt(tree, p) # NoNode
    BY <1>7, AtIs, AtPath DEF IsThere
  <2>3. q # <<>>
    BY <1>7 DEF IsThere, IsDir
  <2>4. p # q => p \notin Below(q)
    <3>1. ASSUME p # q, p \in Below(q) PROVE FALSE
      <4>1. Begins(q, p)
        BY <2>2, <3>1, BelowIs
      <4>2. NodeAt(tree, q) = Dir
        BY <1>n, <2>2, <3>1, <4>1, Ancestors
      <4>3. IsDir(q) /\ IsThere(q)
        BY <4>2, AtIs DEF Dir, NoNode
      <4>4. QED
        BY <1>7, <4>3
    <3>2. QED
      BY <3>1
  <2>5. ASSUME NEW e \in Strings, p # q, NodeAt(tree, p \o e) # NoNode
        PROVE  NodeAt(tree', q \o e) = NodeAt(tree, p \o e)
    <3>1. p \o e \in Strings /\ q \o e \in Strings /\ Len(p \o e) = Len(p) + Len(e) /\ Len(q \o e) = Len(q) + Len(e)
          /\ Len(p) \in Nat /\ Len(q) \in Nat /\ Len(e) \in Nat
      BY ConcatIs
    <3>2. p \o e \in Paths /\ NodeAt(tree, p \o e) = tree[p \o e] /\ IsThere(p \o e)
      <4>1. Len(p) > 0
        BY <1>7, <3>1, EmptyRemainder
      <4>2. p \o e # <<>>
        BY <3>1, <4>1, EmptyRemainder
      <4>3. QED
        BY <2>5, <3>1, <4>2, AtPath, AtIs
    <3>3. p \o e \in {p} \cup Below(p)
      <4>1. Begins(p, p \o e)
        BY BeginsConcat
      <4>2. CASE p \o e # p
        <5>1. Len(p \o e) > Len(p)
          BY <3>1, <4>1, <4>2, BeginsSame
        <5>2. QED
          BY <3>2, <4>1, <5>1, BelowIs
      <4>3. QED
        BY <4>2
    <3>4. q \o e \in Paths
      <4>1. Len(p \o e) - Len(p) + Len(q) <= MaxDepth
        BY <1>7, <3>2, <3>3
      <4>2. Len(q \o e) <= MaxDepth
        BY <3>1, <4>1
      <4>3. q \o e # <<>>
        <5>1. Len(q) > 0
          BY <2>3, <3>1, EmptyRemainder
        <5>2. QED
          BY <3>1, <5>1, EmptyRemainder
      <4>4. QED
        BY <3>1, <4>2, <4>3, AtPath
    <3>5. NodeAt(tree', q \o e) = made[p \o e]
      BY <1>7, <2>2, <2>4, <2>5, <3>2, <3>4, RenamedAt
    <3>6. made[p \o e] = tree[p \o e]
      <4>1. ASSUME Begins(p \o e, Parent(q)) PROVE FALSE
        <5>1. Begins(p, Parent(q))
          BY <1>n, <3>1, <4>1, BeginsConcat, BeginsThrough
        <5>2. Len(q) <= MaxDepth
          BY <1>7, <3>1
        <5>3. QED
          BY <1>7, <2>2, <5>1, <5>2, NotIntoItself
      <4>2. QED
        BY <1>3, <1>n, <3>2, <4>1, MadeIs
    <3>7. QED
      BY <3>2, <3>5, <3>6
  <2>6. ASSUME Solo(c) PROVE Doing(new)'
    <3>1. /\ fileCall[c].was = tree /\ fileCall[c].req.tool = "move"
          /\ p = ResolvePath(fileCall[c].req.src) /\ q = ResolvePath(fileCall[c].req.dst)
      BY <1>t, <1>1, <1>2, <2>6, SoloIs DEF Doing
    <3>2. p # q => NodeAt(tree', p) = NoNode
      BY <1>7, <2>2, <2>4, RenamedAt
    <3>3. ASSUME p # q, NEW xy \in Onto(p, q), NodeAt(tree, xy[1]) # NoNode PROVE NodeAt(tree', xy[2]) = NodeAt(tree, xy[1])
      <4>1. PICK e \in Strings : xy = <<p \o e, q \o e>>
        BY OntoIs
      <4>2. xy[1] = p \o e /\ xy[2] = q \o e
        BY <4>1
      <4>3. QED
        BY <2>5, <3>3, <4>2
    <3>4. /\ p = (IF new.req.src.abs THEN new.req.src.path ELSE workDir' \o new.req.src.path)
          /\ q = (IF new.req.dst.abs THEN new.req.dst.path ELSE workDir' \o new.req.dst.path)
      BY <1>t, <2>1, <3>1 DEF ResolvePath
    <3>5. Did(new)'
      BY <2>1, <3>1, <3>2, <3>3, <3>4 DEF Did
    <3>6. QED
      BY <2>1, <3>5 DEF Doing
  <2>7. QED
    BY <1>t, <1>1, <1>7, <2>6, SoloGoes
<1>8. QED
  BY <1>5, <1>6, <1>7

LEMMA SoloDelete ==
  ASSUME FileInv, SoloInv, NEW c \in FileCallers, DeleteFile(c)
  PROVE  SoloInv'
<1>t. FileTypes /\ UNCHANGED <<workDir, overlapped>>
  BY DEF FileInv, DeleteFile
<1>1. fileCall[c].at = "delete" /\ fileCall[c] \in FileCalls
  BY <1>t, FileCallTyped DEF DeleteFile
<1>2. PICK p \in Strings : p = fileCall[c].p
  BY <1>1 DEF FileCalls
<1>3. PICK new : new = [fileCall[c] EXCEPT !.at = "verify"]
  OBVIOUS
<1>4. \/ /\ IsThere(p) /\ p # <<>>
         /\ tree' = [x \in Paths |-> IF x = p \/ x \in Below(p) THEN NoNode ELSE tree[x]]
         /\ fileCall' = [fileCall EXCEPT ![c] = new]
      \/ fileCall' = [fileCall EXCEPT ![c].at = "failed"]
  BY <1>2, <1>3 DEF DeleteFile, FileEnds, FileGoes
<1>5. CASE fileCall' = [fileCall EXCEPT ![c].at = "failed"]
  BY <1>t, <1>1, <1>5, SoloFails
<1>6. CASE /\ IsThere(p) /\ p # <<>>
           /\ tree' = [x \in Paths |-> IF x = p \/ x \in Below(p) THEN NoNode ELSE tree[x]]
           /\ fileCall' = [fileCall EXCEPT ![c] = new]
  <2>1. new.at = "verify" /\ new.req = fileCall[c].req /\ new.was = fileCall[c].was
    BY <1>1, <1>3 DEF FileCalls
  <2>2. p \in Paths /\ NodeAt(tree, p) # NoNode
    BY <1>6, AtIs DEF IsThere
  <2>3. NodeAt(tree', p) = NoNode
    BY <1>6, <2>2, AtPath
  <2>4. ASSUME Solo(c) PROVE Doing(new)'
    <3>1. fileCall[c].was = tree /\ fileCall[c].req.tool = "delete" /\ p = ResolvePath(fileCall[c].req.src)
      BY <1>t, <1>1, <1>2, <2>4, SoloIs DEF Doing
    <3>2. p = (IF new.req.src.abs THEN new.req.src.path ELSE workDir' \o new.req.src.path)
      BY <1>t, <2>1, <3>1 DEF ResolvePath
    <3>3. Did(new)'
      BY <2>1, <2>2, <2>3, <3>1, <3>2 DEF Did
    <3>4. QED
      BY <2>1, <3>3 DEF Doing
  <2>5. QED
    BY <1>t, <1>1, <1>6, <2>4, SoloGoes
<1>7. QED
  BY <1>4, <1>5, <1>6

LEMMA SoloCreate ==
  ASSUME FileInv, SoloInv, NEW c \in FileCallers, CreateDirectory(c)
  PROVE  SoloInv'
<1>t. FileTypes /\ UNCHANGED <<workDir, overlapped>>
  BY DEF FileInv, CreateDirectory
<1>1. fileCall[c].at = "create" /\ fileCall[c] \in FileCalls
  BY <1>t, FileCallTyped DEF CreateDirectory
<1>2. PICK p \in Strings : p = fileCall[c].p
  BY <1>1 DEF FileCalls
<1>3. PICK new : new = [fileCall[c] EXCEPT !.at = "verify"]
  OBVIOUS
<1>4. CASE ~CanMkdirAll(p)
  <2>1. fileCall' = [fileCall EXCEPT ![c].at = "failed"]
    BY <1>2, <1>4 DEF CreateDirectory, FileEnds
  <2>2. QED
    BY <1>t, <1>1, <2>1, SoloFails
<1>5. CASE CanMkdirAll(p)
  <2>1. tree' = MkdirAll(tree, p) /\ fileCall' = [fileCall EXCEPT ![c] = new]
    BY <1>2, <1>3, <1>5 DEF CreateDirectory, FileGoes
  <2>2. new.at = "verify" /\ new.req = fileCall[c].req /\ new.was = fileCall[c].was
    BY <1>1, <1>3 DEF FileCalls
  <2>3. NodeAt(tree', p) = Dir
    <3>1. tree \in Trees /\ Len(p) <= MaxDepth
      BY <1>t, <1>5 DEF FileTypes, CanMkdirAll
    <3>2. QED
      BY <2>1, <3>1, MadeAt, EmptyRemainder
  <2>4. ASSUME Solo(c) PROVE Doing(new)'
    <3>1. fileCall[c].req.tool = "create" /\ p = ResolvePath(fileCall[c].req.src)
      BY <1>t, <1>1, <1>2, <2>4, SoloIs DEF Doing
    <3>2. p = (IF new.req.src.abs THEN new.req.src.path ELSE workDir' \o new.req.src.path)
      BY <1>t, <2>2, <3>1 DEF ResolvePath
    <3>3. Did(new)'
      BY <2>2, <2>3, <3>1, <3>2 DEF Did
    <3>4. QED
      BY <2>2, <3>3 DEF Doing
  <2>5. QED
    BY <1>t, <1>1, <2>1, <2>4, SoloGoes
<1>6. QED
  BY <1>4, <1>5

LEMMA SoloLookForDirectory ==
  ASSUME FileInv, SoloInv, NEW c \in FileCallers, LookForDirectory(c)
  PROVE  SoloInv'
<1>t. FileTypes /\ UNCHANGED <<tree, workDir, overlapped>>
  BY DEF FileInv, LookForDirectory
<1>1. fileCall[c].at = "chdir" /\ fileCall[c] \in FileCalls
  BY <1>t, FileCallTyped DEF LookForDirectory
<1>2. PICK new : new = [fileCall[c] EXCEPT !.at = "chdir2"]
  OBVIOUS
<1>3. \/ fileCall' = [fileCall EXCEPT ![c] = new]
      \/ fileCall' = [fileCall EXCEPT ![c].at = "failed"]
  BY <1>2 DEF LookForDirectory, FileGoes
<1>4. new.at = "chdir2" /\ new.req = fileCall[c].req /\ new.was = fileCall[c].was
  BY <1>1, <1>2 DEF FileCalls
<1>5. ASSUME Solo(c) PROVE Doing(new)'
  <2>1. fileCall[c].was = tree /\ fileCall[c].req.tool = "chdir"
    BY <1>t, <1>1, <1>5, SoloIs DEF Doing
  <2>2. QED
    BY <1>t, <1>4, <2>1 DEF Doing
<1>6. QED
  BY <1>t, <1>1, <1>3, <1>5, SoloGoes, SoloFails

LEMMA SoloSetWorkingDirectory ==
  ASSUME FileInv, SoloInv, NEW c \in FileCallers, SetWorkingDirectory(c)
  PROVE  SoloInv'
<1>t. FileTypes /\ UNCHANGED <<tree, overlapped>>
  BY DEF FileInv, SetWorkingDirectory
<1>1. fileCall[c].at = "chdir2" /\ fileCall[c] \in FileCalls
  BY <1>t, FileCallTyped DEF SetWorkingDirectory
<1>2. PICK new : new = [fileCall[c] EXCEPT !.at = "ok"]
  OBVIOUS
<1>3. fileCall' = [fileCall EXCEPT ![c] = new]
  BY <1>2 DEF SetWorkingDirectory, FileEnds
<1>4. new.at = "ok" /\ new.req = fileCall[c].req
  BY <1>1, <1>2 DEF FileCalls
<1>5. ASSUME Solo(c) PROVE Doing(new)'
  <2>1. fileCall[c].req.tool = "chdir"
    BY <1>t, <1>1, <1>5, SoloIs DEF Doing
  <2>2. Did(new)'
    BY <1>4, <2>1 DEF Did
  <2>3. QED
    BY <1>4, <2>2 DEF Doing
<1>6. QED
  BY <1>t, <1>1, <1>3, <1>5, SoloGoes

LEMMA SoloPostVerify ==
  ASSUME FileInv, SoloInv, NEW c \in FileCallers, FilePostVerify(c)
  PROVE  SoloInv'
<1>t. FileTypes /\ UNCHANGED <<tree, workDir, overlapped>>
  BY DEF FileInv, FilePostVerify
<1>1. fileCall[c].at = "verify" /\ fileCall[c] \in FileCalls
  BY <1>t, FileCallTyped DEF FilePostVerify
<1>2. PICK new : new = [fileCall[c] EXCEPT !.at = "ok"]
  OBVIOUS
<1>3. \/ fileCall' = [fileCall EXCEPT ![c] = new]
      \/ fileCall' = [fileCall EXCEPT ![c].at = "failed"]
  BY <1>2 DEF FilePostVerify, FileEnds
<1>4. new.at = "ok" /\ new.req = fileCall[c].req /\ new.was = fileCall[c].was
  BY <1>1, <1>2 DEF FileCalls
<1>5. ASSUME Solo(c) PROVE Doing(new)'
  <2>1. Did(fileCall[c])
    BY <1>t, <1>1, <1>5, SoloIs DEF Doing
  <2>2. Did(new)'
    BY <1>t, <1>4, <2>1 DEF Did
  <2>3. QED
    BY <1>4, <2>2 DEF Doing
<1>6. QED
  BY <1>t, <1>1, <1>3, <1>5, SoloGoes, SoloFails

LEMMA SoloStepInv == FileInv /\ SoloInv /\ [FilesNext]_fileVars => SoloInv'
<1> SUFFICES ASSUME FileInv, SoloInv, [FilesNext]_fileVars PROVE SoloInv'
  OBVIOUS
<1>1. ASSUME NEW c \in FileCallers, NEW req \in FileRequests, FileBegin(c, req) PROVE SoloInv'
  BY <1>1, SoloBegin
<1>2. ASSUME NEW c \in FileCallers, FileStep(c) PROVE SoloInv'
  BY <1>2, SoloSource, SoloDestination, SoloLook, SoloWrite, SoloCopy, SoloMove, SoloDelete, SoloCreate,
     SoloLookForDirectory, SoloSetWorkingDirectory, SoloPostVerify DEF FileStep
<1>3. ASSUME UNCHANGED <<tree, workDir, fileCall, overlapped>> PROVE SoloInv'
  <2>1. ASSUME NEW call, Doing(call) PROVE Doing(call)'
    <3>1. Did(call) => Did(call)'
      BY <1>3 DEF Did
    <3>2. CopyGoesOn(call) => CopyGoesOn(call)'
      BY <1>3 DEF CopyGoesOn, IsTree
    <3>3. IsThere(call.p)' <=> IsThere(call.p)
      BY <1>3 DEF IsThere
    <3>4. \A arg : ResolvePath(arg)' = ResolvePath(arg)
      BY <1>3 DEF ResolvePath
    <3>5. QED
      BY <1>3, <2>1, <3>1, <3>2, <3>3, <3>4 DEF Doing
  <2>2. ASSUME NEW c \in FileCallers, Solo(c)' PROVE Doing(fileCall[c])' /\ \A d \in FileCallers \ {c} : fileCall'[d].at = "idle"
    <3>1. Solo(c)
      BY <1>3, <2>2 DEF Solo
    <3>2. Doing(fileCall[c]) /\ \A d \in FileCallers \ {c} : fileCall[d].at = "idle"
      BY <3>1 DEF SoloInv
    <3>3. PICK call : call = fileCall[c]
      OBVIOUS
    <3>4. Doing(call)'
      BY <2>1, <3>2, <3>3
    <3>5. call = fileCall'[c]
      BY <1>3, <3>3
    <3>6. Doing(fileCall[c])'
      <4>1. CopyGoesOn(call)' <=> CopyGoesOn(fileCall[c])'
        BY <3>5 DEF CopyGoesOn
      <4>2. Did(call)' <=> Did(fileCall[c])'
        BY <3>5 DEF Did
      <4>3. QED
        BY <3>4, <3>5, <4>1, <4>2 DEF Doing
    <3>7. QED
      BY <1>3, <3>2, <3>6
  <2>3. QED
    BY <2>2 DEF SoloInv
<1>4. ASSUME NEW p \in Paths, ReadPage(p) PROVE SoloInv'
  BY <1>3, <1>4 DEF ReadPage
<1>5. CASE UNCHANGED fileVars
  BY <1>3, <1>5 DEF fileVars
<1>6. QED
  BY <1>1, <1>2, <1>4, <1>5 DEF FilesNext

LEMMA SoloInvAlways == FileSpec => []SoloInv
<1>1. FileInv /\ SoloInv /\ [FilesNext]_fileVars => SoloInv'
  BY SoloStepInv
<1>2. QED
  BY SoloInitInv, FileInvAlways, <1>1, PTL DEF FileSpec

(* A call that answers success, and beside which no other call ran, did to    *)
(* the paths its arguments name what its tool says: write_file wrote the rows *)
(* where no file was and replaced one only when asked to, copy_file brought   *)
(* all there was below its source, move_file brought it and left nothing      *)
(* behind, delete_file removed something, create_directory made one.          *)
THEOREM SoloCallsDoHolds == FileSpec => []SoloCallsDo
<1>1. ASSUME SoloInv PROVE SoloCallsDo
  <2> SUFFICES ASSUME NEW c \in FileCallers, fileCall[c].at = "ok", c \notin overlapped PROVE Did(fileCall[c])
    BY DEF SoloCallsDo
  <2>1. Solo(c)
    BY DEF Solo
  <2>2. QED
    BY <1>1, <2>1 DEF SoloInv, Doing
<1>2. QED
  BY SoloInvAlways, <1>1, PTL

(* All three parts of what the file tools promise.                            *)
THEOREM FileToolsDoHolds == FileSpec => []FileToolsDo
<1>1. TreeStays /\ SoloCallsDo /\ PagesAddUp => FileToolsDo
  BY DEF FileToolsDo
<1>2. QED
  BY TreeStaysHolds, SoloCallsDoHolds, PagesAddUpHolds, <1>1, PTL

-----------------------------------------------------------------------------
(* The clipboard                                                             *)

\* A call is past OpenClipboard and before CloseClipboard.
HasItOpen(c) == clipCall[c].at \in {"open", "emptied", "closing"}

\* It is open by the one call between the two, or by somebody else.
OneOpener == \A c \in ClipCalls : openBy = c <=> HasItOpen(c)

\* What the clipboard holds when nobody has it open, or a call that has not
\* changed it, is among what the calls in flight may say they found.
FoundIsSeen ==
  /\ openBy = "nobody" =>
       \A c \in ClipCalls : clipCall[c].at # "idle" => clip \in found[c]
  /\ \A c \in ClipCalls : clipCall[c].at = "open" => clip \in found[c]

\* How far a call has got with its text.
ReadSoFar(c) ==
  clipCall[c].tool = "get" /\ clipCall[c].err = "ok" =>
    c \in refused \/ \E t \in found[c] : clipCall[c].text = Cut(t)
SetSoFar(c) ==
  clipCall[c].tool = "set" /\ clipCall[c].err = "ok" =>
    \/ c \in refused
    \/ clipCall[c].at = "closing" /\ clip = clipCall[c].text
    \/ clipCall[c].at = "ended" /\ clipCall[c].text \in found[c]
CallInOrder(c) ==
  /\ clipCall[c].tool = "set" => clipCall[c].text \in Meant
  /\ clipCall[c].at \in {"opening", "open", "emptied"} =>
       clipCall[c].err = "none" /\ clipCall[c].tool # "none"
  /\ clipCall[c].at = "emptied" => clipCall[c].tool = "set"
  /\ clipCall[c].at \in {"opening", "open"} => clipCall[c].answer \in {"waiting", "timeout"}
  /\ clipCall[c].at = "opening" => clipCall[c].tries < MaxTries
  /\ clipCall[c].err = "held" => clipCall[c].at = "ended"
  /\ clipCall[c].answer \in {"ok", "held", "memory"} =>
       clipCall[c].at = "ended" /\ clipCall[c].err = clipCall[c].answer
  /\ clipCall[c].at = "idle" => clipCall[c].tool = "none"

\* Only the call that has emptied it finds it empty.
EmptyIsOurs ==
  refused = {} =>
    clip \in Meant \/ \E c \in ClipCalls : openBy = c /\ clipCall[c].at = "emptied"

\* The copy that is being made is counted when it is done.
CopiesBounded == openBy = "other" => copies < MaxCopies

ClipInv ==
  /\ CopiesBounded /\ ClipTypeOK /\ OneOpener /\ FoundIsSeen /\ EmptyIsOurs
  /\ \A c \in ClipCalls : CallInOrder(c) /\ ReadSoFar(c) /\ SetSoFar(c)

USE ClipBounds, ClipToolsAssumption, ClipOwnersAssumption DEF ClipBounds, ClipToolsAssumption, ClipOwnersAssumption

LEMMA ClipInitInv == ClipInit => ClipInv
<1> SUFFICES ASSUME ClipInit PROVE ClipInv
  OBVIOUS
<1>1. /\ clip \in ClipHolds /\ clip \in Meant /\ openBy = "nobody" /\ copies = 0 /\ refused = {}
      /\ clipCall = [c \in ClipCalls |-> NoClipCall] /\ found = [c \in ClipCalls |-> {}]
  BY DEF ClipInit, ClipHolds, Meant
<1>2. ClipTypeOK
  <2>1. NoClipCall \in ClipStates
    BY DEF NoClipCall, ClipStates, ClipSays, ClipHolds
  <2>2. QED
    BY <1>1, <2>1 DEF ClipTypeOK
<1>3. QED
  BY <1>1, <1>2 DEF ClipInv, CopiesBounded, OneOpener, HasItOpen, FoundIsSeen, ReadSoFar, SetSoFar, CallInOrder,
                    EmptyIsOurs, NoClipCall

\* The function of a call is its own goroutine, and its caller another: a call begins,
\* takes its function's error, or gives up.
LEMMA CallerKeeps ==
    ASSUME ClipInv, NEW c \in ClipCalls, WithTimeout(c) \/ TakeError(c) \/ TimesOut(c)
    PROVE  ClipInv'
<1> USE DEF ClipInv
<1>0. clipCall \in [ClipCalls -> ClipStates] /\ clipCall[c] \in ClipStates
  BY DEF ClipTypeOK, ClipStates
<1>1. CASE WithTimeout(c)
  <2>1. PICK request \in ClipRequests :
          clipCall' = [clipCall EXCEPT ![c] = [tool |-> request.tool, text |-> request.text, at |-> "opening",
                                               tries |-> 0, err |-> "none", answer |-> "waiting"]]
    BY <1>1 DEF WithTimeout
  <2>2. /\ clipCall[c].at = "idle" /\ UNCHANGED <<clip, openBy, copies, refused>>
        /\ found' = [found EXCEPT ![c] = IF openBy = "nobody" THEN {clip} ELSE {}]
    BY <1>1 DEF WithTimeout
  <2>3. /\ request.tool \in {"get", "set"} /\ request.text \in ClipSays
        /\ request.tool = "set" => request.text \in Meant
    BY DEF Meant, ClipSays
  <2>. DEFINE begun == [tool |-> request.tool, text |-> request.text, at |-> "opening", tries |-> 0,
                        err |-> "none", answer |-> "waiting"]
  <2>4. /\ begun \in ClipStates
        /\ begun.tool = request.tool /\ begun.text = request.text /\ begun.at = "opening"
        /\ begun.tries = 0 /\ begun.err = "none" /\ begun.answer = "waiting"
    BY <2>3 DEF ClipStates
  <2>5. clipCall' = [clipCall EXCEPT ![c] = begun]
    BY <2>1
  <2>. HIDE DEF begun
  <2>6. ClipTypeOK'
    BY <1>0, <2>2, <2>4, <2>5 DEF ClipTypeOK
  <2>7. \A d \in ClipCalls : CallInOrder(d)' /\ ReadSoFar(d)' /\ SetSoFar(d)'
    BY <1>0, <2>2, <2>3, <2>4, <2>5 DEF CallInOrder, ReadSoFar, SetSoFar, ClipTypeOK
  <2>8. CopiesBounded' /\ OneOpener' /\ FoundIsSeen' /\ EmptyIsOurs'
    BY <1>0, <2>2, <2>4, <2>5 DEF CopiesBounded, OneOpener, HasItOpen, FoundIsSeen, EmptyIsOurs, ClipTypeOK
  <2>9. QED
    BY <2>6, <2>7, <2>8
<1>2. CASE TakeError(c) \/ TimesOut(c)
  <2>1. PICK answer \in {"timeout", clipCall[c].err} :
          /\ clipCall' = [clipCall EXCEPT ![c].answer = answer]
          /\ answer # "timeout" => clipCall[c].at = "ended"
    BY <1>2 DEF TakeError, TimesOut
  <2>2. clipCall[c].answer = "waiting" /\ UNCHANGED <<clip, openBy, found, copies, refused>>
    BY <1>2 DEF TakeError, TimesOut
  <2>3. /\ \A d \in ClipCalls : d # c => clipCall'[d] = clipCall[d]
        /\ clipCall'[c].tool = clipCall[c].tool /\ clipCall'[c].text = clipCall[c].text
        /\ clipCall'[c].at = clipCall[c].at /\ clipCall'[c].err = clipCall[c].err
        /\ clipCall'[c].answer = answer
    BY <1>0, <2>1 DEF ClipStates
  <2>4. ClipTypeOK'
    BY <1>0, <2>1, <2>2 DEF ClipTypeOK, ClipStates
  <2>5. \A d \in ClipCalls : CallInOrder(d)' /\ ReadSoFar(d)' /\ SetSoFar(d)'
    BY <1>0, <2>1, <2>2, <2>3 DEF CallInOrder, ReadSoFar, SetSoFar
  <2>6. CopiesBounded' /\ OneOpener' /\ FoundIsSeen' /\ EmptyIsOurs'
    BY <2>2, <2>3 DEF CopiesBounded, OneOpener, HasItOpen, FoundIsSeen, EmptyIsOurs
  <2>7. QED
    BY <2>4, <2>5, <2>6
<1>3. QED
  BY <1>1, <1>2

\* The call that has the clipboard open is alone: what it reads was there when it came,
\* and what it writes is what the others find when it is done.
LEMMA FunctionKeeps ==
    ASSUME ClipInv, NEW c \in ClipCalls,
           \/ OpenClipboard(c) \/ OpenHeld(c) \/ GetText(c) \/ GetRefused(c)
           \/ EmptyClipboard(c) \/ SetText(c) \/ SetRefused(c) \/ CloseClipboard(c)
    PROVE  ClipInv'
<1> USE DEF ClipInv
<1>0. /\ clipCall \in [ClipCalls -> ClipStates] /\ clipCall[c] \in ClipStates
      /\ c \notin {"nobody", "other"}
  BY DEF ClipTypeOK
<1>1. \A d \in ClipCalls : d # c /\ HasItOpen(c) => ~HasItOpen(d)
  BY DEF OneOpener
<1>2. CASE OpenClipboard(c)
  <2>1. /\ \A d \in ClipCalls : d # c => clipCall'[d] = clipCall[d]
        /\ clipCall' \in [ClipCalls -> ClipStates]
        /\ clipCall'[c].tool = clipCall[c].tool /\ clipCall'[c].text = clipCall[c].text
        /\ clipCall'[c].err = clipCall[c].err /\ clipCall'[c].answer = clipCall[c].answer
        /\ clipCall[c].at = "opening" /\ clipCall'[c].at = "open"
    BY <1>0, <1>2 DEF OpenClipboard, ClipStates
  <2>2. openBy = "nobody" /\ openBy' = c /\ UNCHANGED <<clip, found, copies, refused>>
    BY <1>2 DEF OpenClipboard
  <2>3. CopiesBounded' /\ ClipTypeOK' /\ OneOpener' /\ FoundIsSeen'
    BY <1>0, <2>1, <2>2 DEF ClipTypeOK, CopiesBounded, OneOpener, HasItOpen, FoundIsSeen
  <2>4. EmptyIsOurs'
    BY <1>0, <2>1, <2>2 DEF EmptyIsOurs
  <2>5. \A d \in ClipCalls : CallInOrder(d)' /\ ReadSoFar(d)' /\ SetSoFar(d)'
    BY <2>1, <2>2 DEF CallInOrder, ReadSoFar, SetSoFar
  <2>6. QED
    BY <2>3, <2>4, <2>5
<1>3. CASE OpenHeld(c)
  <2>1. /\ \A d \in ClipCalls : d # c => clipCall'[d] = clipCall[d]
        /\ clipCall' \in [ClipCalls -> ClipStates]
        /\ clipCall'[c].tool = clipCall[c].tool /\ clipCall'[c].text = clipCall[c].text
        /\ clipCall'[c].answer = clipCall[c].answer /\ clipCall[c].at = "opening"
        /\ \/ /\ clipCall'[c].at = "opening" /\ clipCall'[c].err = clipCall[c].err
              /\ clipCall'[c].tries < MaxTries
           \/ clipCall'[c].at = "ended" /\ clipCall'[c].err = "held"
    <3>1. clipCall[c].at = "opening" /\ clipCall[c].tries < MaxTries
      BY <1>3 DEF OpenHeld, CallInOrder
    <3>2. CASE clipCall[c].tries + 1 = MaxTries
      <4>1. clipCall' = [clipCall EXCEPT ![c].tries = MaxTries, ![c].at = "ended", ![c].err = "held"]
        BY <1>3, <3>2 DEF OpenHeld
      <4>2. MaxTries \in 0..MaxTries
        OBVIOUS
      <4>3. QED
        BY <1>0, <3>1, <4>1, <4>2 DEF ClipStates
    <3>3. CASE clipCall[c].tries + 1 # MaxTries
      <4>1. clipCall' = [clipCall EXCEPT ![c].tries = clipCall[c].tries + 1]
        BY <1>3, <3>3 DEF OpenHeld
      <4>2. clipCall[c].tries + 1 \in 0..MaxTries /\ clipCall[c].tries + 1 < MaxTries
        BY <1>0, <3>1, <3>3 DEF ClipStates
      <4>3. QED
        BY <1>0, <3>1, <4>1, <4>2 DEF ClipStates
    <3>4. QED
      BY <3>2, <3>3
  <2>2. UNCHANGED <<clip, openBy, found, copies, refused>>
    BY <1>3 DEF OpenHeld
  <2>3. CopiesBounded' /\ ClipTypeOK' /\ OneOpener' /\ FoundIsSeen' /\ EmptyIsOurs'
    BY <1>0, <2>1, <2>2 DEF ClipTypeOK, CopiesBounded, OneOpener, HasItOpen, FoundIsSeen, EmptyIsOurs
  <2>4. \A d \in ClipCalls : CallInOrder(d)' /\ ReadSoFar(d)' /\ SetSoFar(d)'
    BY <2>1, <2>2 DEF CallInOrder, ReadSoFar, SetSoFar
  <2>5. QED
    BY <2>3, <2>4
<1>4. CASE GetText(c) \/ GetRefused(c)
  <2>1. /\ \A d \in ClipCalls : d # c => clipCall'[d] = clipCall[d]
        /\ clipCall' \in [ClipCalls -> ClipStates]
        /\ clipCall'[c].tool = clipCall[c].tool /\ clipCall[c].tool = "get"
        /\ clipCall'[c].answer = clipCall[c].answer
        /\ clipCall[c].at = "open" /\ clipCall'[c].at = "closing" /\ clipCall'[c].err = "ok"
        /\ c \in refused' \/ clipCall'[c].text = Cut(clip)
    <3>1. Cut(clip) \in ClipSays
      BY DEF ClipTypeOK, ClipSays
    <3>2. CASE GetText(c)
      BY <1>0, <3>1, <3>2 DEF GetText, ClipStates
    <3>3. CASE GetRefused(c)
      BY <1>0, <3>3 DEF GetRefused, ClipStates
    <3>4. QED
      BY <1>4, <3>2, <3>3
  <2>2. UNCHANGED <<clip, openBy, found, copies>> /\ refused' \in {refused, refused \cup {c}}
    BY <1>4 DEF GetText, GetRefused
  <2>3. CopiesBounded' /\ ClipTypeOK' /\ OneOpener' /\ FoundIsSeen' /\ EmptyIsOurs'
    BY <1>0, <2>1, <2>2 DEF ClipTypeOK, CopiesBounded, OneOpener, HasItOpen, FoundIsSeen, EmptyIsOurs
  <2>4. ReadSoFar(c)'
    BY <2>1, <2>2 DEF ReadSoFar, FoundIsSeen
  <2>5. \A d \in ClipCalls : CallInOrder(d)' /\ ReadSoFar(d)' /\ SetSoFar(d)'
    BY <2>1, <2>2, <2>4 DEF CallInOrder, ReadSoFar, SetSoFar
  <2>6. QED
    BY <2>3, <2>5
<1>5. CASE EmptyClipboard(c)
  <2>1. /\ \A d \in ClipCalls : d # c => clipCall'[d] = clipCall[d]
        /\ clipCall' \in [ClipCalls -> ClipStates]
        /\ clipCall'[c].tool = clipCall[c].tool /\ clipCall'[c].text = clipCall[c].text
        /\ clipCall'[c].err = clipCall[c].err /\ clipCall'[c].answer = clipCall[c].answer
        /\ clipCall[c].tool = "set" /\ clipCall[c].at = "open" /\ clipCall'[c].at = "emptied"
    BY <1>0, <1>5 DEF EmptyClipboard, ClipStates
  <2>2. UNCHANGED <<openBy, found, copies, refused>> /\ openBy = c /\ clip' = ""
    BY <1>5 DEF EmptyClipboard, CopiesBounded, OneOpener, HasItOpen
  <2>3. ClipTypeOK'
    BY <2>1, <2>2 DEF ClipTypeOK, ClipHolds
  <2>4. CopiesBounded' /\ OneOpener' /\ FoundIsSeen' /\ EmptyIsOurs'
    BY <1>0, <1>1, <2>1, <2>2 DEF CopiesBounded, OneOpener, HasItOpen, FoundIsSeen, EmptyIsOurs
  <2>5. ASSUME NEW d \in ClipCalls PROVE CallInOrder(d)' /\ ReadSoFar(d)' /\ SetSoFar(d)'
    <3>1. CallInOrder(d)' /\ ReadSoFar(d)'
      <4>1. CASE d = c
        BY <2>1, <2>2, <4>1 DEF CallInOrder, ReadSoFar
      <4>2. CASE d # c
        <5>1. CallInOrder(d)'
          BY <2>1, <4>2 DEF CallInOrder
        <5>2. ReadSoFar(d)'
          BY <2>1, <2>2, <4>2 DEF ReadSoFar
        <5>3. QED
          BY <5>1, <5>2
      <4>3. QED
        BY <4>1, <4>2
    <3>2. SetSoFar(d)'
      BY ZenonT(40), <1>1, <2>1, <2>2 DEF CallInOrder, SetSoFar, HasItOpen
    <3>3. QED
      BY <3>1, <3>2
  <2>6. QED
    BY <2>3, <2>4, <2>5
<1>6. CASE SetText(c) \/ SetRefused(c)
  <2>1. /\ \A d \in ClipCalls : d # c => clipCall'[d] = clipCall[d]
        /\ clipCall' \in [ClipCalls -> ClipStates]
        /\ clipCall'[c].tool = clipCall[c].tool /\ clipCall'[c].text = clipCall[c].text
        /\ clipCall'[c].err \in {"ok", "memory"} /\ clipCall'[c].answer = clipCall[c].answer
        /\ clipCall[c].at = "emptied" /\ clipCall'[c].at = "closing"
    <3>1. CASE SetText(c)
      BY <1>0, <3>1 DEF SetText, ClipStates
    <3>2. CASE SetRefused(c)
      BY <1>0, <3>2 DEF SetRefused, ClipStates
    <3>3. QED
      BY <1>6, <3>1, <3>2
  <2>2. /\ UNCHANGED <<openBy, found, copies>> /\ openBy = c /\ clipCall[c].tool = "set"
        /\ \/ clip' = clipCall[c].text /\ refused' = refused
           \/ clip' = clip /\ refused' = refused \cup {c}
    BY <1>6 DEF SetText, SetRefused, CopiesBounded, OneOpener, HasItOpen, CallInOrder
  <2>3. clipCall[c].text \in Meant
    BY <2>2 DEF CallInOrder
  <2>4. ClipTypeOK'
    BY <2>1, <2>2, <2>3 DEF ClipTypeOK, ClipHolds
  <2>5. CopiesBounded' /\ OneOpener' /\ FoundIsSeen' /\ EmptyIsOurs'
    BY <1>0, <1>1, <2>1, <2>2, <2>3 DEF CopiesBounded, OneOpener, HasItOpen, FoundIsSeen, EmptyIsOurs
  <2>6. \A d \in ClipCalls : CallInOrder(d)' /\ ReadSoFar(d)' /\ SetSoFar(d)'
    BY <1>1, <2>1, <2>2 DEF CallInOrder, ReadSoFar, SetSoFar, HasItOpen
  <2>7. QED
    BY <2>4, <2>5, <2>6
<1>7. CASE CloseClipboard(c)
  <2>1. /\ \A d \in ClipCalls : d # c => clipCall'[d] = clipCall[d]
        /\ clipCall' \in [ClipCalls -> ClipStates]
        /\ clipCall'[c].tool = clipCall[c].tool /\ clipCall'[c].text = clipCall[c].text
        /\ clipCall'[c].err = clipCall[c].err /\ clipCall'[c].answer = clipCall[c].answer
        /\ clipCall[c].at = "closing" /\ clipCall'[c].at = "ended"
    BY <1>0, <1>7 DEF CloseClipboard, ClipStates
  <2>2. /\ UNCHANGED <<clip, copies, refused>> /\ openBy = c /\ openBy' = "nobody"
        /\ found' = [d \in ClipCalls |-> IF clipCall[d].at = "idle" THEN {} ELSE found[d] \cup {clip}]
    BY <1>7 DEF CloseClipboard, Shut, CopiesBounded, OneOpener, HasItOpen
  <2>3. ClipTypeOK'
    BY <2>1, <2>2 DEF ClipTypeOK
  <2>4. CopiesBounded' /\ OneOpener' /\ FoundIsSeen'
    BY <1>0, <1>1, <2>1, <2>2 DEF CopiesBounded, OneOpener, HasItOpen, FoundIsSeen
  <2>5. EmptyIsOurs'
    BY <2>1, <2>2 DEF EmptyIsOurs
  <2>6. \A d \in ClipCalls : CallInOrder(d)' /\ ReadSoFar(d)' /\ SetSoFar(d)'
    <3>1. ASSUME NEW d \in ClipCalls PROVE CallInOrder(d)' /\ ReadSoFar(d)' /\ SetSoFar(d)'
      <4>1. clipCall[d].at # "idle" => found'[d] = found[d] \cup {clip}
        BY <2>2
      <4>2. CallInOrder(d)'
        BY <2>1 DEF CallInOrder
      <4>3. ReadSoFar(d)'
        BY <2>1, <2>2, <4>1 DEF ReadSoFar, CallInOrder
      <4>4. SetSoFar(d)'
        BY <1>1, <2>1, <2>2, <4>1 DEF SetSoFar, CallInOrder, HasItOpen
      <4>5. QED
        BY <4>2, <4>3, <4>4
    <3>2. QED
      BY <3>1
  <2>7. QED
    BY <2>3, <2>4, <2>5, <2>6
<1>8. QED
  BY <1>2, <1>3, <1>4, <1>5, <1>6, <1>7

\* Other applications have it to themselves too.
LEMMA OthersKeep ==
    ASSUME ClipInv, OtherOpens \/ OtherSets \/ OtherCloses
    PROVE  ClipInv'
<1> USE DEF ClipInv
<1>0. {"nobody", "other"} \cap ClipCalls = {}
  OBVIOUS
<1>1. CASE OtherOpens
  <2>1. /\ openBy = "nobody" /\ openBy' = "other" /\ copies < MaxCopies
        /\ UNCHANGED <<clip, clipCall, found, copies, refused>>
    BY <1>1 DEF OtherOpens
  <2>2. CopiesBounded' /\ ClipTypeOK' /\ OneOpener' /\ FoundIsSeen' /\ EmptyIsOurs'
    BY <1>0, <2>1 DEF ClipTypeOK, CopiesBounded, OneOpener, HasItOpen, FoundIsSeen, EmptyIsOurs
  <2>3. QED
    BY <2>1, <2>2 DEF CallInOrder, ReadSoFar, SetSoFar
<1>2. CASE OtherSets
  <2>1. openBy = "other" /\ clip' \in ClipTexts /\ UNCHANGED <<openBy, clipCall, found, copies, refused>>
    BY <1>2 DEF OtherSets
  <2>2. clip' \in Meant /\ \A d \in ClipCalls : ~HasItOpen(d)
    BY <1>0, <2>1 DEF Meant, OneOpener
  <2>3. CopiesBounded' /\ ClipTypeOK' /\ OneOpener' /\ FoundIsSeen' /\ EmptyIsOurs'
    BY <2>1, <2>2 DEF ClipTypeOK, ClipHolds, CopiesBounded, OneOpener, HasItOpen, FoundIsSeen, EmptyIsOurs
  <2>4. QED
    BY <2>1, <2>2, <2>3 DEF CallInOrder, ReadSoFar, SetSoFar, HasItOpen
<1>3. CASE OtherCloses
  <2>1. /\ openBy = "other" /\ openBy' = "nobody" /\ UNCHANGED <<clip, clipCall, refused>>
        /\ found' = [d \in ClipCalls |-> IF clipCall[d].at = "idle" THEN {} ELSE found[d] \cup {clip}]
        /\ copies' \in 0..MaxCopies
    BY <1>3 DEF OtherCloses, Shut, CopiesBounded, ClipTypeOK
  <2>2. CopiesBounded' /\ ClipTypeOK'
    BY <2>1 DEF ClipTypeOK, CopiesBounded
  <2>3. OneOpener' /\ FoundIsSeen' /\ EmptyIsOurs'
    BY <1>0, <2>1 DEF OneOpener, HasItOpen, FoundIsSeen, EmptyIsOurs
  <2>4. ASSUME NEW d \in ClipCalls PROVE CallInOrder(d)' /\ ReadSoFar(d)' /\ SetSoFar(d)'
    BY <2>1 DEF CallInOrder, ReadSoFar, SetSoFar
  <2>5. QED
    BY <2>2, <2>3, <2>4
<1>4. QED
  BY <1>1, <1>2, <1>3

LEMMA ClipNextInv ==
    ASSUME ClipInv, [ClipNext]_clipVars
    PROVE  ClipInv'
<1>1. CASE \E c \in ClipCalls : WithTimeout(c) \/ TakeError(c) \/ TimesOut(c)
  BY <1>1, CallerKeeps
<1>2. CASE \E c \in ClipCalls : \/ OpenClipboard(c) \/ OpenHeld(c) \/ GetText(c) \/ GetRefused(c)
                                \/ EmptyClipboard(c) \/ SetText(c) \/ SetRefused(c) \/ CloseClipboard(c)
  BY <1>2, FunctionKeeps
<1>3. CASE OtherOpens \/ OtherSets \/ OtherCloses
  BY <1>3, OthersKeep
<1>4. CASE UNCHANGED clipVars
  BY <1>4 DEF clipVars, ClipInv, ClipTypeOK, CopiesBounded, OneOpener, HasItOpen, FoundIsSeen,
              EmptyIsOurs, CallInOrder, ReadSoFar, SetSoFar
<1>5. QED
  BY <1>1, <1>2, <1>3, <1>4 DEF ClipNext

LEMMA ClipInvHolds == ClipSpec => []ClipInv
<1>1. ClipInit => ClipInv
  BY ClipInitInv
<1>2. ClipInv /\ [ClipNext]_clipVars => ClipInv'
  BY ClipNextInv
<1>3. QED
  BY <1>1, <1>2, PTL DEF ClipSpec

\* Every variable of the clipboard keeps its type: one opener, texts somebody meant
\* (GetClipboardText, SetClipboardText, system.go).
THEOREM ClipTypeCorrect == ClipSpec => []ClipTypeOK
<1>1. ClipInv => ClipTypeOK
  BY DEF ClipInv
<1>2. QED
  BY <1>1, ClipInvHolds, PTL

\* A text get_clipboard answers was on the clipboard during the call, one set_clipboard
\* reports set was there for others to read, a call that gave up holds nothing open, and
\* nobody else finds the clipboard emptied: with any number of calls, timeouts and other
\* applications (WithTimeout, timeout.go; GetClipboardText and SetClipboardText, system.go).
THEOREM ClipboardAnswersHold == ClipSpec => []ClipboardAnswers
<1>1. ClipInv => ClipboardAnswers
  <2> SUFFICES ASSUME ClipInv PROVE ClipboardAnswers
    OBVIOUS
  <2> USE DEF ClipInv
  <2>1. ASSUME NEW c \in ClipCalls \ refused PROVE ReadWhole(c) /\ SetStood(c)
    BY DEF ReadWhole, SetStood, ReadSoFar, SetSoFar, CallInOrder
  <2>2. ASSUME NEW c \in ClipCalls PROVE HeldLeft(c)
    BY DEF HeldLeft, OneOpener, HasItOpen, CallInOrder
  <2>3. ASSUME NEW c \in ClipCalls, openBy = c PROVE clipCall[c].at \in {"open", "emptied", "closing"}
    BY <2>3 DEF OneOpener, HasItOpen
  <2>4. refused = {} => NeverLeftEmpty
    BY DEF NeverLeftEmpty, EmptyIsOurs
  <2>5. QED
    BY <2>1, <2>2, <2>3, <2>4 DEF ClipboardAnswers
<1>2. QED
  BY <1>1, ClipInvHolds, PTL

-----------------------------------------------------------------------------
(* Windows: enumerations through one callback, and what tools type into.      *)
WindowSteps == {"idle", "set", "walk", "exact", "focus", "infront", "act", "exists", "lock", "screen", "gone?", "front?",
           "answered", "failed", "panicked", "acted"}
AnyWindow == TopWindows \cup {NoWindow}
WindowLists == Seq(TopWindows)
GotLists == Seq(AnyWindow)
Hints == {q.hint : q \in WindowRequests} \cup {"none"}
Callbacks == [of : WindowCallers \cup {NoWindow}, take : {"none", "all", "one"}, hint : Hints]
WindowCalls ==
  [at : WindowSteps, kind : Kinds, hint : Hints, h : AnyWindow, take : {"all", "one"}, n : Nat,
   walk : WindowLists, shown : WindowLists, got : GotLists, old : Callbacks, tries : Nat]
WindowTypes ==
  /\ zorder \in WindowLists /\ foreground \in AnyWindow /\ lockHandle \in AnyWindow
  /\ enumCallback \in Callbacks /\ wcall \in [WindowCallers -> WindowCalls] /\ wcalls \in Nat /\ joint \subseteq Nat

\* A closure that collects for a call is the one that call enumerates with.
CollectsFor(cb) ==
  cb.of \in WindowCallers =>
    wcall[cb.of].at = "walk" /\ cb.take = wcall[cb.of].take /\ cb.hint = wcall[cb.of].hint
Closures ==
  CollectsFor(enumCallback) /\ \A c \in WindowCallers : CollectsFor(wcall[c].old) /\ wcall[c].old.of # c

\* How a call of each kind enumerates, and what it may do with the window.
InKind(f) ==
  /\ f.kind \in {"find", "wait"} => f.take = "one" /\ f.at \in {"set", "walk", "exact", "answered", "failed", "panicked"}
  /\ f.kind = "list" => f.take = "all" /\ f.at \in {"idle", "set", "walk", "answered", "failed", "panicked"}

\* What a search by title has found.
Titled(f) ==
  /\ f.at = "walk" /\ f.take = "one" => f.got = <<>> \/ f.hint \in Titles[f.got[1]]
  /\ f.at = "answered" /\ f.kind \in {"find", "wait"} => f.got[1] = NoWindow \/ f.hint \in Titles[f.got[1]]

\* Where the keys of a tool go.
InFrontOf(c) ==
  wcall[c].h # NoWindow /\ c \notin stirred =>
    /\ wcall[c].at = "act" => foreground = wcall[c].h
    /\ wcall[c].at = "acted" => wcall[c].got[1] = wcall[c].h

\* An enumeration beside which none has run has its own closure in force, and
\* has listed the windows it was shown so far.
AloneLists(c) ==
  LET f == wcall[c] IN
  /\ f.at = "walk" /\ f.n \notin joint =>
       /\ enumCallback.of = c /\ \A d \in WindowCallers : wcall[d].at = "walk" => d = c
       /\ f.take = "all" =>
            \E k \in 0..Len(f.shown) : /\ f.walk = SubSeq(f.shown, k + 1, Len(f.shown))
                                       /\ ListOf(f.shown, k, f.got)
  /\ f.at = "answered" /\ f.kind = "list" /\ f.n \notin joint => ListOf(f.shown, Len(f.shown), f.got)

WindowInv ==
  /\ WindowTypes /\ Closures
  /\ \A c \in WindowCallers : InKind(wcall[c]) /\ Titled(wcall[c]) /\ InFrontOf(c) /\ AloneLists(c)

-----------------------------------------------------------------------------
(* Types of what the steps write.                                             *)
LEMMA WindowCallFields ==
  ASSUME NEW f \in WindowCalls
  PROVE  /\ f.at \in WindowSteps /\ f.kind \in Kinds /\ f.hint \in Hints /\ f.h \in AnyWindow
         /\ f.take \in {"all", "one"} /\ f.n \in Nat /\ f.walk \in WindowLists /\ f.shown \in WindowLists
         /\ f.got \in GotLists /\ f.old \in Callbacks /\ f.tries \in Nat
BY DEF WindowCalls

LEMMA WindowCallWith ==
  ASSUME NEW at \in WindowSteps, NEW kind \in Kinds, NEW hint \in Hints, NEW h \in AnyWindow,
         NEW take \in {"all", "one"}, NEW n \in Nat, NEW walk \in WindowLists, NEW view \in WindowLists,
         NEW got \in GotLists, NEW old \in Callbacks, NEW tries \in Nat
  PROVE  [at |-> at, kind |-> kind, hint |-> hint, h |-> h, take |-> take, n |-> n, walk |-> walk, shown |-> view,
          got |-> got, old |-> old, tries |-> tries] \in WindowCalls
<1> HIDE DEF Callbacks, WindowSteps, Kinds
<1>1. QED
  BY DEF WindowCalls

LEMMA WindowsAre ==
  /\ NoWindow \notin TopWindows /\ NoWindow \notin WindowCallers /\ FirstOrder \in WindowLists /\ FirstOrder # <<>>
  /\ FocusAttempts \in Nat /\ FocusAttempts > 0
  /\ \A q \in WindowRequests : q.kind \in Kinds /\ q.hint \in Hints /\ q.h \in AnyWindow
BY WindowBounds, WindowsAssumption DEF WindowBounds, WindowsAssumption, Hints, AnyWindow, WindowLists

LEMMA NoCallbackIs ==
  /\ NoCallback \in Callbacks /\ NoCallback.of = NoWindow /\ NoCallback.of \notin WindowCallers
<1>1. NoWindow \notin WindowCallers
  BY WindowsAre
<1>2. NoCallback.of = NoWindow
  BY DEF NoCallback
<1>3. "none" \in Hints
  BY DEF Hints
<1>4. NoCallback \in Callbacks
  BY <1>3 DEF NoCallback, Callbacks
<1>5. QED
  BY <1>1, <1>2, <1>4

LEMMA EmptyLists == <<>> \in WindowLists /\ <<>> \in GotLists
<1>1. <<>> \in WindowLists
  BY EmptySeq DEF WindowLists
<1>2. <<>> \in GotLists
  BY EmptySeq DEF GotLists
<1>3. QED
  BY <1>1, <1>2

(* A call that is over, or begins again, keeps its question.                  *)
LEMMA OverIs ==
  ASSUME NEW f \in WindowCalls, NEW how \in WindowSteps, NEW got \in GotLists
  PROVE  /\ Over(f, how, got) \in WindowCalls
         /\ Over(f, how, got).at = how /\ Over(f, how, got).got = got
         /\ Over(f, how, got).kind = f.kind /\ Over(f, how, got).hint = f.hint /\ Over(f, how, got).h = f.h
         /\ Over(f, how, got).take = f.take /\ Over(f, how, got).n = f.n /\ Over(f, how, got).old = NoCallback
         /\ f.kind = "list" => Over(f, how, got).shown = f.shown
<1> DEFINE listed == IF f.kind = "list" THEN f.shown ELSE <<>>
<1>1. listed \in WindowLists
  BY WindowCallFields, EmptyLists
<1>2. /\ f.kind \in Kinds /\ f.hint \in Hints /\ f.h \in AnyWindow /\ f.take \in {"all", "one"}
      /\ f.n \in Nat /\ <<>> \in WindowLists /\ NoCallback \in Callbacks /\ 0 \in Nat
  BY WindowCallFields, EmptyLists, NoCallbackIs
<1> HIDE DEF listed
<1>3. Over(f, how, got) = [at |-> how, kind |-> f.kind, hint |-> f.hint, h |-> f.h, take |-> f.take, n |-> f.n, walk |-> <<>>,
                           shown |-> listed, got |-> got, old |-> NoCallback, tries |-> 0]
  BY DEF Over, listed
<1>4. [at |-> how, kind |-> f.kind, hint |-> f.hint, h |-> f.h, take |-> f.take, n |-> f.n, walk |-> <<>>,
       shown |-> listed, got |-> got, old |-> NoCallback, tries |-> 0] \in WindowCalls
  BY <1>1, <1>2, WindowCallWith
<1>5. Over(f, how, got) \in WindowCalls
  BY <1>3, <1>4
<1>6. QED
  BY <1>3, <1>5 DEF listed

(* What a step makes of its caller's call, when only that changes.            *)
CallBecomes(c, f) ==
  /\ wcall' \in [WindowCallers -> WindowCalls] /\ wcall'[c] = f /\ f \in WindowCalls
  /\ \A d \in WindowCallers \ {c} : wcall'[d] = wcall[d]
StillAsks(f, g) == g.kind = f.kind /\ g.hint = f.hint /\ g.take = f.take /\ g.n = f.n
OnlyGoes(f, g) == StillAsks(f, g) /\ g.got = f.got /\ g.old = f.old

LEMMA CallMoves ==
  ASSUME wcall \in [WindowCallers -> WindowCalls], NEW c \in WindowCallers, NEW s \in WindowSteps,
         \/ wcall' = [wcall EXCEPT ![c].at = s]
         \/ \E n \in Nat : wcall' = [wcall EXCEPT ![c].at = s, ![c].tries = n]
  PROVE  /\ wcall'[c] \in WindowCalls /\ CallBecomes(c, wcall'[c]) /\ OnlyGoes(wcall[c], wcall'[c])
         /\ wcall'[c].at = s /\ wcall'[c].h = wcall[c].h
<1> HIDE DEF WindowSteps, Kinds, Callbacks
<1>1. wcall[c] \in WindowCalls
  OBVIOUS
<1>2. CASE wcall' = [wcall EXCEPT ![c].at = s]
  BY <1>1, <1>2 DEF CallBecomes, OnlyGoes, StillAsks, WindowCalls
<1>3. ASSUME NEW n \in Nat, wcall' = [wcall EXCEPT ![c].at = s, ![c].tries = n]
      PROVE  wcall'[c] \in WindowCalls /\ CallBecomes(c, wcall'[c]) /\ OnlyGoes(wcall[c], wcall'[c])
             /\ wcall'[c].at = s /\ wcall'[c].h = wcall[c].h
  BY <1>1, <1>3 DEF CallBecomes, OnlyGoes, StillAsks, WindowCalls
<1>4. QED
  BY <1>2, <1>3

LEMMA CallTakes ==
  ASSUME wcall \in [WindowCallers -> WindowCalls], NEW c \in WindowCallers, NEW s \in WindowSteps, NEW h \in AnyWindow,
         wcall' = [wcall EXCEPT ![c].h = h, ![c].at = s]
  PROVE  /\ wcall'[c] \in WindowCalls /\ CallBecomes(c, wcall'[c]) /\ OnlyGoes(wcall[c], wcall'[c])
         /\ wcall'[c].at = s /\ wcall'[c].h = h
<1> HIDE DEF WindowSteps, Kinds, Callbacks
<1>1. wcall[c] \in WindowCalls
  OBVIOUS
<1>2. QED
  BY <1>1 DEF CallBecomes, OnlyGoes, StillAsks, WindowCalls

LEMMA CallIsNow ==
  ASSUME wcall \in [WindowCallers -> WindowCalls], NEW c \in WindowCallers, NEW f \in WindowCalls,
         wcall' = [wcall EXCEPT ![c] = f]
  PROVE  CallBecomes(c, f)
BY DEF CallBecomes

-----------------------------------------------------------------------------
(* Steps beside the enumerations.                                             *)
LEMMA AsideKeeps ==
  ASSUME WindowInv, NEW c \in WindowCallers, NEW f \in WindowCalls, CallBecomes(c, f),
         wcall[c].at # "walk", f.at # "walk", f.old = wcall[c].old \/ f.old = NoCallback,
         wcalls' \in Nat,
         InKind(f), Titled(f), ~ (f.at = "answered" /\ f.kind = "list"), InFrontOf(c)',
         \A d \in WindowCallers \ {c} : d \notin stirred' => d \notin stirred /\ foreground' = foreground,
         foreground' \in AnyWindow, lockHandle' \in AnyWindow,
         UNCHANGED <<zorder, enumCallback, joint>>
  PROVE  WindowInv'
<1>1. /\ wcall' \in [WindowCallers -> WindowCalls] /\ wcall'[c] = f
      /\ \A d \in WindowCallers \ {c} : wcall'[d] = wcall[d]
  BY DEF CallBecomes
<1>2. WindowTypes'
  BY <1>1 DEF WindowInv, WindowTypes
<1>3. Closures'
  <2>1. ASSUME NEW cb, CollectsFor(cb) PROVE cb.of \in WindowCallers =>
           wcall'[cb.of].at = "walk" /\ cb.take = wcall'[cb.of].take /\ cb.hint = wcall'[cb.of].hint
    BY <1>1, <2>1 DEF CollectsFor
  <2>2. CollectsFor(enumCallback)'
    BY <2>1 DEF WindowInv, Closures, CollectsFor
  <2>3. CollectsFor(NoCallback)
    BY NoCallbackIs DEF CollectsFor
  <2>4. ASSUME NEW d \in WindowCallers PROVE CollectsFor(wcall[d].old)' /\ wcall'[d].old.of # d
    <3>1. /\ CollectsFor(wcall[d].old) /\ wcall[d].old.of # d
          /\ wcall'[d].old = wcall[d].old \/ wcall'[d].old = NoCallback
      BY <1>1, <2>4 DEF WindowInv, Closures
    <3>2. CollectsFor(wcall[d].old)'
      BY <2>1, <2>3, <3>1 DEF CollectsFor
    <3>3. wcall'[d].old.of # d
      BY <2>4, <3>1, NoCallbackIs
    <3>4. QED
      BY <3>2, <3>3
  <2>5. QED
    BY <2>2, <2>4 DEF Closures
<1>5. \A d \in WindowCallers : InKind(wcall[d])' /\ Titled(wcall[d])'
  BY <1>1 DEF WindowInv, InKind, Titled
<1>6. \A d \in WindowCallers : InFrontOf(d)'
  BY <1>1 DEF WindowInv, InFrontOf
<1>7. ASSUME NEW d \in WindowCallers PROVE AloneLists(d)'
  <2>1. CASE d = c
    BY <1>1, <2>1 DEF AloneLists
  <2>2. CASE d # c
    <3>1. AloneLists(d) /\ wcall'[d] = wcall[d] /\ enumCallback' = enumCallback /\ joint' = joint
      BY <1>1, <1>7, <2>2 DEF WindowInv
    <3>2. \A e \in WindowCallers : wcall'[e].at = "walk" => wcall[e].at = "walk"
      BY <1>1
    <3>3. QED
      BY <3>1, <3>2 DEF AloneLists
  <2>3. QED
    BY <2>1, <2>2
<1>8. QED
  BY <1>2, <1>3, <1>5, <1>6, <1>7 DEF WindowInv

LEMMA OthersMove ==
  ASSUME WindowInv, UNCHANGED <<enumCallback, wcall, wcalls, joint>>,
         \A d \in WindowCallers : d \notin stirred' => d \notin stirred /\ foreground' = foreground,
         zorder' \in WindowLists, foreground' \in AnyWindow,
         lockHandle' \in AnyWindow
  PROVE  WindowInv'
<1>1. WindowTypes'
  BY DEF WindowInv, WindowTypes
<1>2. Closures'
  BY DEF WindowInv, Closures, CollectsFor
<1>4. \A d \in WindowCallers : InKind(wcall[d])' /\ Titled(wcall[d])'
  BY DEF WindowInv, InKind, Titled
<1>5. \A d \in WindowCallers : InFrontOf(d)'
  BY DEF WindowInv, InFrontOf
<1>6. \A d \in WindowCallers : AloneLists(d)'
  BY DEF WindowInv, AloneLists
<1>7. QED
  BY <1>1, <1>2, <1>4, <1>5, <1>6 DEF WindowInv

LEMMA WithoutOne ==
  ASSUME NEW s \in Seq(TopWindows), NEW i \in DOMAIN s
  PROVE  Without(s, i) \in Seq(TopWindows) /\ <<s[i]>> \o Without(s, i) \in Seq(TopWindows)
<1>1. i \in 1..Len(s) /\ Len(s) \in Nat
  OBVIOUS
<1>2. SubSeq(s, 1, i - 1) \in Seq(TopWindows)
  <2>1. 1 \in 1..(Len(s) + 1) /\ i - 1 \in 0..Len(s)
    BY <1>1
  <2>2. \A j \in 1..(i - 1) : s[j] \in TopWindows
    BY <1>1
  <2>3. QED
    BY <1>1, <2>1, <2>2, SubSeqProperties
<1>3. SubSeq(s, i + 1, Len(s)) \in Seq(TopWindows)
  <2>1. i + 1 \in 1..(Len(s) + 1) /\ Len(s) \in 0..Len(s)
    BY <1>1
  <2>2. \A j \in (i + 1)..Len(s) : s[j] \in TopWindows
    BY <1>1
  <2>3. QED
    BY <1>1, <2>1, <2>2, SubSeqProperties
<1>4. Without(s, i) \in Seq(TopWindows)
  BY <1>2, <1>3, ConcatProperties DEF Without
<1>5. <<s[i]>> \in Seq(TopWindows)
  OBVIOUS
<1>6. QED
  BY <1>4, <1>5, ConcatProperties

LEMMA UsersMove ==
  ASSUME WindowInv, NEW w \in TopWindows, UserFocuses(w) \/ WindowCloses(w)
  PROVE  WindowInv'
<1>1. zorder \in WindowLists /\ foreground \in AnyWindow /\ lockHandle \in AnyWindow
  BY DEF WindowInv, WindowTypes
<1>2. zorder' \in WindowLists /\ foreground' \in AnyWindow
  <2>1. ASSUME NEW i \in DOMAIN zorder
        PROVE  Without(zorder, i) \in WindowLists /\ <<zorder[i]>> \o Without(zorder, i) \in WindowLists
    BY <1>1, <2>1, WithoutOne DEF WindowLists
  <2>2. w \in AnyWindow /\ NoWindow \in AnyWindow
    BY DEF AnyWindow
  <2>3. CASE UserFocuses(w)
    BY <2>1, <2>2, <2>3 DEF UserFocuses
  <2>4. CASE WindowCloses(w)
    BY <1>1, <2>1, <2>2, <2>4 DEF WindowCloses
  <2>5. QED
    BY <2>3, <2>4
<1>3. UNCHANGED <<enumCallback, wcall, wcalls, joint, lockHandle>> /\ stirred' = WindowCallers
  BY DEF UserFocuses, WindowCloses, Moved
<1>4. QED
  BY <1>1, <1>2, <1>3, OthersMove

(* What becomes of a search that has found w, or nothing.                     *)
LEMMA FoundIs ==
  ASSUME NEW f \in WindowCalls, NEW w \in AnyWindow
  PROVE  /\ Found(f, w) \in WindowCalls /\ Found(f, w).old = NoCallback /\ Found(f, w).n = f.n
         /\ Found(f, w).kind = f.kind /\ Found(f, w).hint = f.hint
         /\ \/ Found(f, w).at = "answered" /\ f.kind \in {"find", "wait"} /\ Found(f, w).got[1] = w /\ Found(f, w).take = f.take
            \/ Found(f, w).at = "exact" /\ f.kind = "wait" /\ Found(f, w).take = f.take
            \/ Found(f, w).at \in {"set", "focus"} /\ f.kind \notin {"find", "wait"}
<1> DEFINE Fits(g, how) ==
             /\ g \in WindowCalls /\ g.at = how /\ g.kind = f.kind /\ g.hint = f.hint /\ g.take = f.take /\ g.n = f.n
             /\ g.old = NoCallback
<1>1. <<w>> \in GotLists /\ <<w>>[1] = w
  BY DEF GotLists
<1>2. "answered" \in WindowSteps /\ "exact" \in WindowSteps /\ "set" \in WindowSteps /\ "focus" \in WindowSteps
  BY DEF WindowSteps
<1>3. /\ Fits(Over(f, "answered", <<w>>), "answered") /\ Over(f, "answered", <<w>>).got = <<w>>
      /\ Fits(Over(f, "exact", <<>>), "exact") /\ Fits(Over(f, "set", <<>>), "set") /\ Fits(Over(f, "focus", <<>>), "focus")
  <2>1. Fits(Over(f, "answered", <<w>>), "answered") /\ Over(f, "answered", <<w>>).got = <<w>>
    BY <1>1, <1>2, OverIs
  <2>2. Fits(Over(f, "exact", <<>>), "exact")
    BY <1>2, EmptyLists, OverIs
  <2>3. Fits(Over(f, "set", <<>>), "set")
    BY <1>2, EmptyLists, OverIs
  <2>4. Fits(Over(f, "focus", <<>>), "focus")
    BY <1>2, EmptyLists, OverIs
  <2>5. QED
    BY <2>1, <2>2, <2>3, <2>4
<1>4. CASE f.kind = "find" \/ (f.kind = "wait" /\ w # NoWindow)
  <2>1. Found(f, w) = Over(f, "answered", <<w>>)
    BY <1>4 DEF Found
  <2>2. QED
    BY <1>1, <1>3, <1>4, <2>1
<1>5. CASE f.kind = "wait" /\ w = NoWindow
  <2>1. Found(f, w) = Over(f, "exact", <<>>)
    BY <1>5 DEF Found
  <2>2. QED
    BY <1>3, <1>5, <2>1
<1>6. CASE f.kind \notin {"find", "wait"} /\ w = NoWindow
  <2>1. Found(f, w) = [Over(f, "set", <<>>) EXCEPT !.take = "all"]
    BY <1>6 DEF Found
  <2>2. PICK g \in WindowCalls : g = Over(f, "set", <<>>) /\ g.at = "set" /\ g.kind = f.kind /\ g.hint = f.hint /\ g.n = f.n /\ g.old = NoCallback
    BY <1>3
  <2>3. [g EXCEPT !.take = "all"] \in WindowCalls /\ [g EXCEPT !.take = "all"].at = g.at
        /\ [g EXCEPT !.take = "all"].kind = g.kind /\ [g EXCEPT !.take = "all"].hint = g.hint
        /\ [g EXCEPT !.take = "all"].n = g.n /\ [g EXCEPT !.take = "all"].old = g.old
    BY <2>2 DEF WindowCalls
  <2>4. QED
    BY <1>6, <2>1, <2>2, <2>3
<1>7. CASE f.kind \notin {"find", "wait"} /\ w # NoWindow
  <2>1. Found(f, w) = [Over(f, "focus", <<>>) EXCEPT !.h = w]
    BY <1>7 DEF Found
  <2>2. PICK g \in WindowCalls : g = Over(f, "focus", <<>>) /\ g.at = "focus" /\ g.kind = f.kind /\ g.hint = f.hint /\ g.n = f.n /\ g.old = NoCallback
    BY <1>3
  <2>3. [g EXCEPT !.h = w] \in WindowCalls /\ [g EXCEPT !.h = w].at = g.at
        /\ [g EXCEPT !.h = w].kind = g.kind /\ [g EXCEPT !.h = w].hint = g.hint
        /\ [g EXCEPT !.h = w].n = g.n /\ [g EXCEPT !.h = w].old = g.old
    BY <2>2 DEF WindowCalls
  <2>4. QED
    BY <1>7, <2>1, <2>2, <2>3
<1>8. QED
  BY <1>4, <1>5, <1>6, <1>7

LEMMA WindowCallKeeps ==
  ASSUME WindowInv, NEW c \in WindowCallers, NEW q \in WindowRequests, WindowCall(c, q)
  PROVE  WindowInv'
<1>1. /\ wcall \in [WindowCallers -> WindowCalls] /\ wcalls \in Nat /\ foreground \in AnyWindow
      /\ lockHandle \in AnyWindow /\ wcall[c].at # "walk"
      /\ UNCHANGED <<zorder, foreground, moves, enumCallback, lockHandle, joint, stirred>> /\ wcalls' = wcalls + 1
  BY DEF WindowInv, WindowTypes, WindowCall, AtRest
<1>2. PICK f : f = Began(q)
  OBVIOUS
<1>3. /\ f.kind = q.kind /\ f.hint = q.hint /\ f.n = wcalls + 1 /\ f.old = NoCallback
      /\ f.take = (IF q.kind = "list" THEN "all" ELSE "one")
      /\ f.at = (CASE q.kind = "list" -> "set" [] q.kind \in {"focus", "screen"} -> q.kind
                   [] q.kind = "lock" -> "exists" [] OTHER -> "exact")
  BY <1>2 DEF Began
<1>4. q.kind \in Kinds /\ q.hint \in Hints /\ q.h \in AnyWindow
  BY WindowsAre
<1>5. f.at \in {"set", "focus", "screen", "exists", "exact"} /\ f.take \in {"all", "one"}
      /\ (q.kind \in {"find", "wait"} => f.at = "exact" /\ f.take = "one") /\ (q.kind = "list" => f.at = "set" /\ f.take = "all")
  BY <1>3, <1>4 DEF Kinds
<1>6. f \in WindowCalls
  <2> DEFINE at == CASE q.kind = "list" -> "set" [] q.kind \in {"focus", "screen"} -> q.kind
                   [] q.kind = "lock" -> "exists" [] OTHER -> "exact"
             take == IF q.kind = "list" THEN "all" ELSE "one"
  <2>1. at \in WindowSteps /\ take \in {"all", "one"} /\ wcalls + 1 \in Nat /\ 0 \in Nat
    BY <1>1, <1>3, <1>5 DEF WindowSteps
  <2>2. f = [at |-> at, kind |-> q.kind, hint |-> q.hint, h |-> q.h, take |-> take, n |-> wcalls + 1, walk |-> <<>>,
             shown |-> <<>>, got |-> <<>>, old |-> NoCallback, tries |-> 0]
    BY <1>2 DEF Began
  <2> HIDE DEF at, take
  <2>3. [at |-> at, kind |-> q.kind, hint |-> q.hint, h |-> q.h, take |-> take, n |-> wcalls + 1, walk |-> <<>>,
         shown |-> <<>>, got |-> <<>>, old |-> NoCallback, tries |-> 0] \in WindowCalls
    BY <1>4, <2>1, WindowCallWith, EmptyLists, NoCallbackIs
  <2>4. QED
    BY <2>2, <2>3
<1>7. CallBecomes(c, f)
  <2>1. wcall' = [wcall EXCEPT ![c] = f]
    BY <1>2 DEF WindowCall
  <2>2. QED
    BY <1>1, <1>6, <2>1, CallIsNow
<1>8. InKind(f) /\ Titled(f)
  BY <1>3, <1>5 DEF InKind, Titled
<1>9. InFrontOf(c)'
  BY <1>5, <1>7 DEF InFrontOf, CallBecomes
<1>10. f.at # "walk" /\ f.at # "answered"
  BY <1>5
<1>11. QED
  BY <1>1, <1>3, <1>6, <1>7, <1>8, <1>9, <1>10, AsideKeeps

LEMMA FindWindowKeeps ==
  ASSUME WindowInv, NEW c \in WindowCallers, FindWindowW(c) \/ WaitForWindowTimeout(c)
  PROVE  WindowInv'
<1>1. /\ wcall \in [WindowCallers -> WindowCalls] /\ zorder \in WindowLists /\ foreground \in AnyWindow
      /\ lockHandle \in AnyWindow /\ wcall[c].at = "exact" /\ wcall[c] \in WindowCalls
      /\ UNCHANGED <<zorder, foreground, enumCallback, lockHandle, wcalls, joint, stirred>>
      /\ InKind(wcall[c])
  BY DEF WindowInv, WindowTypes, FindWindowW, WaitForWindowTimeout
<1>2. wcall[c].kind # "list"
  BY <1>1 DEF InKind
<1>3. ASSUME NEW f \in WindowCalls, CallBecomes(c, f), f.kind = wcall[c].kind, f.hint = wcall[c].hint, f.n = wcall[c].n,
             f.old = wcall[c].old \/ f.old = NoCallback, f.at \notin {"walk", "act", "acted"},
             InKind(f), f.at = "answered" /\ f.kind \in {"find", "wait"} => f.hint \in Titles[f.got[1]]
      PROVE  WindowInv'
  <2>1. Titled(f) /\ InFrontOf(c)'
    BY <1>3 DEF Titled, InFrontOf, CallBecomes
  <2>2. wcalls' \in Nat
    BY <1>1 DEF WindowInv, WindowTypes
  <2>3. QED
    BY <1>1, <1>2, <1>3, <2>1, <2>2, AsideKeeps
<1>4. CASE wcall' = [wcall EXCEPT ![c].at = "set"]
  <2>0. "set" \in WindowSteps
    BY DEF WindowSteps
  <2>1. PICK f \in WindowCalls : CallBecomes(c, f) /\ OnlyGoes(wcall[c], f) /\ f.at = "set"
    BY <1>1, <1>4, <2>0, CallMoves
  <2>2. InKind(f)
    BY <1>1, <1>2, <2>1 DEF InKind, OnlyGoes, StillAsks
  <2>3. QED
    BY <1>3, <2>1, <2>2 DEF OnlyGoes, StillAsks
<1>5. ASSUME NEW i \in DOMAIN zorder, Titles[zorder[i]] = {wcall[c].hint},
             wcall' = [wcall EXCEPT ![c] = Found(wcall[c], zorder[i])]
      PROVE  WindowInv'
  <2>1. zorder[i] \in TopWindows
    BY <1>1, <1>5 DEF WindowLists
  <2>2. PICK f : f = Found(wcall[c], zorder[i])
    OBVIOUS
  <2>8. zorder[i] \in AnyWindow
    BY <2>1 DEF AnyWindow
  <2>3. f \in WindowCalls /\ CallBecomes(c, f)
    <3>1. f \in WindowCalls
      BY <1>1, <2>2, <2>8, FoundIs
    <3>2. QED
      BY <1>1, <1>5, <2>2, <3>1, CallIsNow
  <2>4. /\ f.old = NoCallback /\ f.n = wcall[c].n /\ f.kind = wcall[c].kind /\ f.hint = wcall[c].hint
        /\ \/ f.at = "answered" /\ f.kind \in {"find", "wait"} /\ f.got[1] = zorder[i] /\ f.take = wcall[c].take
           \/ f.at = "exact" /\ f.kind = "wait" /\ f.take = wcall[c].take
           \/ f.at \in {"set", "focus"} /\ f.kind \notin {"find", "wait"}
    BY <1>1, <2>2, <2>8, FoundIs
  <2>5. InKind(f)
    BY <1>1, <1>2, <2>4 DEF InKind
  <2>6. f.at = "answered" => f.hint \in Titles[f.got[1]]
    BY <1>5, <2>4
  <2>7. QED
    BY <1>3, <2>3, <2>4, <2>5, <2>6
<1>6. CASE Ends(c, "failed", <<>>)
  <2>1. PICK f : f = Over(wcall[c], "failed", <<>>)
    OBVIOUS
  <2>0. "failed" \in WindowSteps
    BY DEF WindowSteps
  <2>2. f \in WindowCalls /\ f.at = "failed" /\ f.kind = wcall[c].kind /\ f.hint = wcall[c].hint /\ f.n = wcall[c].n
        /\ f.old = NoCallback /\ f.take = wcall[c].take
    BY <1>1, <2>0, <2>1, OverIs, EmptyLists
  <2>3. CallBecomes(c, f) /\ InKind(f)
    BY <1>1, <1>2, <1>6, <2>1, <2>2, CallIsNow DEF Ends, InKind
  <2>4. QED
    BY <1>3, <2>2, <2>3
<1>7. QED
  BY <1>4, <1>5, <1>6 DEF FindWindowW, WaitForWindowTimeout

-----------------------------------------------------------------------------
(* Focusing a window, locking it, and typing into what is in front.           *)
LEMMA ToolKeeps ==
  ASSUME WindowInv, NEW c \in WindowCallers, NEW f \in WindowCalls, CallBecomes(c, f), StillAsks(wcall[c], f),
         wcall[c].at \in {"focus", "infront", "act", "exists", "lock", "screen", "gone?", "front?"},
         f.old = wcall[c].old \/ f.old = NoCallback, f.at # "walk",
         f.h # NoWindow /\ c \notin stirred' => (f.at = "act" => foreground' = f.h) /\ (f.at = "acted" => f.got[1] = f.h),
         \A d \in WindowCallers \ {c} : d \notin stirred' => d \notin stirred /\ foreground' = foreground,
         foreground' \in AnyWindow, lockHandle' \in AnyWindow,
         UNCHANGED <<zorder, enumCallback, wcalls, joint>>
  PROVE  WindowInv'
<1>1. f.kind \notin {"find", "wait", "list"} /\ f.n = wcall[c].n
  BY DEF WindowInv, InKind, StillAsks
<1>2. InKind(f) /\ Titled(f)
  <2>1. f.at # "walk"
    OBVIOUS
  <2>2. QED
    BY <1>1, <2>1 DEF InKind, Titled
<1>3. InFrontOf(c)'
  BY DEF InFrontOf, CallBecomes
<1>4. wcall[c].at # "walk" /\ f.at # "walk" /\ wcalls' \in Nat
  BY DEF WindowInv, WindowTypes
<1>5. QED
  BY <1>1, <1>2, <1>3, <1>4, AsideKeeps

LEMMA Desk ==
  WindowInv => /\ wcall \in [WindowCallers -> WindowCalls] /\ foreground \in AnyWindow /\ lockHandle \in AnyWindow
               /\ \A c \in WindowCallers : wcall[c] \in WindowCalls /\ wcall[c].h \in AnyWindow
<1>1. SUFFICES ASSUME WindowInv
      PROVE  /\ wcall \in [WindowCallers -> WindowCalls] /\ foreground \in AnyWindow /\ lockHandle \in AnyWindow
             /\ \A c \in WindowCallers : wcall[c] \in WindowCalls /\ wcall[c].h \in AnyWindow
  OBVIOUS
<1>2. wcall \in [WindowCallers -> WindowCalls] /\ foreground \in AnyWindow /\ lockHandle \in AnyWindow
  BY <1>1 DEF WindowInv, WindowTypes
<1>3. \A c \in WindowCallers : wcall[c] \in WindowCalls
  BY <1>2
<1>4. QED
  BY <1>2, <1>3, WindowCallFields

(* A call that ends without having typed.                                     *)
LEMMA EndsKeep ==
  ASSUME WindowInv, NEW c \in WindowCallers, NEW how \in {"answered", "failed", "panicked"}, Ends(c, how, <<>>),
         wcall[c].at \in {"focus", "infront", "act", "exists", "lock", "screen", "gone?", "front?"},
         lockHandle' \in AnyWindow, \A d \in WindowCallers \ {c} : d \notin stirred' => d \notin stirred,
         UNCHANGED <<zorder, foreground, enumCallback, wcalls, joint>>
  PROVE  WindowInv'
<1>1. PICK f : f = Over(wcall[c], how, <<>>)
  OBVIOUS
<1>2. how \in WindowSteps
  BY DEF WindowSteps
<1>3. f \in WindowCalls /\ f.at = how /\ f.kind = wcall[c].kind /\ f.hint = wcall[c].hint /\ f.take = wcall[c].take
      /\ f.n = wcall[c].n /\ f.old = NoCallback
  BY <1>1, <1>2, Desk, OverIs, EmptyLists
<1>4. CallBecomes(c, f)
  BY <1>1, <1>3, Desk, CallIsNow DEF Ends
<1>5. StillAsks(wcall[c], f) /\ f.at \notin {"walk", "act", "acted"}
  BY <1>3 DEF StillAsks
<1>6. foreground' \in AnyWindow
  BY Desk
<1>7. QED
  BY <1>3, <1>4, <1>5, <1>6, ToolKeeps

(* A call that goes on to another step.                                       *)
LEMMA GoesOnKeeps ==
  ASSUME WindowInv, NEW c \in WindowCallers, NEW s \in WindowSteps \ {"walk", "acted"},
         \/ wcall' = [wcall EXCEPT ![c].at = s]
         \/ \E n \in Nat : wcall' = [wcall EXCEPT ![c].at = s, ![c].tries = n],
         wcall[c].at \in {"focus", "infront", "act", "exists", "lock", "screen", "gone?", "front?"},
         s = "act" => foreground' = wcall[c].h,
         \A d \in WindowCallers \ {c} : d \notin stirred' => d \notin stirred /\ foreground' = foreground,
         foreground' \in AnyWindow, lockHandle' \in AnyWindow,
         UNCHANGED <<zorder, enumCallback, wcalls, joint>>
  PROVE  WindowInv'
<1>1. PICK f : f = wcall'[c]
  OBVIOUS
<1>2. /\ f \in WindowCalls /\ CallBecomes(c, f) /\ OnlyGoes(wcall[c], f) /\ f.at = s /\ f.h = wcall[c].h
  BY <1>1, Desk, CallMoves
<1>3. StillAsks(wcall[c], f) /\ f.old = wcall[c].old
  BY <1>2 DEF OnlyGoes
<1>4. s # "walk" /\ s # "acted"
  OBVIOUS
<1>5. QED
  BY <1>2, <1>3, <1>4, ToolKeeps

LEMMA FocusTryKeeps ==
  ASSUME WindowInv, NEW c \in WindowCallers, NEW granted \in BOOLEAN, FocusTry(c, granted)
  PROVE  WindowInv'
<1>1. "infront" \in WindowSteps \ {"walk", "acted"}
  BY DEF WindowSteps
<1>2. wcall[c].tries + 1 \in Nat
  BY Desk, WindowCallFields
<1>3. \E n \in Nat : wcall' = [wcall EXCEPT ![c].at = "infront", ![c].tries = n]
  BY <1>2 DEF FocusTry
<1>4. foreground' \in AnyWindow /\ lockHandle' \in AnyWindow
  BY Desk DEF FocusTry
<1>5. \A d \in WindowCallers \ {c} : d \notin stirred' => d \notin stirred /\ foreground' = foreground
  BY DEF FocusTry
<1>6. wcall[c].at = "focus" /\ UNCHANGED <<zorder, enumCallback, wcalls, joint>>
  BY DEF FocusTry
<1>7. QED
  BY <1>1, <1>3, <1>4, <1>5, <1>6, GoesOnKeeps

LEMMA FocusWindowKeeps ==
  ASSUME WindowInv, NEW c \in WindowCallers, FocusWindow(c)
  PROVE  WindowInv'
<1>1. /\ wcall[c].at = "infront" /\ foreground' = foreground /\ foreground' \in AnyWindow /\ lockHandle' \in AnyWindow
      /\ UNCHANGED <<zorder, foreground, enumCallback, wcalls, joint>>
      /\ \A d \in WindowCallers \ {c} : d \notin stirred' => d \notin stirred
  BY Desk DEF FocusWindow
<1>2. "act" \in WindowSteps \ {"walk", "acted"} /\ "focus" \in WindowSteps \ {"walk", "acted"} /\ 0 \in Nat
  BY DEF WindowSteps
<1>3. ASSUME NEW how \in {"answered", "failed"}, Ends(c, how, <<>>) PROVE WindowInv'
  BY <1>1, <1>3, EndsKeep
<1>4. CASE foreground = wcall[c].h /\ wcall' = [wcall EXCEPT ![c].at = "act", ![c].tries = 0]
  BY <1>1, <1>2, <1>4, GoesOnKeeps
<1>5. CASE wcall' = [wcall EXCEPT ![c].at = "focus"]
  BY <1>1, <1>2, <1>5, GoesOnKeeps
<1>6. QED
  BY <1>3, <1>4, <1>5 DEF FocusWindow, Focused

LEMMA ActOnFrontKeeps ==
  ASSUME WindowInv, NEW c \in WindowCallers, ActOnFront(c)
  PROVE  WindowInv'
<1>1. /\ wcall[c].at = "act" /\ foreground' \in AnyWindow /\ lockHandle' \in AnyWindow
      /\ UNCHANGED <<zorder, foreground, enumCallback, wcalls, joint, stirred>>
  BY Desk DEF ActOnFront
<1>2. CASE Ends(c, "panicked", <<>>)
  BY <1>1, <1>2, EndsKeep
<1>3. CASE Ends(c, "acted", <<foreground>>)
  <2>1. PICK f : f = Over(wcall[c], "acted", <<foreground>>)
    OBVIOUS
  <2>2. "acted" \in WindowSteps /\ <<foreground>> \in GotLists /\ <<foreground>>[1] = foreground
    BY Desk DEF WindowSteps, GotLists
  <2>3. f \in WindowCalls /\ f.at = "acted" /\ f.kind = wcall[c].kind /\ f.hint = wcall[c].hint /\ f.take = wcall[c].take
        /\ f.n = wcall[c].n /\ f.old = NoCallback /\ f.h = wcall[c].h /\ f.got = <<foreground>>
    BY <2>1, <2>2, Desk, OverIs
  <2>4. CallBecomes(c, f)
    BY <1>3, <2>1, <2>3, Desk, CallIsNow DEF Ends
  <2>5. StillAsks(wcall[c], f) /\ f.at # "walk" /\ f.at # "act"
    BY <2>3 DEF StillAsks
  <2>6. f.h # NoWindow /\ c \notin stirred' => f.got[1] = f.h
    BY <1>1, <2>2, <2>3 DEF WindowInv, InFrontOf
  <2>7. QED
    BY <1>1, <2>3, <2>4, <2>5, <2>6, ToolKeeps
<1>4. QED
  BY <1>2, <1>3 DEF ActOnFront

LEMMA LockKeeps ==
  ASSUME WindowInv, NEW c \in WindowCallers, SetWindowLock(c) \/ ClearWindowLock(c)
  PROVE  WindowInv'
<1>1. /\ foreground' \in AnyWindow /\ lockHandle' \in AnyWindow
      /\ UNCHANGED <<zorder, foreground, enumCallback, wcalls, joint, stirred>>
  BY Desk DEF SetWindowLock, ClearWindowLock, AnyWindow
<1>2. "lock" \in WindowSteps \ {"walk", "acted"}
  BY DEF WindowSteps
<1>3. CASE SetWindowLock(c)
  <2>1. wcall[c].at \in {"exists", "lock"}
    BY <1>3 DEF SetWindowLock
  <2>2. ASSUME NEW how \in {"answered", "failed"}, Ends(c, how, <<>>) PROVE WindowInv'
    BY <1>1, <2>1, <2>2, EndsKeep
  <2>3. CASE wcall' = [wcall EXCEPT ![c].at = "lock"]
    BY <1>1, <1>2, <2>1, <2>3, GoesOnKeeps
  <2>4. QED
    BY <1>3, <2>2, <2>3 DEF SetWindowLock
<1>4. CASE ClearWindowLock(c)
  <2>1. wcall' = wcall /\ zorder' \in WindowLists
    BY <1>4 DEF ClearWindowLock, WindowInv, WindowTypes
  <2>2. QED
    BY <1>1, <2>1, OthersMove
<1>5. QED
  BY <1>3, <1>4

LEMMA VerifyLockKeeps ==
  ASSUME WindowInv, NEW c \in WindowCallers, VerifyWindowLock(c)
  PROVE  WindowInv'
<1>1. /\ wcall[c].at \in {"screen", "gone?", "front?"} /\ foreground' \in AnyWindow /\ lockHandle' \in AnyWindow
      /\ UNCHANGED <<zorder, foreground, enumCallback, wcalls, joint>>
      /\ \A d \in WindowCallers \ {c} : d \notin stirred' => d \notin stirred
  BY Desk DEF VerifyWindowLock, AnyWindow
<1>2. /\ "act" \in WindowSteps \ {"walk", "acted"} /\ "focus" \in WindowSteps \ {"walk", "acted"}
      /\ "front?" \in WindowSteps \ {"walk", "acted"} /\ "gone?" \in WindowSteps
  BY DEF WindowSteps
<1>3. CASE Ends(c, "failed", <<>>)
  BY <1>1, <1>3, EndsKeep
<1>4. CASE wcall' = [wcall EXCEPT ![c].at = "front?"] \/ wcall' = [wcall EXCEPT ![c].at = "focus"]
  BY <1>1, <1>2, <1>4, GoesOnKeeps
<1>5. CASE foreground = wcall[c].h /\ wcall' = [wcall EXCEPT ![c].at = "act"]
  BY <1>1, <1>2, <1>5, GoesOnKeeps
<1>6. CASE wcall' = [wcall EXCEPT ![c].h = lockHandle, ![c].at = IF lockHandle = NoWindow THEN "act" ELSE "gone?"]
  <2>1. PICK f, s : f = wcall'[c] /\ s = (IF lockHandle = NoWindow THEN "act" ELSE "gone?")
    OBVIOUS
  <2>2. s \in WindowSteps /\ (s = "act" => lockHandle = NoWindow) /\ s # "acted" /\ s # "walk"
    BY <1>2, <2>1
  <2>3. wcall' = [wcall EXCEPT ![c].h = lockHandle, ![c].at = s]
    BY <1>6, <2>1
  <2>4. f \in WindowCalls /\ CallBecomes(c, f) /\ OnlyGoes(wcall[c], f) /\ f.at = s /\ f.h = lockHandle
    BY <2>1, <2>2, <2>3, Desk, CallTakes
  <2>5. StillAsks(wcall[c], f) /\ f.old = wcall[c].old
    BY <2>4 DEF OnlyGoes
  <2>6. QED
    BY <1>1, <2>2, <2>4, <2>5, ToolKeeps
<1>7. QED
  BY <1>3, <1>4, <1>5, <1>6 DEF VerifyWindowLock

-----------------------------------------------------------------------------
(* The windows of a list, counted as the enumeration comes by them.           *)
LEMMA AppsCounted ==
  ASSUME NEW s, NEW k \in Nat
  PROVE  /\ IsFiniteSet(AppsIn(s, k)) /\ Cardinality(AppsIn(s, k)) \in Nat
         /\ \A i \in AppsIn(s, k) : Cardinality(AppsIn(s, i)) \in 1..Cardinality(AppsIn(s, k))
<1>1. ASSUME NEW n \in Nat PROVE IsFiniteSet(AppsIn(s, n)) /\ Cardinality(AppsIn(s, n)) \in Nat
  <2>1. AppsIn(s, n) \in SUBSET (1..n)
    BY DEF AppsIn
  <2>2. IsFiniteSet(1..n)
    BY FS_Interval
  <2>3. IsFiniteSet(AppsIn(s, n))
    BY <2>1, <2>2, FS_Subset
  <2>4. QED
    BY <2>3, FS_CardinalityType
<1>2. ASSUME NEW i \in AppsIn(s, k) PROVE Cardinality(AppsIn(s, i)) \in 1..Cardinality(AppsIn(s, k))
  <2>1. i \in 1..k /\ i \in Nat /\ i \in AppsIn(s, i)
    BY <1>2 DEF AppsIn
  <2>2. AppsIn(s, i) \in SUBSET AppsIn(s, k)
    BY <2>1 DEF AppsIn
  <2>3. IsFiniteSet(AppsIn(s, i)) /\ Cardinality(AppsIn(s, i)) \in Nat /\ IsFiniteSet(AppsIn(s, k))
        /\ Cardinality(AppsIn(s, k)) \in Nat
    BY <1>1, <2>1
  <2>4. Cardinality(AppsIn(s, i)) # 0
    BY <2>1, <2>3, FS_EmptySet
  <2>5. Cardinality(AppsIn(s, i)) <= Cardinality(AppsIn(s, k))
    BY <2>2, <2>3, FS_Subset
  <2>6. QED
    BY <2>3, <2>4, <2>5
<1>3. QED
  BY <1>1, <1>2

LEMMA ListBegins ==
  ASSUME NEW s
  PROVE  ListOf(s, 0, <<>>)
<1>1. AppsIn(s, 0) = {}
  BY DEF AppsIn
<1>2. Cardinality(AppsIn(s, 0)) = 0
  BY <1>1, FS_EmptySet
<1>3. QED
  BY <1>1, <1>2 DEF ListOf

LEMMA ListGrows ==
  ASSUME NEW s \in WindowLists, NEW k \in 0..Len(s), NEW got \in GotLists, ListOf(s, k, got), k # Len(s)
  PROVE  /\ k + 1 \in 1..Len(s) /\ s[k + 1] \in TopWindows
         /\ Head(SubSeq(s, k + 1, Len(s))) = s[k + 1]
         /\ Tail(SubSeq(s, k + 1, Len(s))) = SubSeq(s, k + 1 + 1, Len(s))
         /\ IsAppWindow(s[k + 1]) => ListOf(s, k + 1, Append(got, s[k + 1]))
         /\ ~ IsAppWindow(s[k + 1]) => ListOf(s, k + 1, got)
<1>1. Len(s) \in Nat /\ k + 1 \in 1..Len(s) /\ s[k + 1] \in TopWindows /\ Len(s) \in (k + 1)..Len(s) /\ k \in Nat
  BY DEF WindowLists
<1>2. /\ Head(SubSeq(s, k + 1, Len(s))) = s[k + 1]
      /\ Tail(SubSeq(s, k + 1, Len(s))) = SubSeq(s, k + 1 + 1, Len(s))
  BY <1>1, HeadTailOfSubSeq DEF WindowLists
<1>3. IsFiniteSet(AppsIn(s, k)) /\ Cardinality(AppsIn(s, k)) \in Nat
      /\ \A i \in AppsIn(s, k) : Cardinality(AppsIn(s, i)) \in 1..Cardinality(AppsIn(s, k))
  BY <1>1, AppsCounted
<1>4. Len(got) = Cardinality(AppsIn(s, k)) /\ \A i \in AppsIn(s, k) : got[Cardinality(AppsIn(s, i))] = s[i]
  BY DEF ListOf
<1>5. CASE IsAppWindow(s[k + 1])
  <2>1. AppsIn(s, k + 1) = AppsIn(s, k) \cup {k + 1} /\ k + 1 \notin AppsIn(s, k)
    BY <1>1, <1>5 DEF AppsIn
  <2>2. Cardinality(AppsIn(s, k + 1)) = Cardinality(AppsIn(s, k)) + 1
    BY <1>3, <2>1, FS_AddElement
  <2>3. s[k + 1] \in AnyWindow
    BY <1>1 DEF AnyWindow
  <2>4. /\ Len(Append(got, s[k + 1])) = Len(got) + 1
        /\ \A i \in 1..Len(got) : Append(got, s[k + 1])[i] = got[i]
        /\ Append(got, s[k + 1])[Len(got) + 1] = s[k + 1]
    BY <2>3, AppendProperties DEF GotLists
  <2>5. ASSUME NEW i \in AppsIn(s, k + 1) PROVE Append(got, s[k + 1])[Cardinality(AppsIn(s, i))] = s[i]
    <3>1. CASE i \in AppsIn(s, k)
      <4>1. Cardinality(AppsIn(s, i)) \in 1..Len(got)
        BY <1>3, <1>4, <3>1
      <4>2. QED
        BY <1>4, <2>4, <3>1, <4>1
    <3>2. CASE i = k + 1
      BY <1>4, <2>2, <2>4, <3>2
    <3>3. QED
      BY <2>1, <2>5, <3>1, <3>2
  <2>6. QED
    BY <1>1, <1>2, <1>4, <1>5, <2>2, <2>4, <2>5 DEF ListOf
<1>6. CASE ~ IsAppWindow(s[k + 1])
  <2>1. AppsIn(s, k + 1) = AppsIn(s, k)
    BY <1>1, <1>6 DEF AppsIn
  <2>2. QED
    BY <1>1, <1>2, <1>4, <1>6, <2>1 DEF ListOf
<1>7. QED
  BY <1>5, <1>6

-----------------------------------------------------------------------------
(* Enumerating: a call sets its closure, and is alone or is not.              *)
LEMMA SetCallbackKeeps ==
  ASSUME WindowInv, NEW c \in WindowCallers, SetCallback(c)
  PROVE  WindowInv'
<1>1. /\ wcall \in [WindowCallers -> WindowCalls] /\ zorder \in WindowLists /\ foreground \in AnyWindow
      /\ lockHandle \in AnyWindow /\ wcalls \in Nat /\ enumCallback \in Callbacks /\ joint \subseteq Nat
      /\ wcall[c].at = "set" /\ wcall[c] \in WindowCalls
      /\ UNCHANGED <<zorder, foreground, moves, lockHandle, wcalls, stirred>>
  BY DEF WindowInv, WindowTypes, SetCallback
<1>2. PICK f : f = wcall'[c]
  OBVIOUS
<1>3. /\ f \in WindowCalls /\ wcall' \in [WindowCallers -> WindowCalls] /\ StillAsks(wcall[c], f)
      /\ f.at = "walk" /\ f.walk = zorder /\ f.shown = zorder /\ f.got = <<>> /\ f.old = enumCallback
      /\ \A d \in WindowCallers \ {c} : wcall'[d] = wcall[d]
  <2>1. "walk" \in WindowSteps
    BY DEF WindowSteps
  <2> HIDE DEF WindowSteps, Kinds, Callbacks
  <2>2. /\ f.at = "walk" /\ f.walk = zorder /\ f.shown = zorder /\ f.got = <<>> /\ f.old = enumCallback
        /\ f.kind = wcall[c].kind /\ f.hint = wcall[c].hint /\ f.take = wcall[c].take /\ f.n = wcall[c].n
        /\ \A d \in WindowCallers \ {c} : wcall'[d] = wcall[d]
    BY <1>1, <1>2 DEF SetCallback, WindowCalls
  <2>3. f \in WindowCalls
    BY <1>1, <1>2, <2>1, EmptyLists DEF SetCallback, WindowCalls
  <2>4. DOMAIN wcall' = WindowCallers /\ wcall' = [d \in WindowCallers |-> wcall'[d]]
    BY <1>1 DEF SetCallback
  <2>5. \A d \in WindowCallers : wcall'[d] \in WindowCalls
    BY <1>1, <1>2, <2>2, <2>3
  <2>6. wcall' \in [WindowCallers -> WindowCalls]
    BY <2>4, <2>5
  <2>7. QED
    BY <2>2, <2>3, <2>6 DEF StillAsks
<1>4. /\ f.kind = wcall[c].kind /\ f.hint = wcall[c].hint /\ f.take = wcall[c].take /\ f.n = wcall[c].n
  BY <1>3 DEF StillAsks
<1>5. WindowTypes'
  <2>1. enumCallback' = [of |-> c, take |-> wcall[c].take, hint |-> wcall[c].hint]
    BY DEF SetCallback
  <2>2. wcall[c].take \in {"all", "one"} /\ wcall[c].hint \in Hints
    BY <1>1, WindowCallFields
  <2>3. enumCallback' \in Callbacks
    BY <2>1, <2>2 DEF Callbacks
  <2>4. joint' \subseteq Nat
    <3>1. \A d \in WindowCallers : wcall[d].n \in Nat
      BY <1>1, WindowCallFields
    <3>2. QED
      BY <1>1, <3>1 DEF SetCallback, Walking
  <2>5. QED
    BY <1>1, <1>3, <2>3, <2>4 DEF WindowTypes
<1>6. Closures'
  <2>1. ASSUME NEW cb, CollectsFor(cb)
        PROVE  /\ cb.of # c
               /\ cb.of \in WindowCallers =>
                    wcall'[cb.of].at = "walk" /\ cb.take = wcall'[cb.of].take /\ cb.hint = wcall'[cb.of].hint
    BY <1>1, <1>3, <2>1 DEF CollectsFor
  <2>2. CollectsFor(enumCallback)'
    <3>1. enumCallback'.of = c /\ enumCallback'.take = wcall[c].take /\ enumCallback'.hint = wcall[c].hint
      BY DEF SetCallback
    <3>2. QED
      BY <1>2, <1>3, <1>4, <3>1 DEF CollectsFor
  <2>3. ASSUME NEW d \in WindowCallers PROVE CollectsFor(wcall[d].old)' /\ wcall'[d].old.of # d
    <3>1. CollectsFor(wcall[d].old) /\ wcall[d].old.of # d /\ CollectsFor(enumCallback)
      BY <2>3 DEF WindowInv, Closures
    <3>2. CASE d = c
      <4>1. wcall'[d].old = enumCallback
        BY <1>2, <1>3, <3>2
      <4>2. QED
        BY <2>1, <3>1, <3>2, <4>1 DEF CollectsFor
    <3>3. CASE d # c
      <4>1. wcall'[d].old = wcall[d].old
        BY <1>3, <3>3
      <4>2. QED
        BY <2>1, <3>1, <4>1 DEF CollectsFor
    <3>4. QED
      BY <3>2, <3>3
  <2>4. QED
    BY <2>2, <2>3 DEF Closures
<1>7. \A d \in WindowCallers : InKind(wcall[d])' /\ Titled(wcall[d])' /\ InFrontOf(d)'
  <2>1. InKind(f) /\ Titled(f)
    BY <1>1, <1>3, <1>4 DEF WindowInv, InKind, Titled
  <2>2. InFrontOf(c)'
    BY <1>2, <1>3 DEF InFrontOf
  <2>3. ASSUME NEW d \in WindowCallers \ {c} PROVE InKind(wcall[d])' /\ Titled(wcall[d])' /\ InFrontOf(d)'
    BY <1>1, <1>3, <2>3 DEF WindowInv, InKind, Titled, InFrontOf
  <2>4. QED
    BY <1>2, <2>1, <2>2, <2>3 DEF InKind, Titled
<1>8. ASSUME NEW d \in WindowCallers PROVE AloneLists(d)'
  <2>1. CASE d = c
    <3>1. SUFFICES ASSUME f.n \notin joint'
          PROVE  /\ enumCallback'.of = c /\ \A e \in WindowCallers : wcall'[e].at = "walk" => e = c
                 /\ \E k \in 0..Len(f.shown) : /\ f.walk = SubSeq(f.shown, k + 1, Len(f.shown))
                                               /\ ListOf(f.shown, k, f.got)
      BY <1>2, <1>3, <2>1 DEF AloneLists
    <3>2. Walking = {}
      BY <1>4, <3>1 DEF SetCallback
    <3>3. \A e \in WindowCallers : wcall'[e].at = "walk" => e = c
      BY <1>3, <3>2 DEF Walking
    <3>4. enumCallback'.of = c
      BY DEF SetCallback
    <3>5. 0 \in 0..Len(zorder) /\ zorder = SubSeq(zorder, 0 + 1, Len(zorder))
      BY <1>1, SubSeqFull DEF WindowLists
    <3>6. ListOf(zorder, 0, <<>>)
      BY ListBegins
    <3>7. QED
      BY <1>3, <3>3, <3>4, <3>5, <3>6
  <2>2. CASE d # c
    <3>1. wcall'[d] = wcall[d] /\ AloneLists(d)
      BY <1>3, <1>8, <2>2 DEF WindowInv
    <3>2. joint \subseteq joint' /\ (wcall[d].at = "walk" => wcall[d].n \in joint')
      BY <1>8 DEF SetCallback, Walking
    <3>3. QED
      BY <3>1, <3>2 DEF AloneLists
  <2>3. QED
    BY <2>1, <2>2
<1>9. QED
  BY <1>5, <1>6, <1>7, <1>8 DEF WindowInv

(* The closure of an enumeration that is over collects for nobody.            *)
LEMMA SpentIs ==
  ASSUME NEW cb \in Callbacks, CollectsFor(cb), NEW c \in WindowCallers
  PROVE  /\ Spent(cb, c) \in Callbacks /\ CollectsFor(Spent(cb, c)) /\ Spent(cb, c).of # c
         /\ \A d \in WindowCallers : cb.of # d => Spent(cb, c).of # d
<1>1. NoWindow \notin WindowCallers
  BY WindowsAre
<1>2. CASE cb.of = c
  <2>1. Spent(cb, c) = [of |-> NoWindow, take |-> cb.take, hint |-> cb.hint]
    BY <1>2 DEF Spent
  <2>2. cb.take \in {"none", "all", "one"} /\ cb.hint \in Hints
    BY DEF Callbacks
  <2>3. Spent(cb, c) \in Callbacks /\ Spent(cb, c).of = NoWindow
    BY <2>1, <2>2 DEF Callbacks
  <2>4. QED
    BY <1>1, <2>3 DEF CollectsFor
<1>3. CASE cb.of # c
  BY <1>3 DEF Spent
<1>4. QED
  BY <1>2, <1>3

LEMMA WalkEndsKeeps ==
  ASSUME WindowInv, NEW c \in WindowCallers, wcall[c].at = "walk", NEW g \in WindowCalls, WalkEnds(c, g),
         g.at \notin {"walk", "act", "acted"}, g.old = NoCallback, InKind(g), Titled(g),
         g.at = "answered" /\ g.kind = "list" /\ g.n \notin joint => ListOf(g.shown, Len(g.shown), g.got),
         NEW cb \in Callbacks, CollectsFor(cb), cb.of # c, enumCallback' = cb,
         UNCHANGED <<zorder, foreground, lockHandle, wcalls, joint, stirred>>
  PROVE  WindowInv'
<1>1. wcall \in [WindowCallers -> WindowCalls] /\ WindowTypes
  BY DEF WindowInv, WindowTypes
<1>2. wcall'[c] = g
  BY DEF WalkEnds
<1>3. ASSUME NEW d \in WindowCallers \ {c}
      PROVE  /\ wcall'[d] \in WindowCalls /\ wcall'[d].at = wcall[d].at /\ wcall'[d].kind = wcall[d].kind
             /\ wcall'[d].hint = wcall[d].hint /\ wcall'[d].h = wcall[d].h /\ wcall'[d].take = wcall[d].take
             /\ wcall'[d].n = wcall[d].n /\ wcall'[d].shown = wcall[d].shown /\ wcall'[d].got = wcall[d].got
             /\ wcall'[d].old = Spent(wcall[d].old, c)
  <2>1. PICK f : f = wcall[d]
    OBVIOUS
  <2>2. f \in WindowCalls /\ CollectsFor(f.old)
    BY <1>1, <2>1 DEF WindowInv, Closures
  <2>3. PICK old : old = Spent(f.old, c)
    OBVIOUS
  <2>4. old \in Callbacks
    BY <2>2, <2>3, SpentIs, WindowCallFields
  <2>5. wcall'[d] = [f EXCEPT !.old = old]
    BY <2>1, <2>3 DEF WalkEnds
  <2>6. QED
    BY <2>1, <2>2, <2>3, <2>4, <2>5 DEF WindowCalls
<1>4. WindowTypes'
  <2>1. wcall' \in [WindowCallers -> WindowCalls]
    <3>1. \A d \in WindowCallers : wcall'[d] \in WindowCalls
      BY <1>2, <1>3
    <3>2. DOMAIN wcall' = WindowCallers /\ wcall' = [d \in WindowCallers |-> wcall'[d]]
      BY DEF WalkEnds
    <3>3. QED
      BY <3>1, <3>2
  <2>2. QED
    BY <1>1, <2>1 DEF WindowTypes
<1>5. Closures'
  <2>1. ASSUME NEW x, CollectsFor(x), x.of # c
        PROVE  x.of \in WindowCallers =>
                 wcall'[x.of].at = "walk" /\ x.take = wcall'[x.of].take /\ x.hint = wcall'[x.of].hint
    BY <1>3, <2>1 DEF CollectsFor
  <2>2. CollectsFor(enumCallback)'
    BY <2>1 DEF CollectsFor
  <2>3. CollectsFor(wcall[c].old)' /\ wcall'[c].old.of # c
    BY <1>2, NoCallbackIs DEF CollectsFor
  <2>4. ASSUME NEW d \in WindowCallers \ {c} PROVE CollectsFor(wcall[d].old)' /\ wcall'[d].old.of # d
    <3>1. PICK old : old = Spent(wcall[d].old, c)
      OBVIOUS
    <3>2. wcall[d].old \in Callbacks /\ CollectsFor(wcall[d].old) /\ wcall[d].old.of # d
      BY <1>1, WindowCallFields DEF WindowInv, Closures
    <3>3. CollectsFor(old) /\ old.of # c /\ old.of # d
      BY <3>1, <3>2, SpentIs
    <3>4. wcall'[d].old = old
      BY <1>3, <3>1
    <3>5. QED
      BY <2>1, <3>3, <3>4 DEF CollectsFor
  <2>5. QED
    BY <2>2, <2>3, <2>4 DEF Closures
<1>6. \A d \in WindowCallers : InKind(wcall[d])' /\ Titled(wcall[d])' /\ InFrontOf(d)'
  <2>1. InKind(wcall[c])' /\ Titled(wcall[c])' /\ InFrontOf(c)'
    BY <1>2 DEF InKind, Titled, InFrontOf
  <2>2. ASSUME NEW d \in WindowCallers \ {c} PROVE InKind(wcall[d])' /\ Titled(wcall[d])' /\ InFrontOf(d)'
    BY <1>3, <2>2 DEF WindowInv, InKind, Titled, InFrontOf
  <2>3. QED
    BY <2>1, <2>2
<1>7. ASSUME NEW d \in WindowCallers PROVE AloneLists(d)'
  <2>1. CASE d = c
    BY <1>2, <2>1 DEF AloneLists
  <2>2. CASE d # c
    <3>1. AloneLists(d) /\ d \in WindowCallers \ {c}
      BY <1>7, <2>2 DEF WindowInv
    <3>2. wcall[d].at = "walk" => wcall[d].n \in joint
      BY <2>2, <3>1 DEF AloneLists
    <3>3. QED
      BY <1>3, <3>1, <3>2 DEF AloneLists
  <2>3. QED
    BY <2>1, <2>2
<1>8. QED
  BY <1>4, <1>5, <1>6, <1>7 DEF WindowInv

(* A window goes to a closure, which only the calls that walk can notice.     *)
GoesBy(f, g) ==
  /\ g.at = f.at /\ g.kind = f.kind /\ g.hint = f.hint /\ g.h = f.h /\ g.take = f.take /\ g.n = f.n
  /\ g.shown = f.shown /\ g.old = f.old
  /\ f.at # "walk" => g.got = f.got

LEMMA WalkGoesKeeps ==
  ASSUME WindowInv, NEW c \in WindowCallers, wcall[c].at = "walk", wcall' \in [WindowCallers -> WindowCalls],
         \A d \in WindowCallers : GoesBy(wcall[d], wcall'[d]) /\ Titled(wcall[d])',
         wcall[c].n \notin joint /\ wcall[c].take = "all" =>
           \E k \in 0..Len(wcall[c].shown) : /\ wcall'[c].walk = SubSeq(wcall[c].shown, k + 1, Len(wcall[c].shown))
                                             /\ ListOf(wcall[c].shown, k, wcall'[c].got),
         UNCHANGED <<zorder, foreground, enumCallback, lockHandle, wcalls, joint, stirred>>
  PROVE  WindowInv'
<1>1. WindowTypes'
  BY DEF WindowInv, WindowTypes
<1>2. Closures'
  BY DEF WindowInv, Closures, CollectsFor, GoesBy
<1>3. \A d \in WindowCallers : InKind(wcall[d])' /\ InFrontOf(d)'
  BY DEF WindowInv, InKind, InFrontOf, GoesBy
<1>4. ASSUME NEW d \in WindowCallers PROVE AloneLists(d)'
  <2>1. AloneLists(d) /\ AloneLists(c) /\ GoesBy(wcall[d], wcall'[d])
    BY <1>4 DEF WindowInv
  <2>2. \A e \in WindowCallers : wcall'[e].at = wcall[e].at
    BY DEF GoesBy
  <2>3. CASE d = c
    BY <2>1, <2>2, <2>3 DEF AloneLists, GoesBy
  <2>4. CASE d # c
    <3>1. wcall[d].at = "walk" => wcall[d].n \in joint
      BY <1>4, <2>1, <2>4 DEF AloneLists
    <3>2. QED
      BY <2>1, <3>1 DEF AloneLists, GoesBy
  <2>5. QED
    BY <2>3, <2>4
<1>5. QED
  BY <1>1, <1>2, <1>3, <1>4 DEF WindowInv

LEMMA EnumProcKeeps ==
  ASSUME WindowInv, NEW c \in WindowCallers, windowEnumProc(c)
  PROVE  WindowInv'
<1>1. /\ wcall \in [WindowCallers -> WindowCalls] /\ wcall[c].at = "walk" /\ wcall[c].walk # <<>>
      /\ wcall[c] \in WindowCalls /\ enumCallback \in Callbacks /\ CollectsFor(enumCallback)
      /\ UNCHANGED <<zorder, foreground, lockHandle, wcalls, joint, stirred>>
  BY DEF WindowInv, WindowTypes, Closures, windowEnumProc
<1>2. PICK f : f = wcall[c]
  OBVIOUS
<1>3. PICK w : w = Head(f.walk)
  OBVIOUS
<1>4. PICK cb : cb = enumCallback
  OBVIOUS
<1>5. PICK rest : rest = IF cb.take = "one" /\ Takes(cb, w) THEN <<>> ELSE Tail(f.walk)
  OBVIOUS
<1>6. w \in TopWindows /\ w \in AnyWindow /\ rest \in WindowLists /\ Tail(f.walk) \in WindowLists
  <2>1. f.walk \in Seq(TopWindows) /\ f.walk # <<>>
    BY <1>1, <1>2, WindowCallFields DEF WindowLists
  <2>2. Head(f.walk) \in TopWindows /\ Tail(f.walk) \in Seq(TopWindows)
    BY <2>1, HeadTailProperties
  <2>3. QED
    BY <1>3, <1>5, <2>2, EmptyLists DEF AnyWindow, WindowLists
<1>7. CASE cb = NoCallback /\ WalkEnds(c, Over(f, "panicked", <<>>))
           /\ enumCallback' = IF f.take = "one" THEN f.old ELSE enumCallback
  <2>1. PICK g : g = Over(f, "panicked", <<>>)
    OBVIOUS
  <2>2. "panicked" \in WindowSteps
    BY DEF WindowSteps
  <2>3. g \in WindowCalls /\ g.at = "panicked" /\ g.kind = f.kind /\ g.take = f.take /\ g.old = NoCallback
    BY <1>1, <1>2, <2>1, <2>2, OverIs, EmptyLists
  <2>4. InKind(g) /\ Titled(g)
    BY <1>1, <1>2, <2>3 DEF WindowInv, InKind, Titled
  <2>5. PICK x : x = enumCallback'
    OBVIOUS
  <2>6. x \in Callbacks /\ CollectsFor(x) /\ x.of # c
    <3>1. f.old \in Callbacks /\ CollectsFor(f.old) /\ f.old.of # c
      BY <1>1, <1>2, WindowCallFields DEF WindowInv, Closures
    <3>2. QED
      BY <1>1, <1>4, <1>7, <2>5, <3>1, NoCallbackIs
  <2>7. WalkEnds(c, g)
    BY <1>7, <2>1
  <2>8. QED
    BY <1>1, <2>3, <2>4, <2>5, <2>6, <2>7, WalkEndsKeeps
<1>8. AloneLists(c) /\ InKind(f) /\ Titled(f)
  BY <1>2 DEF WindowInv
<1>9. ASSUME f.n \notin joint, f.take = "all"
      PROVE  /\ cb.of = c /\ cb # NoCallback /\ rest = Tail(f.walk) /\ (Takes(cb, w) <=> IsAppWindow(w)) /\ cb.take = "all"
             /\ \E k \in 0..Len(f.shown) :
                  /\ rest = SubSeq(f.shown, k + 1, Len(f.shown))
                  /\ IsAppWindow(w) => ListOf(f.shown, k, Append(f.got, w))
                  /\ ~ IsAppWindow(w) => ListOf(f.shown, k, f.got)
  <2>1. cb.of = c /\ cb # NoCallback /\ cb.take = "all"
    BY <1>1, <1>2, <1>4, <1>8, <1>9, NoCallbackIs DEF AloneLists, CollectsFor
  <2>2. PICK k \in 0..Len(f.shown) : f.walk = SubSeq(f.shown, k + 1, Len(f.shown)) /\ ListOf(f.shown, k, f.got)
    BY <1>1, <1>2, <1>8, <1>9 DEF AloneLists
  <2>3. f.shown \in WindowLists /\ f.got \in GotLists /\ Len(f.shown) \in Nat
    BY <1>1, <1>2, WindowCallFields DEF WindowLists
  <2>4. k # Len(f.shown)
    <3>1. SUFFICES ASSUME k = Len(f.shown) PROVE FALSE
      OBVIOUS
    <3>2. SubSeq(f.shown, k + 1, Len(f.shown)) = <<>>
      BY <2>3, <3>1, SubSeqEmpty
    <3>3. QED
      BY <1>1, <1>2, <2>2, <3>2
  <2>5. /\ k + 1 \in 1..Len(f.shown) /\ w = f.shown[k + 1]
        /\ Tail(f.walk) = SubSeq(f.shown, k + 1 + 1, Len(f.shown))
        /\ IsAppWindow(w) => ListOf(f.shown, k + 1, Append(f.got, w))
        /\ ~ IsAppWindow(w) => ListOf(f.shown, k + 1, f.got)
    BY <1>3, <2>2, <2>3, <2>4, ListGrows
  <2>6. k + 1 \in 0..Len(f.shown)
    BY <2>3, <2>5
  <2>7. rest = Tail(f.walk) /\ (Takes(cb, w) <=> IsAppWindow(w))
    BY <1>5, <2>1 DEF Takes
  <2>8. QED
    BY <2>1, <2>5, <2>6, <2>7
<1>10. CASE cb # NoCallback /\ cb.of \in WindowCallers /\ Takes(cb, w) /\ enumCallback' = enumCallback
            /\ wcall' = [wcall EXCEPT ![c].walk = rest,
                           ![cb.of].got = IF cb.take = "all" THEN Append(wcall[cb.of].got, w) ELSE <<w>>]
  <2>1. PICK e \in WindowCallers : e = cb.of
    BY <1>10
  <2>2. PICK got : got = IF cb.take = "all" THEN Append(wcall[e].got, w) ELSE <<w>>
    OBVIOUS
  <2>3. wcall[e].at = "walk" /\ cb.take = wcall[e].take /\ cb.hint = wcall[e].hint /\ wcall[e] \in WindowCalls
        /\ wcall[e].take \in {"all", "one"}
    BY <1>1, <1>4, <2>1, WindowCallFields DEF CollectsFor
  <2>4. got \in GotLists /\ (cb.take = "one" => got[1] = w)
    <3>1. wcall[e].got \in GotLists
      BY <2>3, WindowCallFields
    <3>2. Append(wcall[e].got, w) \in GotLists /\ <<w>> \in GotLists /\ <<w>>[1] = w
      BY <1>6, <3>1, AppendProperties DEF GotLists
    <3>3. QED
      BY <2>2, <3>2
  <2>5. /\ wcall' \in [WindowCallers -> WindowCalls] /\ \A d \in WindowCallers : GoesBy(wcall[d], wcall'[d])
        /\ wcall'[c].walk = rest /\ wcall'[e].got = got /\ \A d \in WindowCallers \ {e} : wcall'[d].got = wcall[d].got
    <3>1. wcall' = [wcall EXCEPT ![c].walk = rest, ![e].got = got]
      BY <1>10, <2>1, <2>2
    <3> HIDE DEF WindowSteps, Kinds, Callbacks, WindowLists, GotLists, Hints, AnyWindow
    <3>2. \A d \in WindowCallers : wcall[d] \in WindowCalls
      BY <1>1
    <3>3. QED
      BY <1>1, <1>6, <2>3, <2>4, <3>1, <3>2 DEF GoesBy, WindowCalls
  <2>6. ASSUME NEW d \in WindowCallers PROVE Titled(wcall[d])'
    <3>1. Titled(wcall[d]) /\ GoesBy(wcall[d], wcall'[d])
      BY <2>5, <2>6 DEF WindowInv
    <3>2. CASE d = e
      <4>1. wcall'[d].take = "one" => wcall'[d].hint \in Titles[wcall'[d].got[1]]
        BY <1>10, <2>3, <2>4, <2>5, <3>1, <3>2 DEF Takes, GoesBy
      <4>2. QED
        BY <2>3, <3>1, <3>2, <4>1 DEF Titled, GoesBy
    <3>3. CASE d # e
      BY <2>5, <3>1, <3>3 DEF Titled, GoesBy
    <3>4. QED
      BY <3>2, <3>3
  <2>7. ASSUME f.n \notin joint, f.take = "all"
        PROVE  \E k \in 0..Len(f.shown) : /\ wcall'[c].walk = SubSeq(f.shown, k + 1, Len(f.shown))
                                          /\ ListOf(f.shown, k, wcall'[c].got)
    <3>1. e = c /\ got = Append(f.got, w) /\ IsAppWindow(w)
      BY <1>2, <1>9, <1>10, <2>1, <2>2, <2>7
    <3>2. QED
      BY <1>9, <2>5, <2>7, <3>1
  <2>8. QED
    BY <1>1, <1>2, <1>10, <2>5, <2>6, <2>7, WalkGoesKeeps
<1>11. CASE cb # NoCallback /\ ~ (cb.of \in WindowCallers /\ Takes(cb, w)) /\ enumCallback' = enumCallback
            /\ wcall' = [wcall EXCEPT ![c].walk = rest]
  <2>1. /\ wcall' \in [WindowCallers -> WindowCalls] /\ \A d \in WindowCallers : GoesBy(wcall[d], wcall'[d])
        /\ wcall'[c].walk = rest /\ \A d \in WindowCallers : wcall'[d].got = wcall[d].got
    <3> HIDE DEF WindowSteps, Kinds, Callbacks, WindowLists, GotLists, Hints, AnyWindow
    <3>1. \A d \in WindowCallers : wcall[d] \in WindowCalls
      BY <1>1
    <3>2. QED
      BY <1>1, <1>6, <1>11, <3>1 DEF GoesBy, WindowCalls
  <2>2. \A d \in WindowCallers : Titled(wcall[d])'
    BY <2>1 DEF WindowInv, Titled, GoesBy
  <2>3. ASSUME f.n \notin joint, f.take = "all"
        PROVE  \E k \in 0..Len(f.shown) : /\ wcall'[c].walk = SubSeq(f.shown, k + 1, Len(f.shown))
                                          /\ ListOf(f.shown, k, wcall'[c].got)
    BY <1>2, <1>9, <1>11, <2>1, <2>3
  <2>4. QED
    BY <1>1, <1>2, <1>11, <2>1, <2>2, <2>3, WalkGoesKeeps
<1>12. QED
  BY <1>2, <1>3, <1>4, <1>5, <1>7, <1>10, <1>11 DEF windowEnumProc

LEMMA EnumEndsKeeps ==
  ASSUME WindowInv, NEW c \in WindowCallers, EnumWindowsEnds(c)
  PROVE  WindowInv'
<1>1. PICK f : f = wcall[c]
  OBVIOUS
<1>2. /\ f \in WindowCalls /\ f.at = "walk" /\ f.walk = <<>> /\ InKind(f) /\ Titled(f) /\ AloneLists(c)
      /\ f.old \in Callbacks /\ CollectsFor(f.old) /\ f.old.of # c /\ enumCallback \in Callbacks /\ CollectsFor(enumCallback)
      /\ wcall[c].at = "walk" /\ UNCHANGED <<zorder, foreground, lockHandle, wcalls, joint, stirred>>
  BY <1>1, WindowCallFields DEF WindowInv, WindowTypes, Closures, EnumWindowsEnds
<1>3. f.take \in {"all", "one"} /\ f.got \in GotLists /\ f.shown \in WindowLists
  BY <1>2, WindowCallFields
<1>4. \A i \in DOMAIN f.got : f.got[i] \in AnyWindow
  BY <1>3 DEF GotLists
<1>5. "answered" \in WindowSteps /\ "failed" \in WindowSteps /\ "focus" \in WindowSteps
  BY DEF WindowSteps
<1>6. CASE f.take = "one" /\ enumCallback' = f.old /\ WalkEnds(c, Found(f, IF f.got = <<>> THEN NoWindow ELSE f.got[1]))
  <2>1. PICK w : w = IF f.got = <<>> THEN NoWindow ELSE f.got[1]
    OBVIOUS
  <2>2. w \in AnyWindow /\ (w = NoWindow \/ f.hint \in Titles[w])
    <3>1. f.got # <<>> => 1 \in DOMAIN f.got
      BY <1>3 DEF GotLists
    <3>2. QED
      BY <1>2, <1>4, <1>6, <2>1, <3>1 DEF Titled, AnyWindow
  <2>3. PICK g : g = Found(f, w)
    OBVIOUS
  <2>4. /\ g \in WindowCalls /\ g.old = NoCallback /\ g.kind = f.kind /\ g.hint = f.hint
        /\ \/ g.at = "answered" /\ f.kind \in {"find", "wait"} /\ g.got[1] = w /\ g.take = f.take
           \/ g.at = "exact" /\ f.kind = "wait" /\ g.take = f.take
           \/ g.at \in {"set", "focus"} /\ f.kind \notin {"find", "wait"}
    BY <1>2, <2>2, <2>3, FoundIs
  <2>5. f.kind # "list"
    BY <1>2, <1>6 DEF InKind
  <2>6. InKind(g) /\ Titled(g) /\ g.at \notin {"walk", "act", "acted"}
    BY <1>6, <2>2, <2>4, <2>5 DEF InKind, Titled
  <2>7. WalkEnds(c, g)
    BY <1>6, <2>1, <2>3
  <2>8. QED
    BY <1>2, <1>6, <2>4, <2>5, <2>6, <2>7, WalkEndsKeeps
<1>7. ASSUME f.take = "all", enumCallback' = Spent(enumCallback, c), NEW g \in WindowCalls, WalkEnds(c, g),
             g.kind = f.kind, g.take = f.take, g.old = NoCallback, g.at \in {"answered", "failed", "focus"},
             g.at = "focus" => f.kind # "list",
             g.at = "answered" => g.kind = "list" /\ (g.n \notin joint => ListOf(g.shown, Len(g.shown), g.got))
      PROVE  WindowInv'
  <2>1. PICK x : x = Spent(enumCallback, c)
    OBVIOUS
  <2>2. x \in Callbacks /\ CollectsFor(x) /\ x.of # c /\ enumCallback' = x
    BY <1>2, <1>7, <2>1, SpentIs
  <2>3. f.kind \notin {"find", "wait"}
    BY <1>2, <1>7 DEF InKind
  <2>4. InKind(g) /\ Titled(g) /\ g.at \notin {"walk", "act", "acted"}
    BY <1>7, <2>3 DEF InKind, Titled
  <2>5. QED
    BY <1>2, <1>7, <2>2, <2>4, WalkEndsKeeps
<1>8. CASE f.take = "all" /\ enumCallback' = Spent(enumCallback, c) /\ f.kind = "list"
           /\ WalkEnds(c, Over(f, "answered", f.got))
  <2>1. PICK g : g = Over(f, "answered", f.got)
    OBVIOUS
  <2>2. g \in WindowCalls /\ g.at = "answered" /\ g.got = f.got /\ g.kind = f.kind /\ g.take = f.take /\ g.n = f.n
        /\ g.old = NoCallback /\ g.shown = f.shown
    BY <1>2, <1>3, <1>5, <1>8, <2>1, OverIs
  <2>3. ASSUME f.n \notin joint PROVE ListOf(f.shown, Len(f.shown), f.got)
    <3>1. PICK k \in 0..Len(f.shown) : f.walk = SubSeq(f.shown, k + 1, Len(f.shown)) /\ ListOf(f.shown, k, f.got)
      BY <1>1, <1>2, <1>8, <2>3 DEF AloneLists
    <3>2. f.shown \in Seq(TopWindows) /\ Len(f.shown) \in Nat
      BY <1>3 DEF WindowLists
    <3>3. ASSUME k # Len(f.shown) PROVE FALSE
      <4>1. \A i \in (k + 1)..Len(f.shown) : f.shown[i] \in TopWindows
        BY <3>1, <3>2
      <4>2. Len(SubSeq(f.shown, k + 1, Len(f.shown))) = Len(f.shown) - (k + 1) + 1
        BY <3>1, <3>2, <3>3, <4>1, SubSeqProperties
      <4>3. Len(f.walk) = 0
        BY <1>2
      <4>4. QED
        BY <3>1, <3>2, <3>3, <4>2, <4>3
    <3>4. QED
      BY <3>1, <3>3
  <2>4. WalkEnds(c, g)
    BY <1>8, <2>1
  <2>5. QED
    BY <1>7, <1>8, <2>2, <2>3, <2>4
<1>9. CASE f.take = "all" /\ enumCallback' = Spent(enumCallback, c) /\ WalkEnds(c, Over(f, "failed", <<>>))
  <2>1. PICK g : g = Over(f, "failed", <<>>)
    OBVIOUS
  <2>2. g \in WindowCalls /\ g.at = "failed" /\ g.kind = f.kind /\ g.take = f.take /\ g.old = NoCallback
    BY <1>2, <1>5, <2>1, OverIs, EmptyLists
  <2>3. WalkEnds(c, g)
    BY <1>9, <2>1
  <2>4. QED
    BY <1>7, <1>9, <2>2, <2>3
<1>10. ASSUME f.take = "all", enumCallback' = Spent(enumCallback, c), f.kind # "list", NEW i \in DOMAIN f.got,
              WalkEnds(c, [Over(f, "focus", <<>>) EXCEPT !.h = f.got[i]])
       PROVE  WindowInv'
  <2>1. PICK o : o = Over(f, "focus", <<>>)
    OBVIOUS
  <2>2. o \in WindowCalls /\ o.at = "focus" /\ o.kind = f.kind /\ o.take = f.take /\ o.old = NoCallback
    BY <1>2, <1>5, <2>1, OverIs, EmptyLists
  <2>3. PICK w \in AnyWindow : w = f.got[i]
    BY <1>4
  <2>4. PICK g : g = [o EXCEPT !.h = w]
    OBVIOUS
  <2>5. g \in WindowCalls /\ g.at = o.at /\ g.kind = o.kind /\ g.take = o.take /\ g.old = o.old
    BY <2>2, <2>4 DEF WindowCalls
  <2>6. WalkEnds(c, g)
    BY <1>10, <2>1, <2>3, <2>4
  <2>7. QED
    BY <1>7, <1>10, <2>2, <2>5, <2>6
<1>11. CASE f.take = "one"
  <2>1. enumCallback' = f.old /\ WalkEnds(c, Found(f, IF f.got = <<>> THEN NoWindow ELSE f.got[1]))
    BY <1>1, <1>11 DEF EnumWindowsEnds
  <2>2. QED
    BY <1>6, <1>11, <2>1
<1>12. CASE f.take = "all"
  <2>1. enumCallback' = Spent(enumCallback, c)
    BY <1>1, <1>12 DEF EnumWindowsEnds
  <2>2. \/ f.kind = "list" /\ WalkEnds(c, Over(f, "answered", f.got))
        \/ WalkEnds(c, Over(f, "failed", <<>>))
        \/ f.kind # "list" /\ \E i \in DOMAIN f.got : WalkEnds(c, [Over(f, "focus", <<>>) EXCEPT !.h = f.got[i]])
    BY <1>1, <1>12 DEF EnumWindowsEnds
  <2>3. QED
    BY <1>8, <1>9, <1>10, <1>12, <2>1, <2>2
<1>13. QED
  BY <1>3, <1>11, <1>12

LEMMA WindowInitInv == WindowInit => WindowInv
<1>1. SUFFICES ASSUME WindowInit PROVE WindowInv
  OBVIOUS
<1>2. \A c \in WindowCallers : wcall[c] = IdleWindowCall
  BY <1>1 DEF WindowInit
<1>3. PICK f : f = IdleWindowCall
  OBVIOUS
<1>4. /\ f.at = "idle" /\ f.kind = "list" /\ f.take = "all" /\ f.old = NoCallback
  BY <1>3 DEF IdleWindowCall
<1>5. f \in WindowCalls
  <2>1. "idle" \in WindowSteps /\ "list" \in Kinds /\ "none" \in Hints /\ NoWindow \in AnyWindow /\ 0 \in Nat
        /\ "all" \in {"all", "one"}
    BY DEF WindowSteps, Kinds, Hints, AnyWindow
  <2>2. QED
    BY <1>3, <2>1, EmptyLists, NoCallbackIs, WindowCallWith DEF IdleWindowCall
<1>6. WindowTypes
  <2>1. FirstOrder \in WindowLists /\ FirstOrder[1] \in TopWindows
    <3>1. FirstOrder \in Seq(TopWindows) /\ FirstOrder # <<>>
      BY WindowsAre DEF WindowLists
    <3>2. 1 \in DOMAIN FirstOrder
      BY <3>1
    <3>3. QED
      BY <3>1, <3>2 DEF WindowLists
  <2>2. wcall = [c \in WindowCallers |-> f]
    BY <1>1, <1>3 DEF WindowInit
  <2>3. wcall \in [WindowCallers -> WindowCalls]
    BY <1>5, <2>2
  <2>4. QED
    BY <1>1, <2>1, <2>3, NoCallbackIs DEF WindowInit, WindowTypes, AnyWindow
<1>7. Closures
  <2>1. enumCallback = NoCallback
    BY <1>1 DEF WindowInit
  <2>2. QED
    BY <1>2, <1>3, <1>4, <2>1, NoCallbackIs DEF Closures, CollectsFor
<1>8. ASSUME NEW c \in WindowCallers PROVE InKind(wcall[c]) /\ Titled(wcall[c]) /\ InFrontOf(c) /\ AloneLists(c)
  BY <1>2, <1>3, <1>4, <1>8 DEF InKind, Titled, InFrontOf, AloneLists
<1>9. QED
  BY <1>6, <1>7, <1>8 DEF WindowInv

LEMMA WindowInvHolds == WindowSpec => []WindowInv
<1>1. WindowInv /\ [WindowNext]_windowVars => WindowInv'
  <2>1. SUFFICES ASSUME WindowInv, WindowNext \/ UNCHANGED windowVars PROVE WindowInv'
    OBVIOUS
  <2>2. ASSUME NEW c \in WindowCallers, NEW q \in WindowRequests, WindowCall(c, q) PROVE WindowInv'
    BY <2>1, <2>2, WindowCallKeeps
  <2>3. ASSUME NEW c \in WindowCallers, FindWindowW(c) \/ WaitForWindowTimeout(c) PROVE WindowInv'
    BY <2>1, <2>3, FindWindowKeeps
  <2>4. ASSUME NEW c \in WindowCallers, SetCallback(c) PROVE WindowInv'
    BY <2>1, <2>4, SetCallbackKeeps
  <2>5. ASSUME NEW c \in WindowCallers, windowEnumProc(c) PROVE WindowInv'
    BY <2>1, <2>5, EnumProcKeeps
  <2>6. ASSUME NEW c \in WindowCallers, EnumWindowsEnds(c) PROVE WindowInv'
    BY <2>1, <2>6, EnumEndsKeeps
  <2>7. ASSUME NEW c \in WindowCallers, NEW granted \in BOOLEAN, FocusTry(c, granted) PROVE WindowInv'
    BY <2>1, <2>7, FocusTryKeeps
  <2>8. ASSUME NEW c \in WindowCallers, FocusWindow(c) PROVE WindowInv'
    BY <2>1, <2>8, FocusWindowKeeps
  <2>9. ASSUME NEW c \in WindowCallers, ActOnFront(c) PROVE WindowInv'
    BY <2>1, <2>9, ActOnFrontKeeps
  <2>10. ASSUME NEW c \in WindowCallers, SetWindowLock(c) \/ ClearWindowLock(c) PROVE WindowInv'
    BY <2>1, <2>10, LockKeeps
  <2>11. ASSUME NEW c \in WindowCallers, VerifyWindowLock(c) PROVE WindowInv'
    BY <2>1, <2>11, VerifyLockKeeps
  <2>12. ASSUME NEW w \in TopWindows, UserFocuses(w) \/ WindowCloses(w) PROVE WindowInv'
    BY <2>1, <2>12, UsersMove
  <2>13. CASE UNCHANGED windowVars
    <3>1. UNCHANGED <<enumCallback, wcall, wcalls, joint, zorder, foreground, lockHandle, stirred>>
      BY <2>13 DEF windowVars
    <3>2. zorder \in WindowLists /\ foreground \in AnyWindow /\ lockHandle \in AnyWindow
      BY <2>1 DEF WindowInv, WindowTypes
    <3>3. QED
      BY <2>1, <3>1, <3>2, OthersMove
  <2>14. QED
    BY <2>1, <2>2, <2>3, <2>4, <2>5, <2>6, <2>7, <2>8, <2>9, <2>10, <2>11, <2>12, <2>13 DEF WindowNext
<1>2. QED
  BY <1>1, WindowInitInv, PTL DEF WindowSpec

(* Whatever the callers and the user do, and however many windows there are:  *)
(* a listing beside which no other enumeration ran lists every application    *)
(* window it was shown, in that order; a window found by a title bears that   *)
(* title, though another call's closure may have found it; and the keys of a  *)
(* tool go to the window it named, unless somebody changed the foreground     *)
(* after the tool had looked.                                                 *)
THEOREM WindowsAsNamedHold == WindowSpec => []WindowsAsNamed
<1>1. WindowInv => WindowsAsNamed
  BY DEF WindowInv, Titled, InFrontOf, AloneLists, WindowsAsNamed
<1>2. QED
  BY <1>1, WindowInvHolds, PTL

=============================================================================
