------------------------ MODULE VectorIndexingProofs ------------------------
(***************************************************************************)
(* Proofs about VectorIndexing, for any number and length of chunks, any    *)
(* provider limits, batch, part and retry bounds and any models.            *)
(***************************************************************************)
EXTENDS VectorIndexing, FunctionTheorems, FiniteSetTheorems, SequenceTheorems,
        WellFoundedInduction, TLAPS

-----------------------------------------------------------------------------
(* The records of an answer                                                  *)

(* Two members of a finite set of naturals have different ranks.             *)
LEMMA RankInjective ==
  ASSUME NEW S, IsFiniteSet(S), S \subseteq Nat,
         NEW x \in S, NEW y \in S, Rank(S, x) = Rank(S, y)
  PROVE  x = y
<1> DEFINE Below(z) == {s \in S : s <= z}
<1>1. ASSUME NEW v \in S, NEW w \in S, v < w
      PROVE  Rank(S, v) # Rank(S, w)
  <2>1. (\A s \in S : s <= v => s <= w) /\ w <= w /\ ~(w <= v)
    <3>1. \A s \in S : s \in Nat
      OBVIOUS
    <3>. QED BY <1>1, <3>1
  <2>2. Below(v) \subseteq Below(w)
    BY <2>1
  <2>3. w \in Below(w) /\ w \notin Below(v)
    BY <2>1
  <2>4. IsFiniteSet(Below(w))
    <3>1. Below(w) \in SUBSET S
      OBVIOUS
    <3>. HIDE DEF Below
    <3>. QED BY <3>1, FS_Subset
  <2>5. Cardinality(Below(v)) # Cardinality(Below(w))
    <3>. HIDE DEF Below
    <3>. QED BY <2>2, <2>3, <2>4, FS_Subset
  <2>. QED BY <2>5 DEF Rank
<1>2. x \in Nat /\ y \in Nat
  OBVIOUS
<1>. QED BY <1>1, <1>2

(* An increasing map of a set of record numbers keeps their ranks.           *)
LEMMA RankOfImage ==
  ASSUME NEW n \in Nat, NEW p \in Orders(n), NEW O \in SUBSET (1..n),
         \A j, k \in O : j < k => p[j] < p[k],
         NEW k \in O
  PROVE  Rank({p[j] : j \in O}, p[k]) = Rank(O, k)
<1> DEFINE From == {j \in O : j <= k}
           To   == {y \in {p[j] : j \in O} : y <= p[k]}
           f    == [j \in From |-> p[j]]
<1>1. \A j \in O : p[j] \in 1..n /\ j \in 1..n
  BY DEF Orders
<1>2. \A j \in O : j <= k <=> p[j] <= p[k]
  BY <1>1
<1>3. f \in [From -> To] /\ (\A a, b \in From : f[a] = f[b] => a = b)
  BY <1>2 DEF Orders
<1>4. \A t \in To : \E s \in From : f[s] = t
  BY <1>2
<1>5. f \in Bijection(From, To)
  BY <1>3, <1>4, Fun_IsBij
<1>6. IsFiniteSet(From)
  <2>1. IsFiniteSet(1..n)
    BY FS_Interval
  <2>2. From \in SUBSET (1..n)
    OBVIOUS
  <2>. HIDE DEF From
  <2>. QED BY <2>1, <2>2, FS_Subset
<1>7. Cardinality(To) = Cardinality(From)
  <2>1. ExistsBijection(From, To)
    BY <1>5 DEF ExistsBijection
  <2>. HIDE DEF From, To
  <2>. QED BY <2>1, <1>6, FS_Bijection
<1>. QED BY <1>7 DEF Rank

(* An order of n records names every slot.                                   *)
LEMMA OrderOnto ==
  ASSUME NEW n \in Nat, NEW p \in Orders(n), NEW i \in 1..n
  PROVE  \E k \in 1..n : p[k] = i
<1>1. IsFiniteSet(1..n)
  BY FS_Interval
<1>2. p \in Injection(1..n, 1..n)
  BY Fun_IsInj DEF Orders
<1>3. p \in Surjection(1..n, 1..n)
  BY <1>1, <1>2, FS_Injection
<1>. QED BY <1>3 DEF Surjection

(* Each slot gets the vector of its own text, in whatever order an honest    *)
(* server answers and whichever indexes it leaves out.                       *)
THEOREM AnswersArePaired ==
  ASSUME NEW n \in Nat, NEW data \in Replies(n)
  PROVE  OrderedVectors(data) = [i \in 1..n |-> i]
<1>1. PICK p \in Orders(n), O \in SUBSET (1..n) :
        /\ data = Reply(p, O)
        /\ \A j, k \in O : j < k => p[j] < p[k]
  <2>1. PICK p \in Orders(n), O \in SUBSET (1..n) : data = Reply(p, O)
    BY DEF Replies
  <2>2. \A j, k \in O : j < k => data[j].of < data[k].of
    <3>1. \A j, k \in 1..n : j < k /\ data[j].index = 0 /\ data[k].index = 0
                             => data[j].of < data[k].of
      BY DEF Replies
    <3>2. \A k \in O : k \in 1..n /\ data[k].index = 0
      BY <2>1 DEF Reply, Orders
    <3>. QED BY <3>1, <3>2
  <2>3. \A j, k \in O : j < k => p[j] < p[k]
    BY <2>1, <2>2 DEF Reply, Orders
  <2>. QED BY <2>1, <2>3
<1> DEFINE missing   == {k \in DOMAIN data : data[k].index = 0}
           remaining == {i \in DOMAIN data : \A k \in DOMAIN data : data[k].index # i}
<1>2. /\ DOMAIN data = 1..n
      /\ \A k \in 1..n : p[k] \in 1..n /\ data[k].of = p[k]
      /\ \A k \in 1..n : data[k].index = IF k \in O THEN 0 ELSE p[k]
      /\ \A j, k \in 1..n : p[j] = p[k] => j = k
  BY <1>1 DEF Reply, Orders
<1>3. missing = O
  <2>1. \A k \in 1..n : data[k].index = 0 <=> k \in O
    BY <1>2
  <2>2. missing = {k \in 1..n : data[k].index = 0}
    BY <1>2
  <2>. QED BY <2>1, <2>2
<1>4. remaining = {p[j] : j \in O}
  <2>1. ASSUME NEW i \in remaining PROVE i \in {p[j] : j \in O}
    <3>1. i \in 1..n /\ \A k \in 1..n : data[k].index # i
      BY <1>2
    <3>2. PICK k \in 1..n : p[k] = i
      BY <3>1, OrderOnto
    <3>. QED BY <3>1, <3>2, <1>2
  <2>2. ASSUME NEW j \in O PROVE p[j] \in remaining
    BY <1>2
  <2>. QED BY <2>1, <2>2
<1>5. ASSUME NEW i \in 1..n
      PROVE  (IF i \in remaining
              THEN data[CHOOSE k \in missing : Rank(missing, k) = Rank(remaining, i)].of
              ELSE data[CHOOSE k \in DOMAIN data : data[k].index = i].of) = i
  <2>1. CASE i \in remaining
    <3>1. PICK j \in O : p[j] = i
      BY <2>1, <1>4
    <3>2. Rank(remaining, i) = Rank(O, j)
      <4>. HIDE DEF remaining
      <4>. QED BY <3>1, <1>1, <1>4, RankOfImage
    <3>3. IsFiniteSet(O) /\ O \subseteq Nat
      <4>1. IsFiniteSet(1..n)
        BY FS_Interval
      <4>2. IsFiniteSet(O)
        BY <4>1, FS_Subset
      <4>. QED BY <4>2
    <3>4. \A k \in O : Rank(O, k) = Rank(remaining, i) => k = j
      <4>. HIDE DEF remaining
      <4>. QED BY <3>2, <3>3, RankInjective
    <3>5. (CHOOSE k \in O : Rank(O, k) = Rank(remaining, i)) = j
      <4>. HIDE DEF remaining
      <4>. QED BY <3>2, <3>4
    <3>6. data[j].of = i
      BY <3>1, <1>2
    <3>. HIDE DEF remaining, missing
    <3>. QED BY <3>5, <3>6, <2>1, <1>3
  <2>2. CASE i \notin remaining
    <3>1. \E k \in DOMAIN data : data[k].index = i
      BY <2>2, <1>2
    <3>2. \A k \in DOMAIN data : data[k].index = i => data[k].of = i
      BY <1>2
    <3>3. data[CHOOSE k \in DOMAIN data : data[k].index = i].of = i
      BY <3>1, <3>2
    <3>. QED BY <3>3, <2>2
  <2>. QED BY <2>1, <2>2
<1>. HIDE DEF remaining, missing
<1>6. OrderedVectors(data) =
        [i \in DOMAIN data |->
           IF i \in remaining
           THEN data[CHOOSE k \in missing : Rank(missing, k) = Rank(remaining, i)].of
           ELSE data[CHOOSE k \in DOMAIN data : data[k].index = i].of]
  BY Zenon DEF OrderedVectors, remaining, missing
<1>. QED BY <1>2, <1>5, <1>6

-----------------------------------------------------------------------------
(* The inductive invariant                                                   *)

Working   == {"embed", "compact"}
Mirroring == {"upsert", "list", "metadata"}

(* The groups on the stack follow one another, up to the next batch.         *)
InvStack ==
  /\ \A k \in DOMAIN stack : stack[k].lo <= stack[k].hi
  /\ \A k \in 1..(Len(stack) - 1) : stack[k].hi + 1 = stack[k + 1].lo
  /\ stack # <<>> => stack[Len(stack)].hi + 1 = next
  /\ pc \notin Working => stack = <<>>
  /\ pc \notin Working \cup {"done"} => next = N + 1
  /\ pc = "compact" => stack # <<>> /\ Top.lo = Top.hi

(* What fits is below low and what does not is above high.                   *)
InvSearch ==
  pc = "compact" =>
    /\ limit[Top.lo] < Lines[Top.lo]
    /\ 1 <= search.low /\ search.low <= limit[Top.lo] + 1 /\ limit[Top.lo] <= search.high
    /\ IF search.low = 1 THEN search.best = None
       ELSE search.best # None /\ search.best.text = [of |-> Top.lo, keep |-> search.low - 1]

(* How a chunk is embedded, given the lines the provider takes of it.        *)
Longest(c, keep, cut) ==
  IF c \in cut THEN 0 < keep /\ keep = limit[c] /\ keep < Lines[c]
               ELSE keep = 0 /\ limit[c] = Lines[c]

InvLongest ==
  /\ \A k \in DOMAIN embedded : Longest(embedded[k].chunk, VectorOf(k).text.keep, truncated)
  /\ \A e \in errors : e.type = "InputTooLong" => \A c \in e.chunks : limit[c] = 0

InvServed ==
  ~spoiled => /\ \A k \in DOMAIN embedded : VectorOf(k).model = serving
              /\ search.best # None => search.best.model = serving

InvErrors ==
  /\ \A e \in errors : e.stage = "embedding" \/ e.type = "InputTooLong" => e.chunks # {}
  /\ \A e \in errors : e.stage = "vector" => e.chunks = {}
  /\ pc \in Working => \A e \in errors : e.stage = "embedding"
  /\ pc \in Mirroring => caller = "project" /\ errors = {}
  /\ pc = "relist" => errors # {}
  /\ pc \in {"relist", "report"} => caller = "project"

OtherDimension == caller = "project" /\ \E i \in Stored : Width(index[i]) # Dim[serving]

InvClean ==
  ~spoiled =>
    /\ pc \notin {"relist", "report", "done"} => \A e \in errors : e.type = "InputTooLong"
    /\ pc \in {"relist", "report"} =>
         (\A e \in errors : e.type = "InputTooLong") \/ OtherDimension

Mirrored ==
  /\ \A c \in Chunks : \E k \in DOMAIN embedded : embedded[k].chunk = c /\ index[c] = VectorOf(k)
  /\ \A i \in Stale : index[i] = None
  /\ ~DimensionsDiffer

InvMirror ==
  /\ pc = "upsert" =>
       /\ sent <= Len(embedded)
       /\ \A k \in 1..sent : index[embedded[k].chunk] = VectorOf(k)
       /\ \A i \in Stale : index[i] # None => i \in existing
       /\ sent > 0 => ~DimensionsDiffer /\ \A i \in Stored : Width(index[i]) \in Widths
  /\ pc \in {"list", "metadata"} \/ (pc = "report" /\ errors = {}) => Mirrored
  /\ pc = "metadata" => identity # None /\ embedded # <<>>
  /\ pc = "metadata" \/ (pc = "report" /\ errors = {}) => report.ids = Chunks
  /\ pc = "report" /\ errors = {} /\ identity # None /\ embedded # <<>> =>
       \E w \in Widths : metadata = Identity(identity, w)
  /\ pc # "done" => ~report.complete
  /\ pc \in Working \cup {"prepared"} => sent = 0

IInv ==
  /\ TypeOK /\ InvStack /\ SettledOnce /\ InvSearch
  /\ InvLongest /\ truncated \subseteq EmbeddedChunks
  /\ InvServed /\ InvErrors /\ InvClean /\ InvMirror
  /\ OneDimension /\ CompleteIsExact /\ CleanRunCompletes

USE DEF Goto, OutsideBatches, OutsideCalls, OutsideIndex, given, batches, prepared,
        collection, mirroring, history

-----------------------------------------------------------------------------
(* Lemmas about the stack                                                    *)

(* The top group starts at the frontier.                                     *)
LEMMA TopIsFrontier ==
  ASSUME TypeOK, InvStack, stack # <<>>
  PROVE  /\ Top \in Groups /\ Top = stack[1] /\ Top.lo \in Chunks /\ Top.hi \in Chunks
         /\ Top.lo \in Nat /\ Top.hi \in Nat /\ Top.lo <= Top.hi
         /\ Frontier = Top.lo
<1>1. stack \in Seq(Groups) /\ Len(stack) \in Nat \ {0} /\ DOMAIN stack = 1..Len(stack)
  BY EmptySeq, LenProperties DEF TypeOK, Groups
<1>2. Top = stack[1] /\ Top \in Groups
  BY <1>1, HeadTailProperties DEF Top
<1>3. Top.lo <= Top.hi
  BY <1>1, <1>2 DEF InvStack
<1>. QED BY <1>2, <1>3, ParamsAssumption DEF Groups, Chunks, Frontier

(* A group dealt with, the frontier is past it.                              *)
LEMMA PopMovesFrontier ==
  ASSUME TypeOK, InvStack, stack # <<>>,
         stack' = Tail(stack), next' = next, pc' = "embed"
  PROVE  /\ stack' \in Seq(Groups)
         /\ InvStack'
         /\ Frontier' = Top.hi + 1
<1>1. stack \in Seq(Groups) /\ Len(stack) \in Nat \ {0} /\ DOMAIN stack = 1..Len(stack)
  BY EmptySeq, LenProperties DEF TypeOK, Groups
<1>2. /\ stack' \in Seq(Groups) /\ Len(stack') = Len(stack) - 1
      /\ \A i \in 1..Len(stack') : stack'[i] = stack[i + 1]
      /\ DOMAIN stack' = 1..Len(stack')
  BY <1>1, HeadTailProperties, LenProperties
<1>3. Top = stack[1] /\ Top \in Groups
  BY TopIsFrontier
<1>4. stack' # <<>> => Len(stack') > 0
  BY <1>2, EmptySeq
<1>5. stack' # <<>> => stack'[1].lo = Top.hi + 1
  BY <1>1, <1>2, <1>3, <1>4 DEF InvStack
<1>6. stack' = <<>> => next = Top.hi + 1
  <2>. SUFFICES ASSUME stack' = <<>> PROVE next = Top.hi + 1
    OBVIOUS
  <2>1. Len(<< >>) = 0
    OBVIOUS
  <2>2. Len(stack') = 0
    BY <2>1
  <2>3. Len(stack) - 1 = 0
    BY <1>2, <2>2, Zenon
  <2>4. Len(stack) = 1
    BY <1>1, <2>3
  <2>. QED BY <2>4, <1>3 DEF InvStack
<1>7. Frontier' = Top.hi + 1
  <2>1. stack' # <<>> => (Top.lo)' = stack'[1].lo
    BY <1>2, <1>4, HeadTailProperties DEF Top
  <2>. QED BY <1>5, <1>6, <2>1 DEF Frontier
<1>8. InvStack'
  <2>1. \A k \in DOMAIN stack' : stack'[k].lo <= stack'[k].hi
    BY <1>1, <1>2 DEF InvStack
  <2>2. \A k \in 1..(Len(stack') - 1) : stack'[k].hi + 1 = stack'[k + 1].lo
    BY <1>1, <1>2 DEF InvStack
  <2>3. stack' # <<>> => stack'[Len(stack')].hi + 1 = next'
    BY <1>1, <1>2, <1>4 DEF InvStack
  <2>. QED BY <2>1, <2>2, <2>3 DEF InvStack, Working
<1>. QED BY <1>2, <1>7, <1>8


(* The halves of a group of several chunks are the chunks of the group.      *)
LEMMA HalvesOfGroup ==
  ASSUME NEW lo \in Nat, NEW hi \in Nat, lo < hi
  PROVE  \E mid \in Nat :
           /\ lo < mid /\ mid <= hi
           /\ Halves(Group(lo, hi)) = <<Group(lo, mid - 1), Group(mid, hi)>>
<1>1. /\ lo < lo + (hi - lo + 1) \div 2 /\ lo + (hi - lo + 1) \div 2 <= hi
      /\ lo + (hi - lo + 1) \div 2 \in Nat
  OBVIOUS
<1>2. Group(lo, hi).lo = lo /\ Group(lo, hi).hi = hi
  BY DEF Group
<1>. QED BY <1>1, <1>2 DEF Halves

(* Splitting the top group leaves the frontier where it is.                  *)
LEMMA SplitKeepsFrontier ==
  ASSUME TypeOK, InvStack, stack # <<>>, Size > 1, pc' = "embed",
         stack' = Halves(Top) \o Tail(stack), next' = next
  PROVE  stack' \in Seq(Groups) /\ InvStack' /\ Frontier' = Frontier
<1>1. /\ stack \in Seq(Groups) /\ Len(stack) \in Nat \ {0} /\ DOMAIN stack = 1..Len(stack)
      /\ Tail(stack) \in Seq(Groups) /\ Len(Tail(stack)) = Len(stack) - 1
      /\ \A i \in 1..Len(Tail(stack)) : Tail(stack)[i] = stack[i + 1]
  BY EmptySeq, LenProperties, HeadTailProperties DEF TypeOK, Groups
<1>2. /\ Top = stack[1] /\ Top \in Groups /\ Top.lo \in Nat /\ Top.hi \in Nat
      /\ Top.lo \in Chunks /\ Top.hi \in Chunks /\ Frontier = Top.lo
  BY TopIsFrontier
<1>3. Top.lo < Top.hi
  BY <1>2 DEF Size
<1>4. Top = Group(Top.lo, Top.hi)
  BY <1>2 DEF Group, Groups
<1>5. PICK mid \in Nat : /\ Top.lo < mid /\ mid <= Top.hi
                         /\ Halves(Top) = <<Group(Top.lo, mid - 1), Group(mid, Top.hi)>>
  <2>1. \E mid \in Nat :
          /\ Top.lo < mid /\ mid <= Top.hi
          /\ Halves(Group(Top.lo, Top.hi)) = <<Group(Top.lo, mid - 1), Group(mid, Top.hi)>>
    BY <1>2, <1>3, HalvesOfGroup
  <2>. QED BY <2>1, <1>4, Zenon
<1> DEFINE h == Halves(Top)
<1>6. /\ h \in Seq(Groups) /\ Len(h) = 2
      /\ h[1].lo = Top.lo /\ h[1].hi = mid - 1 /\ h[2].lo = mid /\ h[2].hi = Top.hi
  BY <1>2, <1>5, ParamsAssumption DEF Group, Groups, Chunks
<1>. HIDE DEF h
<1>7. stack' = h \o Tail(stack)
  BY DEF h
<1>8. /\ stack' \in Seq(Groups) /\ Len(stack') = Len(stack) + 1
      /\ stack'[1] = h[1] /\ stack'[2] = h[2]
      /\ \A i \in 3..Len(stack') : stack'[i] = stack[i - 1]
      /\ DOMAIN stack' = 1..Len(stack')
  <2> DEFINE t == Tail(stack)
             s == h \o t
  <2>1. t \in Seq(Groups) /\ Len(t) = Len(stack) - 1
        /\ \A i \in 1..Len(t) : t[i] = stack[i + 1]
    BY <1>1
  <2>. HIDE DEF t
  <2>2. /\ s \in Seq(Groups) /\ Len(s) = Len(h) + Len(t)
        /\ \A i \in 1..(Len(h) + Len(t)) : s[i] = IF i <= Len(h) THEN h[i] ELSE t[i - Len(h)]
    BY <1>6, <2>1, ConcatProperties
  <2>3. stack' = s
    BY <1>7 DEF t
  <2>. HIDE DEF s
  <2>4. Len(s) = Len(stack) + 1 /\ s[1] = h[1] /\ s[2] = h[2]
    BY <2>1, <2>2, <1>1, <1>6
  <2>5. ASSUME NEW i \in 3..Len(s) PROVE s[i] = stack[i - 1]
    <3>1. i - 2 \in 1..Len(t) /\ s[i] = t[i - 2]
      BY <2>1, <2>2, <2>4, <1>1, <1>6
    <3>. QED BY <3>1, <2>1, <1>1
  <2>6. DOMAIN s = 1..Len(s)
    BY <2>2, LenProperties
  <2>. QED BY <2>2, <2>3, <2>4, <2>5, <2>6, Zenon
<1>9. stack' # <<>> /\ Top' = stack'[1]
  BY <1>1, <1>8 DEF Top
<1>10. InvStack'
  <2>1. \A k \in DOMAIN stack' : stack'[k].lo <= stack'[k].hi
    <3>1. \A k \in 3..Len(stack') : k - 1 \in DOMAIN stack
      BY <1>1, <1>8
    <3>. QED BY <1>1, <1>2, <1>5, <1>6, <1>8, <3>1 DEF InvStack
  <2>2. \A k \in 1..(Len(stack') - 1) : stack'[k].hi + 1 = stack'[k + 1].lo
    <3>. SUFFICES ASSUME NEW k \in 1..(Len(stack') - 1)
                  PROVE  stack'[k].hi + 1 = stack'[k + 1].lo
      OBVIOUS
    <3>1. CASE k = 1
      BY <3>1, <1>2, <1>5, <1>6, <1>8
    <3>2. CASE k = 2
      <4>1. stack'[3] = stack[2] /\ Len(stack) > 1
        BY <3>2, <1>1, <1>8
      <4>2. stack[1].hi + 1 = stack[2].lo
        BY <4>1, <1>1 DEF InvStack
      <4>. QED BY <3>2, <4>1, <4>2, <1>2, <1>6, <1>8
    <3>3. CASE k > 2
      <4>1. stack'[k] = stack[k - 1] /\ stack'[k + 1] = stack[k]
        BY <3>3, <1>1, <1>8
      <4>2. k - 1 \in 1..(Len(stack) - 1)
        BY <3>3, <1>1, <1>8
      <4>3. stack[k - 1].hi + 1 = stack[k - 1 + 1].lo
        BY <4>2 DEF InvStack
      <4>. QED BY <4>1, <4>3, <3>3
    <3>. QED BY <3>1, <3>2, <3>3
  <2>3. stack'[Len(stack')].hi + 1 = next'
    <3>1. CASE Len(stack) = 1
      BY <3>1, <1>1, <1>2, <1>6, <1>8 DEF InvStack
    <3>2. CASE Len(stack) > 1
      <4>1. stack'[Len(stack')] = stack[Len(stack)]
        BY <3>2, <1>1, <1>8
      <4>2. stack[Len(stack)].hi + 1 = next
        BY DEF InvStack
      <4>3. next' = next
        OBVIOUS
      <4>4. stack'[Len(stack')].hi + 1 = next
        BY <4>1, <4>2, Zenon
      <4>. QED BY <4>3, <4>4, Zenon
    <3>3. Len(stack) = 1 \/ Len(stack) > 1
      BY <1>1
    <3>. QED BY <3>1, <3>2, <3>3, Zenon
  <2>. QED BY <2>1, <2>2, <2>3 DEF InvStack, Working
<1>. QED BY <1>2, <1>6, <1>8, <1>9, <1>10 DEF Frontier


-----------------------------------------------------------------------------
(* Lemmas about what is embedded                                             *)

(* One more item: the old ones stay where they are.                          *)
LEMMA AppendedItem ==
  ASSUME NEW s \in Seq(Items), NEW x \in Items
  PROVE  /\ Append(s, x) \in Seq(Items) /\ Len(Append(s, x)) = Len(s) + 1
         /\ DOMAIN Append(s, x) = 1..(Len(s) + 1)
         /\ \A k \in 1..Len(s) : Append(s, x)[k] = s[k]
         /\ Append(s, x)[Len(s) + 1] = x
<1>1. /\ Append(s, x) \in Seq(Items) /\ Len(Append(s, x)) = Len(s) + 1
      /\ \A k \in 1..Len(s) : Append(s, x)[k] = s[k]
      /\ Append(s, x)[Len(s) + 1] = x
  BY AppendProperties
<1>. QED BY <1>1, LenProperties

(* A whole group embedded: the members in order, each with its own text.     *)
WholeItems(m) == [i \in 1..Size |-> Record(Top.lo + i - 1, Whole(Top.lo + m[i] - 1))]

LEMMA EmbeddedGroup ==
  ASSUME TypeOK, InvStack, Embed
  PROVE  /\ embedded' \in Seq(Items) /\ DOMAIN embedded' = 1..Len(embedded')
         /\ Len(embedded') = Len(embedded) + Size
         /\ \A k \in 1..Len(embedded) : embedded'[k] = embedded[k]
         /\ \A k \in (Len(embedded) + 1)..Len(embedded') :
              LET c == Top.lo + (k - Len(embedded)) - 1
              IN  c \in Members /\ embedded'[k] = Record(c, Whole(c))
<1>1. /\ stack # <<>> /\ Top.lo \in Nat /\ Top.hi \in Nat /\ Top.lo <= Top.hi
      /\ Top.lo \in Chunks /\ Top.hi \in Chunks
  BY TopIsFrontier DEF Embed
<1>2. Size \in Nat /\ Size = Top.hi - Top.lo + 1
  BY <1>1 DEF Size
<1>3. PICK data \in Replies(Size) : embedded' = embedded \o WholeItems(OrderedVectors(data))
  BY DEF Embed, WholeItems
<1>4. OrderedVectors(data) = [i \in 1..Size |-> i]
  BY <1>2, AnswersArePaired
<1> DEFINE e == embedded
           w == WholeItems(OrderedVectors(data))
<1>5. ASSUME NEW i \in 1..Size
      PROVE  LET c == Top.lo + i - 1
             IN  c \in Members /\ c \in Chunks /\ w[i] = Record(c, Whole(c)) /\ w[i] \in Items
  <2>1. Top.lo + i - 1 \in Members /\ Top.lo + i - 1 \in Chunks
    BY <1>1, <1>2, ParamsAssumption DEF Members, Chunks
  <2>2. w[i] = Record(Top.lo + i - 1, Whole(Top.lo + i - 1))
    BY <1>4 DEF WholeItems
  <2>3. \A c \in Chunks : Record(c, Whole(c)) \in Items
    BY ParamsAssumption DEF Record, Whole, Items, Vectors, Texts, Ids, TypeOK
  <2>. QED BY <2>1, <2>2, <2>3
<1>6. w \in Seq(Items) /\ Len(w) = Size
  <2>1. w = [i \in 1..Size |-> w[i]]
    BY DEF WholeItems
  <2>2. \A i \in 1..Size : w[i] \in Items
    BY <1>5
  <2>. HIDE DEF w
  <2>. QED BY <2>1, <2>2, <1>2
<1>7. e \in Seq(Items)
  BY DEF TypeOK, Items
<1>8. embedded' = e \o w
  BY <1>3
<1>. HIDE DEF e, w
<1>9. /\ e \o w \in Seq(Items) /\ Len(e \o w) = Len(e) + Size
      /\ \A k \in 1..(Len(e) + Size) : (e \o w)[k] = IF k <= Len(e) THEN e[k] ELSE w[k - Len(e)]
  BY <1>6, <1>7, ConcatProperties
<1>10. Len(e) \in Nat /\ DOMAIN (e \o w) = 1..Len(e \o w)
  BY <1>7, <1>9, LenProperties
<1>11. \A k \in 1..Len(e) : (e \o w)[k] = e[k]
  BY <1>2, <1>9, <1>10
<1>12. ASSUME NEW k \in (Len(e) + 1)..Len(e \o w)
       PROVE  LET c == Top.lo + (k - Len(e)) - 1
              IN  c \in Members /\ (e \o w)[k] = Record(c, Whole(c))
  <2>1. k - Len(e) \in 1..Size /\ (e \o w)[k] = w[k - Len(e)]
    BY <1>2, <1>9, <1>10
  <2>. QED BY <2>1, <1>5
<1>. QED BY <1>8, <1>9, <1>10, <1>11, <1>12 DEF e


-----------------------------------------------------------------------------
(* The parts of the invariant                                                *)

(* The groups that follow one another go on doing so.                        *)
LEMMA StackStep ==
  ASSUME TypeOK, InvStack, [Next]_vars
  PROVE  stack' \in Seq(Groups) /\ InvStack'
<1>1. stack \in Seq(Groups)
  BY DEF TypeOK, Groups
<1>2. CASE TakeBatch
  <2>1. PICK last : /\ last = IF next + BatchSize - 1 < N THEN next + BatchSize - 1 ELSE N
                    /\ stack' = <<Group(next, last)>> /\ next' = last + 1
    BY <1>2 DEF TakeBatch
  <2>2. next \in Chunks /\ last \in Chunks /\ next <= last
    BY <1>2, <2>1, ParamsAssumption DEF TakeBatch, TypeOK, Chunks
  <2>3. Group(next, last) \in Groups /\ Group(next, last).lo = next /\ Group(next, last).hi = last
    BY <2>2 DEF Group, Groups
  <2>4. /\ stack' \in Seq(Groups) /\ Len(stack') = 1 /\ DOMAIN stack' = {1}
        /\ stack'[1] = Group(next, last)
    BY <2>1, <2>3
  <2>5. pc' = "embed"
    BY <1>2 DEF TakeBatch
  <2>. QED BY <2>1, <2>2, <2>3, <2>4, <2>5 DEF InvStack, Working
<1>3. CASE Split
  BY <1>3, SplitKeepsFrontier DEF Split
<1>4. CASE Embed \/ GiveUp \/ Compacted \/ NotCompactable
  <2>1. stack # <<>> /\ stack' = Tail(stack) /\ next' = next /\ pc' = "embed"
    BY <1>4 DEF Embed, GiveUp, Compacted, NotCompactable, Searching, Settled
  <2>. QED BY <2>1, PopMovesFrontier
<1>5. CASE Rerun
  <2>1. stack' = <<>> /\ pc' = "embed"
    BY <1>5 DEF Rerun
  <2>. QED BY <2>1 DEF InvStack, Working
<1>6. CASE StartCompaction
  <2>1. stack # <<>> /\ Size = 1 /\ stack' = stack /\ next' = next /\ pc' = "compact"
    BY <1>6 DEF StartCompaction, Searching
  <2>2. Top.lo = Top.hi
    BY <2>1, TopIsFrontier DEF Size
  <2>. QED BY <1>1, <2>1, <2>2 DEF InvStack, Working, Top
<1>7. CASE UNCHANGED <<stack, next>> /\ (pc' = pc \/ stack = <<>>)
           /\ (pc \in Working \cup {"done"} => pc' \in Working \cup {"done"} \/ next > N)
           /\ (pc' = "compact" => pc = "compact")
  <2>1. next > N => next = N + 1
    BY ParamsAssumption DEF TypeOK
  <2>. QED BY <1>1, <1>7, <2>1 DEF InvStack, Working, Top
<1>8. CASE Retry \/ CandidateFits \/ CandidateTooLong \/ ProgressFails \/ CheckDimensions
           \/ HandOver \/ ReportFailure \/ ListExisting \/ UpsertRefused \/ UpsertPart \/ Swap
           \/ UNCHANGED vars
  BY <1>7, <1>8 DEF Retry, CandidateFits, CandidateTooLong, Searching, ProgressFails,
     CheckDimensions, AfterBatches, HandOver, ReportFailure, ListExisting, UpsertRefused,
     UpsertPart, Swap, vars, InvStack, Working
<1>9. CASE DeleteStale \/ Compare \/ SetMetadata \/ StoreFails \/ Relist \/ RelistFails \/ Report
  BY <1>7, <1>9 DEF DeleteStale, Compare, SetMetadata, StoreFails, Relist, RelistFails, Report,
     InvStack, Working
<1>. QED BY <1>2, <1>3, <1>4, <1>5, <1>6, <1>8, <1>9 DEF Next, Step


(* What the search has found is a vector of the chunk searched, and fits.    *)
LEMMA CandidateFacts ==
  ASSUME TypeOK, InvStack, InvSearch, pc = "compact", search.low <= search.high
  PROVE  /\ Top.lo \in Chunks /\ Keep \in Nat \ {0}
         /\ search.low <= Keep /\ Keep <= search.high
         /\ limit[Top.lo] \in Nat /\ Lines[Top.lo] \in Nat
         /\ limit[Top.lo] <= Lines[Top.lo] /\ Lines[Top.lo] <= MaxLines
         /\ Fits(Candidate) <=> Keep <= limit[Top.lo]
<1>1. stack # <<>> /\ Top.lo \in Chunks
  BY TopIsFrontier DEF InvStack
<1>2. search.low \in Nat /\ search.high \in Nat /\ 1 <= search.low
  BY DEF TypeOK, InvSearch, Searches
<1>3. Keep \in Nat \ {0} /\ search.low <= Keep /\ Keep <= search.high
  BY <1>2 DEF Keep
<1>4. limit[Top.lo] \in Nat /\ limit[Top.lo] <= Lines[Top.lo] /\ Lines[Top.lo] \in 1..MaxLines
  BY <1>1, ParamsAssumption DEF TypeOK
<1>5. Fits(Candidate) <=> Keep <= limit[Top.lo]
  BY <1>3 DEF Fits, Candidate
<1>. QED BY <1>1, <1>3, <1>4, <1>5, ParamsAssumption

LEMMA TypeStep ==
  ASSUME TypeOK, InvStack, InvSearch, InvMirror, [Next]_vars
  PROVE  TypeOK'
<1>1. stack' \in Seq(Groups)
  BY StackStep
<1>2. CASE TakeBatch
  <2>1. next' \in 1..(N + 1)
    BY <1>2, ParamsAssumption DEF TakeBatch, TypeOK
  <2>. QED BY <1>1, <1>2, <2>1 DEF TakeBatch, TypeOK
<1>3. CASE Embed
  <2>1. embedded' \in Seq(Items)
    BY <1>3, EmbeddedGroup
  <2>2. 0 \in 0..MaxRetries /\ NoSearch \in Searches
    BY ParamsAssumption DEF NoSearch, Searches
  <2>. QED BY <1>1, <1>3, <2>1, <2>2 DEF Embed, Settled, TypeOK
<1>4. CASE GiveUp \/ NotCompactable
  <2>1. stack # <<>> /\ Members \subseteq Chunks
    <3>1. stack # <<>>
      BY <1>4 DEF GiveUp, NotCompactable, Searching
    <3>2. Top.lo \in 1..N /\ Top.hi \in 1..N
      BY <3>1, TopIsFrontier DEF Chunks
    <3>. QED BY <3>1, <3>2, ParamsAssumption DEF Members, Chunks
  <2>2. errors' \subseteq Errors
    BY <1>4, <2>1 DEF GiveUp, NotCompactable, Failed, Error, Errors, TypeOK
  <2>3. 0 \in 0..MaxRetries /\ NoSearch \in Searches
    BY ParamsAssumption DEF NoSearch, Searches
  <2>4. CASE GiveUp
    BY <1>1, <2>2, <2>3, <2>4 DEF GiveUp, Settled, TypeOK
  <2>5. CASE NotCompactable
    BY <1>1, <2>2, <2>3, <2>5 DEF NotCompactable, Searching, Settled, TypeOK
  <2>. QED BY <1>4, <2>4, <2>5
<1>5. CASE Split
  <2>1. 0 \in 0..MaxRetries
    BY ParamsAssumption
  <2>. QED BY <1>1, <1>5, <2>1 DEF Split, TypeOK
<1>6. CASE Retry
  <2>1. attempt' \in 0..MaxRetries
    BY <1>6, ParamsAssumption DEF Retry, TypeOK
  <2>. QED BY <1>6, <2>1 DEF Retry, TypeOK
<1>7. CASE StartCompaction
  <2>1. Lines[Top.lo] \in Nat
    BY <1>7, TopIsFrontier, ParamsAssumption DEF StartCompaction, Searching
  <2>2. search' \in Searches
    BY <1>7, <2>1 DEF StartCompaction, Searches
  <2>3. 0 \in 0..MaxRetries
    BY ParamsAssumption
  <2>. QED BY <1>1, <1>7, <2>2, <2>3 DEF StartCompaction, Searching, TypeOK
<1>8. CASE CandidateFits \/ CandidateTooLong
  <2>1. pc = "compact" /\ search.low <= search.high
    BY <1>8 DEF CandidateFits, CandidateTooLong, Searching
  <2>2. Keep + 1 \in Nat /\ Keep - 1 \in Nat
    BY <2>1, CandidateFacts
  <2>3. CandidateFits => Record(Top.lo, Candidate).vector \in Vectors
    <3>1. CandidateFits => Keep \in 0..MaxLines /\ Top.lo \in Ids
      BY <2>1, CandidateFacts, ParamsAssumption DEF CandidateFits, Ids
    <3>2. serving \in Models
      BY DEF TypeOK
    <3>. QED BY <3>1, <3>2 DEF Record, Candidate, Vectors, Texts
  <2>4. search' \in Searches
    BY <1>8, <2>2, <2>3 DEF CandidateFits, CandidateTooLong, TypeOK, Searches
  <2>5. 0 \in 0..MaxRetries
    BY ParamsAssumption
  <2>6. CASE CandidateFits
    BY <2>4, <2>5, <2>6 DEF CandidateFits, Searching, TypeOK
  <2>7. CASE CandidateTooLong
    BY <2>4, <2>5, <2>7 DEF CandidateTooLong, Searching, TypeOK
  <2>. QED BY <1>8, <2>6, <2>7
<1>9. CASE Compacted
  <2>1. Top.lo \in Chunks /\ search.best \in Vectors
    BY <1>9, TopIsFrontier DEF Compacted, Searching, TypeOK, Searches
  <2>2. [chunk |-> Top.lo, vector |-> search.best] \in Items
    BY <2>1 DEF Items
  <2>3. embedded' \in Seq(Items)
    BY <1>9, <2>2, AppendedItem DEF Compacted, TypeOK
  <2>4. 0 \in 0..MaxRetries /\ NoSearch \in Searches
    BY ParamsAssumption DEF NoSearch, Searches
  <2>. QED BY <1>1, <1>9, <2>1, <2>3, <2>4 DEF Compacted, Searching, Settled, TypeOK
<1>10. CASE ProgressFails \/ ReportFailure \/ ListExisting
  <2>1. Stored \subseteq Ids
    BY DEF Stored
  <2>. QED BY <1>10, <2>1 DEF ProgressFails, ReportFailure, ListExisting, TypeOK
<1>11. \A type \in {"DimensionMismatch", "VectorIndexError", "IncompleteIndex"} :
         Error("vector", {}, type) \in Errors
  BY DEF Error, Errors
<1>12. CASE CheckDimensions
  <2>1. errors' \subseteq Errors
    BY <1>11, <1>12 DEF CheckDimensions, TypeOK
  <2>. QED BY <1>12, <2>1 DEF CheckDimensions, TypeOK
<1>13. CASE UpsertRefused \/ StoreFails \/ RelistFails
  <2>1. errors' \subseteq Errors
    BY <1>11, <1>13 DEF UpsertRefused, StoreFails, RelistFails, Failed, TypeOK
  <2>2. CASE UpsertRefused
    BY <2>1, <2>2 DEF UpsertRefused, TypeOK
  <2>3. CASE StoreFails
    BY <2>1, <2>3 DEF StoreFails, TypeOK
  <2>4. CASE RelistFails
    BY <2>1, <2>4 DEF RelistFails, TypeOK
  <2>. QED BY <1>13, <2>2, <2>3, <2>4
<1>14. CASE HandOver
  <2>1. \A k \in DOMAIN embedded : embedded[k].chunk \in Ids
    <3>1. \A k \in DOMAIN embedded : embedded[k] \in Items
      BY LenProperties DEF TypeOK
    <3>. QED BY <3>1 DEF Items, Ids
  <2>2. report' \in Reports
    BY <1>14, <2>1 DEF HandOver, Nothing, Reports
  <2>. QED BY <1>14, <2>2 DEF HandOver, TypeOK
<1>15. CASE UpsertPart
  <2>1. Len(embedded) \in Nat /\ DOMAIN embedded = 1..Len(embedded)
    BY LenProperties DEF TypeOK
  <2>2. \A k \in DOMAIN embedded : VectorOf(k) \in Vectors
    <3>1. \A k \in DOMAIN embedded : embedded[k] \in Items
      BY LenProperties DEF TypeOK
    <3>. QED BY <3>1 DEF Items, VectorOf
  <2> DEFINE last == IF sent + PartSize < Len(embedded) THEN sent + PartSize ELSE Len(embedded)
             part == (sent + 1)..last
             new  == [i \in Ids |->
                        IF \E k \in part : embedded[k].chunk = i
                        THEN VectorOf(CHOOSE k \in part : embedded[k].chunk = i) ELSE index[i]]
  <2>3. index' = new /\ sent' = last
    BY <1>15, Zenon DEF UpsertPart
  <2>4. last \in Nat /\ part \subseteq DOMAIN embedded
    BY <2>1, ParamsAssumption DEF TypeOK
  <2>. HIDE DEF part
  <2>5. new \in [Ids -> Vectors \cup {None}]
    <3>1. \A i \in Ids : index[i] \in Vectors \cup {None}
      BY DEF TypeOK
    <3>2. \A i \in Ids : (\E k \in part : embedded[k].chunk = i)
            => VectorOf(CHOOSE k \in part : embedded[k].chunk = i) \in Vectors
      BY <2>2, <2>4
    <3>. QED BY <3>1, <3>2
  <2>. HIDE DEF new, last
  <2>. QED BY <1>15, <2>3, <2>4, <2>5 DEF UpsertPart, TypeOK
<1>16. CASE DeleteStale
  <2>1. index' \in [Ids -> Vectors \cup {None}]
    BY <1>16 DEF DeleteStale, TypeOK
  <2>. QED BY <1>16, <2>1 DEF DeleteStale, TypeOK
<1>17. CASE Compare
  <2>1. report' \in Reports
    BY <1>17 DEF Compare, Stored, Reports, TypeOK
  <2>2. errors' \subseteq Errors /\ pc' \in {"metadata", "report"}
    BY <1>11, <1>17 DEF Compare, TypeOK
  <2>. QED BY <1>17, <2>1, <2>2 DEF Compare, TypeOK
<1>18. CASE Relist \/ Report
  <2>1. report' \in Reports
    BY <1>18 DEF Relist, Report, Stored, Reports, TypeOK
  <2>2. CASE Relist
    BY <2>1, <2>2 DEF Relist, TypeOK
  <2>3. CASE Report
    BY <2>1, <2>3 DEF Report, TypeOK
  <2>. QED BY <1>18, <2>2, <2>3
<1>19. CASE SetMetadata
  <2>1. PICK w \in Widths : metadata' = Identity(identity, w)
    BY <1>19 DEF SetMetadata
  <2>2. \A k \in DOMAIN embedded : Width(VectorOf(k)) \in Nat
    <3>1. \A k \in DOMAIN embedded : embedded[k] \in Items
      BY LenProperties DEF TypeOK
    <3>. QED BY <3>1, ParamsAssumption DEF Items, Width, VectorOf, Vectors
  <2>3. w \in Nat
    BY <2>2 DEF Widths
  <2>4. identity \in Models
    BY <1>19 DEF SetMetadata, TypeOK, InvMirror
  <2>5. metadata' \in Identities
    BY <2>1, <2>3, <2>4 DEF Identity, Identities
  <2>. QED BY <1>19, <2>5 DEF SetMetadata, TypeOK
<1>20. CASE Swap
  BY <1>20 DEF Swap, TypeOK
<1>21. CASE Rerun
  <2>1. 0 \in 0..MaxRetries /\ NoSearch \in Searches /\ 1 \in 1..(N + 1) /\ Nothing \in Reports
    BY ParamsAssumption DEF NoSearch, Searches, Nothing, Reports
  <2>2. <<>> \in Seq(Items)
    BY EmptySeq
  <2>3. identity' \in Models \cup {None} /\ serving' \in Models
    BY <1>21 DEF Rerun, Configured
  <2>4. /\ caller' = caller /\ limit' = limit /\ index' = index /\ metadata' = metadata
        /\ pc' = "embed" /\ next' = 1 /\ attempt' = 0 /\ search' = NoSearch /\ embedded' = <<>>
        /\ truncated' = {} /\ errors' = {} /\ existing' = {} /\ sent' = 0 /\ report' = Nothing
        /\ spoiled' = FALSE /\ runs' = runs + 1 /\ swaps' = swaps
    BY <1>21 DEF Rerun
  <2>5. /\ next' \in 1..(N + 1) /\ attempt' \in 0..MaxRetries /\ search' \in Searches
        /\ embedded' \in Seq(Items) /\ report' \in Reports
    BY <2>1, <2>2, <2>4, Zenon
  <2>8. sent' \in Nat /\ runs' \in Nat /\ spoiled' \in BOOLEAN
    <3>1. runs' = runs + 1 /\ runs \in Nat /\ sent' = 0
      BY <1>21 DEF Rerun, TypeOK
    <3>2. spoiled' = FALSE
      BY <1>21 DEF Rerun
    <3>3. spoiled' \in BOOLEAN
      BY <3>2, Zenon
    <3>. QED BY <3>1, <3>3
  <2>6. /\ truncated' \subseteq Chunks /\ errors' \subseteq Errors /\ existing' \subseteq Ids
    BY <2>4
  <2>7. /\ caller' \in {"coordinator", "project"} /\ limit' \in Limits /\ swaps' \in Nat
        /\ index' \in [Ids -> Vectors \cup {None}] /\ metadata' \in Identities \cup {None}
    BY <2>4 DEF TypeOK
  <2>. QED BY <1>1, <2>3, <2>4, <2>5, <2>6, <2>7, <2>8 DEF TypeOK
<1>22. CASE UNCHANGED vars
  BY <1>22 DEF vars, TypeOK
<1>. QED BY <1>2, <1>3, <1>4, <1>5, <1>6, <1>7, <1>8, <1>9, <1>10, <1>12, <1>13, <1>14, <1>15,
         <1>16, <1>17, <1>18, <1>19, <1>20, <1>21, <1>22 DEF Next, Step


(* What is embedded or has failed is what the batches have dealt with.       *)
LEMMA NothingNewSettled ==
  ASSUME TypeOK, SettledOnce, embedded' = embedded, Frontier' = Frontier,
         FailedChunks' = FailedChunks
  PROVE  SettledOnce'
BY DEF SettledOnce, EmbeddedChunks, VectorOf

(* A group given up, or a chunk too long for any candidate: one error more.  *)
LEMMA FailedGroup ==
  ASSUME TypeOK, InvStack, SettledOnce, stack # <<>>, embedded' = embedded,
         Frontier' = Top.hi + 1, NEW type, Failed("embedding", Members, type)
  PROVE  SettledOnce' /\ FailedChunks' = FailedChunks \cup Members
<1>1. FailedChunks' = FailedChunks \cup Members
  <2> DEFINE e == Error("embedding", Members, type)
  <2>1. errors' = errors \cup {e} /\ e.stage = "embedding" /\ e.chunks = Members
    BY DEF Failed, Error
  <2>. HIDE DEF e
  <2>2. {x \in errors' : x.stage = "embedding"} = {x \in errors : x.stage = "embedding"} \cup {e}
    BY <2>1
  <2> DEFINE E == {x \in errors : x.stage = "embedding"}
  <2>3. UNION {x.chunks : x \in E \cup {e}} = (UNION {x.chunks : x \in E}) \cup e.chunks
    OBVIOUS
  <2>. QED BY <2>1, <2>2, <2>3 DEF FailedChunks
<1>2. /\ Frontier = Top.lo /\ Top.lo \in Nat /\ Top.hi \in Nat /\ Top.lo <= Top.hi
      /\ Members = Top.lo..Top.hi /\ Top.lo \in 1..N
  BY TopIsFrontier DEF Members, Chunks
<1>3. EmbeddedChunks \cup FailedChunks = 1..(Top.lo - 1)
  BY <1>2 DEF SettledOnce
<1>4. EmbeddedChunks' = EmbeddedChunks
  BY DEF EmbeddedChunks
<1>5. EmbeddedChunks \cap Members = {}
  <2>1. \A c \in Nat : c \in 1..(Top.lo - 1) => c \notin Top.lo..Top.hi
    BY <1>2
  <2>. QED BY <2>1, <1>2, <1>3
<1>6. 1..(Top.lo - 1) \cup Top.lo..Top.hi = 1..Top.hi
  BY <1>2, ParamsAssumption
<1>7. EmbeddedChunks' \cup FailedChunks' = 1..(Frontier' - 1)
  BY <1>1, <1>2, <1>3, <1>4, <1>6
<1>. QED BY <1>1, <1>4, <1>5, <1>7 DEF SettledOnce, VectorOf

LEMMA SettledStep ==
  ASSUME TypeOK, InvStack, SettledOnce, InvSearch, [Next]_vars
  PROVE  SettledOnce'
<1>1. CASE TakeBatch
  <2>1. Frontier' = next /\ Frontier = next
    <3>1. PICK last : stack' = <<Group(next, last)>>
      BY <1>1 DEF TakeBatch
    <3>2. stack' # <<>> /\ Head(stack') = Group(next, last)
      BY <3>1
    <3>. QED BY <1>1, <3>2 DEF TakeBatch, Frontier, Top, Group
  <2>2. embedded' = embedded /\ errors' = errors
    BY <1>1 DEF TakeBatch
  <2>. QED BY <2>1, <2>2, NothingNewSettled DEF FailedChunks
<1>2. CASE Embed
  <2>1. /\ stack # <<>> /\ Frontier = Top.lo /\ Frontier' = Top.hi + 1
        /\ Top.lo \in Nat /\ Top.hi \in Nat /\ Top.lo <= Top.hi /\ 1 <= Top.lo
    <3>1. stack # <<>> /\ stack' = Tail(stack) /\ next' = next /\ pc' = "embed"
      BY <1>2 DEF Embed, Settled
    <3>2. Top.lo \in 1..N
      BY <3>1, TopIsFrontier DEF Chunks
    <3>. QED BY <3>1, <3>2, TopIsFrontier, PopMovesFrontier, ParamsAssumption
  <2> DEFINE n == Len(embedded)
             m == Len(embedded')
  <2>2. /\ n \in Nat /\ DOMAIN embedded = 1..n /\ DOMAIN embedded' = 1..m
        /\ Size = Top.hi - Top.lo + 1 /\ m = n + Size
    BY <1>2, <2>1, EmbeddedGroup, LenProperties DEF TypeOK, Size
  <2>3. \A k \in 1..n : embedded'[k] = embedded[k]
    BY <1>2, EmbeddedGroup
  <2>4. ASSUME NEW k \in (n + 1)..m
        PROVE  /\ embedded'[k].chunk = Top.lo + (k - n) - 1
               /\ embedded'[k].vector.text.of = embedded'[k].chunk
    <3> DEFINE c == Top.lo + (k - n) - 1
    <3>1. embedded'[k] = Record(c, Whole(c))
      BY <1>2, EmbeddedGroup
    <3>. QED BY <3>1 DEF Record, Whole
  <2>5. \A k \in 1..n : embedded[k].chunk \in 1..(Top.lo - 1)
    BY <2>1, <2>2 DEF SettledOnce, EmbeddedChunks
  <2>6. errors' = errors
    BY <1>2 DEF Embed
  <2>. HIDE DEF n, m
  <2>7. \A j, k \in 1..m : j < k => embedded'[j].chunk < embedded'[k].chunk
    <3>. SUFFICES ASSUME NEW j \in 1..m, NEW k \in 1..m, j < k
                  PROVE  embedded'[j].chunk < embedded'[k].chunk
      OBVIOUS
    <3>1. CASE k <= n
      <4>1. j \in 1..n /\ k \in 1..n
        BY <3>1, <2>2
      <4>. QED BY <4>1, <2>2, <2>3 DEF SettledOnce
    <3>2. CASE j <= n /\ k > n
      <4>1. j \in 1..n /\ k \in (n + 1)..m
        BY <3>2, <2>2
      <4>2. embedded'[j].chunk \in 1..(Top.lo - 1) /\ embedded'[k].chunk = Top.lo + (k - n) - 1
        BY <4>1, <2>3, <2>4, <2>5
      <4>. QED BY <3>2, <4>2, <2>1, <2>2
    <3>3. CASE j > n
      <4>1. j \in (n + 1)..m /\ k \in (n + 1)..m
        BY <3>3, <2>2
      <4>. QED BY <4>1, <2>1, <2>2, <2>4
    <3>. QED BY <3>1, <3>2, <3>3, <2>2
  <2>8. \A k \in 1..m : embedded'[k].vector.text.of = embedded'[k].chunk
    <3>1. \A k \in 1..m : k \in 1..n \/ k \in (n + 1)..m
      BY <2>2
    <3>. QED BY <3>1, <2>2, <2>3, <2>4 DEF SettledOnce, VectorOf
  <2>9. EmbeddedChunks' = EmbeddedChunks \cup Top.lo..Top.hi
    <3>1. ASSUME NEW c \in EmbeddedChunks' PROVE c \in EmbeddedChunks \cup Top.lo..Top.hi
      <4>1. PICK k \in 1..m : c = embedded'[k].chunk
        BY <2>2 DEF EmbeddedChunks
      <4>2. CASE k <= n
        <5>1. k \in 1..n
          BY <4>2, <2>2
        <5>. QED BY <5>1, <4>1, <2>2, <2>3 DEF EmbeddedChunks
      <4>3. CASE k > n
        <5>1. k \in (n + 1)..m
          BY <4>3, <2>2
        <5>2. c = Top.lo + (k - n) - 1
          BY <5>1, <4>1, <2>4
        <5>. QED BY <5>1, <5>2, <2>1, <2>2
      <4>. QED BY <4>2, <4>3, <2>2
    <3>2. EmbeddedChunks \subseteq EmbeddedChunks'
      <4>1. \A k \in 1..n : k \in 1..m
        BY <2>1, <2>2
      <4>. QED BY <4>1, <2>2, <2>3 DEF EmbeddedChunks
    <3>3. ASSUME NEW c \in Top.lo..Top.hi PROVE c \in EmbeddedChunks'
      <4>1. n + (c - Top.lo) + 1 \in (n + 1)..m /\ n + (c - Top.lo) + 1 \in 1..m
        BY <2>1, <2>2
      <4>2. embedded'[n + (c - Top.lo) + 1].chunk = c
        BY <4>1, <2>1, <2>2, <2>4
      <4>. QED BY <4>1, <4>2, <2>2 DEF EmbeddedChunks
    <3>. QED BY <3>1, <3>2, <3>3
  <2>10. FailedChunks' = FailedChunks
    BY <2>6 DEF FailedChunks
  <2>11. EmbeddedChunks \cup FailedChunks = 1..(Top.lo - 1)
    BY <2>1 DEF SettledOnce
  <2>12. (Top.lo..Top.hi) \cap FailedChunks = {}
    <3>1. \A c \in Nat : c \in 1..(Top.lo - 1) => c \notin Top.lo..Top.hi
      BY <2>1
    <3>. QED BY <3>1, <2>1, <2>11
  <2>13. EmbeddedChunks' \cup FailedChunks' = 1..(Frontier' - 1)
    <3>1. 1..(Top.lo - 1) \cup Top.lo..Top.hi = 1..(Top.hi + 1 - 1)
      BY <2>1
    <3>. QED BY <3>1, <2>1, <2>9, <2>10, <2>11
  <2>14. EmbeddedChunks' \cap FailedChunks' = {}
    BY <2>9, <2>10, <2>12 DEF SettledOnce
  <2>. QED BY <2>2, <2>7, <2>8, <2>13, <2>14 DEF SettledOnce, VectorOf
<1>3. CASE Split
  <2>1. Frontier' = Frontier
    BY <1>3, SplitKeepsFrontier DEF Split
  <2>2. embedded' = embedded /\ errors' = errors
    BY <1>3 DEF Split
  <2>. QED BY <2>1, <2>2, NothingNewSettled DEF FailedChunks
<1>4. CASE GiveUp \/ NotCompactable
  <2>1. stack # <<>> /\ stack' = Tail(stack) /\ next' = next /\ pc' = "embed" /\ embedded' = embedded
    BY <1>4 DEF GiveUp, NotCompactable, Searching, Settled
  <2>2. PICK type : Failed("embedding", Members, type)
    BY <1>4 DEF GiveUp, NotCompactable
  <2>3. Frontier' = Top.hi + 1
    BY <2>1, PopMovesFrontier
  <2>. QED BY <2>1, <2>2, <2>3, FailedGroup
<1>5. CASE Compacted
  <2>1. /\ stack # <<>> /\ stack' = Tail(stack) /\ next' = next /\ pc' = "embed"
        /\ pc = "compact" /\ errors' = errors
        /\ embedded' = Append(embedded, [chunk |-> Top.lo, vector |-> search.best])
        /\ search.best # None
    BY <1>5 DEF Compacted, Searching, Settled
  <2>2. /\ Frontier = Top.lo /\ Frontier' = Top.lo + 1 /\ Top.lo \in Chunks
        /\ Top.lo \in Nat /\ 1 <= Top.lo
    <3>1. Top.lo = Top.hi
      BY <2>1 DEF InvStack
    <3>2. Top.lo \in Nat /\ Top.lo \in 1..N
      BY <2>1, TopIsFrontier DEF Chunks
    <3>. QED BY <2>1, <3>1, <3>2, TopIsFrontier, PopMovesFrontier, ParamsAssumption
  <2>3. search.best \in Vectors /\ search.best.text.of = Top.lo
    BY <2>1 DEF InvSearch, TypeOK, Searches
  <2> DEFINE n == Len(embedded)
             x == [chunk |-> Top.lo, vector |-> search.best]
  <2>4. x \in Items /\ x.chunk = Top.lo /\ x.vector.text.of = Top.lo
    BY <2>2, <2>3 DEF Items
  <2>. HIDE DEF x
  <2>5. /\ n \in Nat /\ DOMAIN embedded = 1..n /\ DOMAIN embedded' = 1..(n + 1)
        /\ (\A k \in 1..n : embedded'[k] = embedded[k]) /\ embedded'[n + 1] = x
    <3>1. embedded \in Seq(Items) /\ embedded' = Append(embedded, x)
      BY <2>1 DEF TypeOK, x
    <3>. QED BY <3>1, <2>4, AppendedItem, LenProperties
  <2>6. \A k \in 1..n : embedded[k].chunk \in 1..(Top.lo - 1)
    BY <2>2, <2>5 DEF SettledOnce, EmbeddedChunks
  <2>. HIDE DEF n
  <2>7. \A k \in 1..(n + 1) : k \in 1..n \/ k = n + 1
    BY <2>5
  <2>8. \A j, k \in 1..(n + 1) : j < k => embedded'[j].chunk < embedded'[k].chunk
    <3>. SUFFICES ASSUME NEW j \in 1..(n + 1), NEW k \in 1..(n + 1), j < k
                  PROVE  embedded'[j].chunk < embedded'[k].chunk
      OBVIOUS
    <3>1. j \in 1..n
      BY <2>5
    <3>2. CASE k \in 1..n
      BY <3>1, <3>2, <2>5 DEF SettledOnce
    <3>3. CASE k = n + 1
      <4>1. embedded'[j].chunk \in 1..(Top.lo - 1) /\ embedded'[k].chunk = Top.lo
        BY <3>1, <3>3, <2>4, <2>5, <2>6
      <4>. QED BY <4>1, <2>2
    <3>. QED BY <3>2, <3>3, <2>7
  <2>9. \A k \in 1..(n + 1) : embedded'[k].vector.text.of = embedded'[k].chunk
    BY <2>4, <2>5, <2>7 DEF SettledOnce, VectorOf
  <2>10. EmbeddedChunks' = EmbeddedChunks \cup {Top.lo}
    <3>1. EmbeddedChunks = {embedded[k].chunk : k \in 1..n}
      BY <2>5 DEF EmbeddedChunks
    <3>2. EmbeddedChunks' = {embedded'[k].chunk : k \in 1..(n + 1)}
      BY <2>5 DEF EmbeddedChunks
    <3>3. \A k \in 1..n : k \in 1..(n + 1)
      BY <2>5
    <3>4. n + 1 \in 1..(n + 1)
      BY <2>5
    <3>. QED BY <3>1, <3>2, <3>3, <3>4, <2>4, <2>5, <2>7
  <2>11. FailedChunks' = FailedChunks
    BY <2>1 DEF FailedChunks
  <2>12. EmbeddedChunks \cup FailedChunks = 1..(Top.lo - 1) /\ EmbeddedChunks \cap FailedChunks = {}
    BY <2>2 DEF SettledOnce
  <2>13. Top.lo \notin 1..(Top.lo - 1) /\ 1..(Top.lo - 1) \cup {Top.lo} = 1..(Frontier' - 1)
    BY <2>2
  <2>14. EmbeddedChunks' \cup FailedChunks' = 1..(Frontier' - 1) /\ EmbeddedChunks' \cap FailedChunks' = {}
    BY <2>10, <2>11, <2>12, <2>13
  <2>. QED BY <2>5, <2>8, <2>9, <2>14 DEF SettledOnce, VectorOf
<1>6. CASE UNCHANGED <<stack, next, embedded>> /\ FailedChunks' = FailedChunks
  BY <1>6, NothingNewSettled DEF Frontier, Top
<1>7. ASSUME NEW type, errors' \in {errors, errors \cup {Error("vector", {}, type)}}
      PROVE  FailedChunks' = FailedChunks
  <2>1. \A e \in {Error("vector", {}, type)} : e.stage # "embedding"
    BY DEF Error
  <2>. QED BY <1>7, <2>1 DEF FailedChunks
<1>8. CASE Retry \/ StartCompaction \/ CandidateFits \/ CandidateTooLong \/ ProgressFails
           \/ HandOver \/ ReportFailure \/ ListExisting \/ UpsertPart \/ DeleteStale \/ SetMetadata
           \/ Relist \/ Report \/ Swap \/ UNCHANGED vars
  <2>1. UNCHANGED <<stack, next, embedded, errors>>
    BY <1>8 DEF Retry, StartCompaction, CandidateFits, CandidateTooLong, Searching, ProgressFails,
       HandOver, ReportFailure, ListExisting, UpsertPart, DeleteStale, SetMetadata, Relist, Report,
       Swap, vars
  <2>. QED BY <2>1, <1>6 DEF FailedChunks
<1>9. CASE CheckDimensions \/ UpsertRefused \/ Compare \/ StoreFails \/ RelistFails
  <2>1. UNCHANGED <<stack, next, embedded>>
    BY <1>9 DEF CheckDimensions, UpsertRefused, Compare, StoreFails, RelistFails
  <2>2. \E type : errors' \in {errors, errors \cup {Error("vector", {}, type)}}
    BY <1>9 DEF CheckDimensions, UpsertRefused, Compare, StoreFails, RelistFails, Failed
  <2>. QED BY <2>1, <2>2, <1>6, <1>7
<1>10. CASE Rerun
  <2>1. embedded' = <<>> /\ errors' = {} /\ stack' = <<>> /\ next' = 1
    BY <1>10 DEF Rerun
  <2>2. DOMAIN embedded' = {} /\ FailedChunks' = {} /\ Frontier' = 1
    BY <2>1 DEF FailedChunks, Frontier
  <2>3. EmbeddedChunks' = {}
    BY <2>2 DEF EmbeddedChunks
  <2>4. 1..(1 - 1) = {}
    OBVIOUS
  <2>. QED BY <2>2, <2>3, <2>4 DEF SettledOnce
<1>. QED BY <1>1, <1>2, <1>3, <1>4, <1>5, <1>8, <1>9, <1>10 DEF Next, Step
(* The bisection goes on closing in on what the provider takes.              *)
LEMMA SearchStep ==
  ASSUME TypeOK, InvStack, InvSearch, [Next]_vars
  PROVE  InvSearch'
<1>1. CASE StartCompaction
  <2>1. /\ stack # <<>> /\ Top.lo \in Chunks /\ Top.lo = Top.hi
    BY <1>1, TopIsFrontier DEF StartCompaction, Searching, Size
  <2>2. limit[Top.lo] # Lines[Top.lo]
    <3>1. PICK c \in Members : ~Fits(Whole(c))
      BY <1>1 DEF StartCompaction, AllFit
    <3>2. c = Top.lo
      BY <2>1, <3>1, TopIsFrontier DEF Members
    <3>. QED BY <3>1, <3>2 DEF Fits, Whole
  <2>3. limit[Top.lo] \in Nat /\ limit[Top.lo] <= Lines[Top.lo] /\ Lines[Top.lo] \in Nat
    BY <2>1, ParamsAssumption DEF TypeOK
  <2>4. /\ search'.low = 1 /\ search'.best = None /\ Top' = Top /\ limit' = limit
        /\ search'.high = IF Lines[Top.lo] > 1 THEN Lines[Top.lo] - 1 ELSE 1
    BY <1>1 DEF StartCompaction, Top
  <2>. QED BY <2>2, <2>3, <2>4 DEF InvSearch
<1>2. CASE CandidateFits \/ CandidateTooLong
  <2>1. pc = "compact" /\ search.low <= search.high /\ Top' = Top /\ limit' = limit
    BY <1>2 DEF CandidateFits, CandidateTooLong, Searching, Top
  <2>2. search.low \in Nat /\ search.high \in Nat
    BY DEF TypeOK, Searches
  <2>3. CASE CandidateFits
    <3>1. Keep \in Nat \ {0} /\ search.low <= Keep /\ Keep <= limit[Top.lo] /\ limit[Top.lo] \in Nat
      BY <2>1, <2>3, CandidateFacts DEF CandidateFits
    <3> DEFINE v == Record(Top.lo, Candidate).vector
    <3>2. v.text = [of |-> Top.lo, keep |-> Keep]
      BY DEF Record, Candidate
    <3>3. v # None
      <4>1. Keep \in 0..MaxLines /\ Top.lo \in Ids /\ serving \in Models
        BY <2>1, <2>3, <3>1, CandidateFacts, ParamsAssumption DEF Ids, TypeOK
      <4>2. v \in Vectors
        BY <4>1 DEF Record, Candidate, Vectors, Texts
      <4>. QED BY <4>2, ParamsAssumption
    <3>. HIDE DEF v
    <3>4. search'.low = Keep + 1 /\ search'.high = search.high /\ search'.best = v
      BY <2>3 DEF CandidateFits, TypeOK, Searches, v
    <3>. QED BY <2>1, <2>2, <3>1, <3>2, <3>3, <3>4 DEF InvSearch
  <2>4. CASE CandidateTooLong
    <3>1. /\ Keep \in Nat \ {0} /\ search.low <= Keep /\ Keep > limit[Top.lo]
          /\ limit[Top.lo] \in Nat
      BY <2>1, <2>4, CandidateFacts DEF CandidateTooLong
    <3>2. search'.low = search.low /\ search'.high = Keep - 1 /\ search'.best = search.best
      BY <2>4 DEF CandidateTooLong, TypeOK, Searches
    <3>. QED BY <2>1, <2>2, <3>1, <3>2 DEF InvSearch
  <2>. QED BY <1>2, <2>3, <2>4
<1>3. CASE Retry \/ Swap \/ UNCHANGED vars
  BY <1>3 DEF Retry, Swap, vars, InvSearch, Top
<1>4. CASE pc' # "compact"
  BY <1>4 DEF InvSearch
<1>. QED BY <1>1, <1>2, <1>3, <1>4 DEF Next, Step, TakeBatch, ProgressFails, Embed, Split, GiveUp,
       Compacted, NotCompactable, Searching, CheckDimensions, HandOver, ReportFailure, ListExisting,
       UpsertRefused, UpsertPart, DeleteStale, Compare, SetMetadata, StoreFails, Relist,
       RelistFails, Report, Rerun

(* What is embedded is embedded with the most lines the provider takes.      *)
LEMMA CompactionStep ==
  ASSUME TypeOK, InvStack, SettledOnce, InvSearch, InvLongest,
         truncated \subseteq EmbeddedChunks, [Next]_vars
  PROVE  InvLongest' /\ (truncated \subseteq EmbeddedChunks)'
<1>1. ASSUME limit' = limit, embedded' = embedded, truncated' = truncated,
             \A e \in errors' : e \in errors \/ e.type # "InputTooLong"
                                           \/ \A c \in e.chunks : limit[c] = 0
      PROVE  InvLongest' /\ (truncated \subseteq EmbeddedChunks)'
  BY <1>1 DEF InvLongest, Longest, VectorOf, EmbeddedChunks
<1>2. DOMAIN embedded = 1..Len(embedded) /\ Len(embedded) \in Nat
  BY LenProperties DEF TypeOK
<1>3. ASSUME stack # <<>>, NEW k \in DOMAIN embedded PROVE embedded[k].chunk \in 1..(Top.lo - 1)
  BY <1>3, TopIsFrontier DEF SettledOnce, EmbeddedChunks
<1>4. CASE Embed
  <2>1. stack # <<>> /\ AllFit /\ UNCHANGED <<limit, truncated, errors>>
    BY <1>4 DEF Embed
  <2>2. Top.lo \in Nat /\ Top.hi \in Nat /\ Top.lo <= Top.hi
    BY <2>1, TopIsFrontier
  <2> DEFINE n == Len(embedded)
             m == Len(embedded')
  <2>3. /\ DOMAIN embedded' = 1..m /\ m = n + Size /\ Size \in Nat
        /\ \A k \in 1..n : embedded'[k] = embedded[k]
    BY <1>4, <2>2, EmbeddedGroup DEF Size
  <2>4. ASSUME NEW k \in (n + 1)..m
        PROVE  Longest(embedded'[k].chunk, embedded'[k].vector.text.keep, truncated)
    <3> DEFINE c == Top.lo + (k - n) - 1
    <3>1. c \in Members /\ embedded'[k] = Record(c, Whole(c))
      BY <1>4, EmbeddedGroup
    <3>2. c \notin truncated
      <4>1. c \notin 1..(Top.lo - 1)
        BY <2>2, <3>1 DEF Members
      <4>2. \A x \in truncated : x \in 1..(Top.lo - 1)
        BY <2>1, <1>3 DEF EmbeddedChunks
      <4>. QED BY <4>1, <4>2
    <3>3. limit[c] = Lines[c]
      BY <2>1, <3>1 DEF AllFit, Fits, Whole
    <3>. HIDE DEF c
    <3>4. embedded'[k].chunk = c /\ embedded'[k].vector.text.keep = 0
      BY <3>1 DEF Record, Whole
    <3>. QED BY <3>2, <3>3, <3>4 DEF Longest
  <2>5. \A k \in 1..m : k \in 1..n \/ k \in (n + 1)..m
    BY <1>2
  <2>6. \A k \in 1..n : k \in 1..m
    BY <1>2, <2>3
  <2>. HIDE DEF n, m
  <2>7. \A k \in 1..n : Longest(embedded[k].chunk, embedded[k].vector.text.keep, truncated)
    BY <1>2 DEF InvLongest, VectorOf, n
  <2>8. \A k \in 1..m : Longest(embedded'[k].chunk, embedded'[k].vector.text.keep, truncated)
    BY <2>3, <2>4, <2>5, <2>7
  <2>9. InvLongest'
    BY <2>1, <2>3, <2>8 DEF InvLongest, Longest, VectorOf
  <2>10. EmbeddedChunks \subseteq EmbeddedChunks'
    BY <1>2, <2>3, <2>6 DEF EmbeddedChunks, n
  <2>. QED BY <2>1, <2>9, <2>10
<1>5. CASE Compacted
  <2>1. /\ stack # <<>> /\ pc = "compact" /\ UNCHANGED <<limit, errors>>
        /\ search.low > search.high /\ search.best # None
        /\ truncated' = truncated \cup {Top.lo}
        /\ embedded' = Append(embedded, [chunk |-> Top.lo, vector |-> search.best])
    BY <1>5 DEF Compacted, Searching
  <2>2. /\ Top.lo \in Chunks /\ Top.lo \in Nat /\ search.best \in Vectors
        /\ search.low \in Nat /\ search.high \in Nat
    BY <2>1, TopIsFrontier DEF TypeOK, Searches
  <2>3. limit[Top.lo] \in Nat
    BY <2>2, ParamsAssumption DEF TypeOK
  <2>4. /\ search.best.text.keep = limit[Top.lo] /\ 0 < limit[Top.lo]
        /\ limit[Top.lo] < Lines[Top.lo]
    BY <2>1, <2>2, <2>3 DEF InvSearch
  <2> DEFINE n == Len(embedded)
             x == [chunk |-> Top.lo, vector |-> search.best]
  <2>5. x \in Items /\ x.chunk = Top.lo /\ x.vector.text.keep = limit[Top.lo]
    BY <2>2, <2>4 DEF Items
  <2>. HIDE DEF x
  <2>6. /\ DOMAIN embedded' = 1..(n + 1)
        /\ (\A k \in 1..n : embedded'[k] = embedded[k]) /\ embedded'[n + 1] = x
    <3>1. embedded \in Seq(Items) /\ embedded' = Append(embedded, x)
      BY <2>1 DEF TypeOK, x
    <3>. QED BY <3>1, <2>5, AppendedItem
  <2>7. \A k \in 1..n : embedded[k].chunk # Top.lo
    BY <1>2, <1>3, <2>1, <2>2
  <2>8. \A k \in 1..n : Longest(embedded[k].chunk, embedded[k].vector.text.keep, truncated')
    BY <1>2, <2>1, <2>7 DEF InvLongest, Longest, VectorOf
  <2>9. Longest(x.chunk, x.vector.text.keep, truncated')
    BY <2>1, <2>4, <2>5 DEF Longest
  <2>10. (\A k \in 1..(n + 1) : k \in 1..n \/ k = n + 1) /\ n + 1 \in 1..(n + 1)
    BY <1>2
  <2>11. \A k \in 1..n : k \in 1..(n + 1)
    BY <1>2
  <2>. HIDE DEF n
  <2>12. \A k \in 1..(n + 1) : Longest(embedded'[k].chunk, embedded'[k].vector.text.keep, truncated')
    BY <2>6, <2>8, <2>9, <2>10
  <2>13. InvLongest'
    BY <2>1, <2>6, <2>12 DEF InvLongest, Longest, VectorOf
  <2>14. EmbeddedChunks \subseteq EmbeddedChunks' /\ Top.lo \in EmbeddedChunks'
    BY <1>2, <2>5, <2>6, <2>10, <2>11 DEF EmbeddedChunks, n
  <2>. QED BY <2>1, <2>13, <2>14
<1>6. CASE NotCompactable
  <2>1. /\ stack # <<>> /\ pc = "compact" /\ UNCHANGED <<limit, embedded, truncated>>
        /\ search.low > search.high /\ search.best = None
        /\ errors' = errors \cup {Error("embedding", Members, "InputTooLong")}
    BY <1>6 DEF NotCompactable, Searching, Failed
  <2>2. Top.lo = Top.hi /\ Top.lo \in Chunks /\ Top.lo \in Nat
    BY <2>1, TopIsFrontier DEF InvStack
  <2>3. limit[Top.lo] \in Nat /\ search.low \in Nat /\ search.high \in Nat
    BY <2>2, ParamsAssumption DEF TypeOK, Searches
  <2>4. limit[Top.lo] = 0
    BY <2>1, <2>3 DEF InvSearch
  <2>5. \A c \in Members : c = Top.lo
    BY <2>2 DEF Members
  <2>6. Error("embedding", Members, "InputTooLong").chunks = Members
    BY DEF Error
  <2>. QED BY <1>1, <2>1, <2>4, <2>5, <2>6
<1>7. CASE GiveUp
  <2>1. Error("embedding", Members, "ProviderError").type # "InputTooLong"
    BY DEF Error
  <2>. QED BY <1>1, <1>7, <2>1 DEF GiveUp, Failed
<1>8. CASE CheckDimensions \/ UpsertRefused \/ Compare \/ StoreFails \/ RelistFails
  <2>1. UNCHANGED <<limit, embedded, truncated>>
    BY <1>8 DEF CheckDimensions, UpsertRefused, Compare, StoreFails, RelistFails
  <2>2. \E type : type # "InputTooLong" /\ errors' \in {errors, errors \cup {Error("vector", {}, type)}}
    BY <1>8 DEF CheckDimensions, UpsertRefused, Compare, StoreFails, RelistFails, Failed
  <2>3. \A type : type # "InputTooLong" => Error("vector", {}, type).type # "InputTooLong"
    BY DEF Error
  <2>. QED BY <1>1, <2>1, <2>2, <2>3
<1>9. CASE TakeBatch \/ ProgressFails \/ Split \/ Retry \/ StartCompaction \/ CandidateFits
           \/ CandidateTooLong \/ HandOver \/ ReportFailure \/ ListExisting \/ UpsertPart
           \/ DeleteStale \/ SetMetadata \/ Relist \/ Report \/ Swap \/ UNCHANGED vars
  <2>1. UNCHANGED <<limit, embedded, truncated, errors>>
    BY <1>9 DEF TakeBatch, ProgressFails, Split, Retry, StartCompaction, CandidateFits,
       CandidateTooLong, Searching, HandOver, ReportFailure, ListExisting, UpsertPart, DeleteStale,
       SetMetadata, Relist, Report, Swap, vars
  <2>. QED BY <1>1, <2>1
<1>10. CASE Rerun
  <2>1. embedded' = <<>> /\ errors' = {} /\ truncated' = {}
    BY <1>10 DEF Rerun
  <2>2. DOMAIN embedded' = {}
    BY <2>1
  <2>. QED BY <2>1, <2>2 DEF InvLongest
<1>. QED BY <1>4, <1>5, <1>6, <1>7, <1>8, <1>9, <1>10 DEF Next, Step
(* The vectors of a run nothing happened to are of the server's model.       *)
LEMMA ServedStep ==
  ASSUME TypeOK, InvStack, InvServed, [Next]_vars
  PROVE  InvServed'
<1>1. CASE spoiled' = TRUE
  BY <1>1 DEF InvServed
<1>2. CASE GiveUp \/ ProgressFails \/ StoreFails \/ RelistFails \/ Swap
  BY <1>1, <1>2 DEF GiveUp, ProgressFails, StoreFails, RelistFails, Swap
<1>3. CASE Embed
  <2>1. /\ stack # <<>> /\ spoiled' = spoiled /\ serving' = serving /\ search'.best = None
    BY <1>3 DEF Embed, Settled, NoSearch
  <2> DEFINE n == Len(embedded)
             m == Len(embedded')
  <2>2. /\ DOMAIN embedded = 1..n /\ n \in Nat /\ DOMAIN embedded' = 1..m
        /\ \A k \in 1..n : embedded'[k] = embedded[k]
    BY <1>3, EmbeddedGroup, LenProperties DEF TypeOK
  <2>3. ASSUME NEW k \in (n + 1)..m PROVE embedded'[k].vector.model = serving
    <3> DEFINE c == Top.lo + (k - n) - 1
    <3>1. embedded'[k] = Record(c, Whole(c))
      BY <1>3, EmbeddedGroup
    <3>. QED BY <3>1 DEF Record
  <2>4. \A k \in 1..m : k \in 1..n \/ k \in (n + 1)..m
    BY <2>2
  <2>. HIDE DEF n, m
  <2>. QED BY <2>1, <2>2, <2>3, <2>4 DEF InvServed, VectorOf
<1>4. CASE Compacted
  <2>1. /\ stack # <<>> /\ spoiled' = spoiled /\ serving' = serving /\ search'.best = None
        /\ search.best # None
        /\ embedded' = Append(embedded, [chunk |-> Top.lo, vector |-> search.best])
    BY <1>4 DEF Compacted, Searching, Settled, NoSearch
  <2> DEFINE n == Len(embedded)
             x == [chunk |-> Top.lo, vector |-> search.best]
  <2>2. x \in Items /\ x.vector = search.best
    BY <2>1, TopIsFrontier DEF Items, TypeOK, Searches
  <2>. HIDE DEF x
  <2>3. /\ DOMAIN embedded = 1..n /\ n \in Nat /\ DOMAIN embedded' = 1..(n + 1)
        /\ (\A k \in 1..n : embedded'[k] = embedded[k]) /\ embedded'[n + 1] = x
    <3>1. embedded \in Seq(Items) /\ embedded' = Append(embedded, x)
      BY <2>1 DEF TypeOK, x
    <3>. QED BY <3>1, <2>2, AppendedItem, LenProperties
  <2>4. \A k \in 1..(n + 1) : k \in 1..n \/ k = n + 1
    BY <2>3
  <2>. HIDE DEF n
  <2>. QED BY <2>1, <2>2, <2>3, <2>4 DEF InvServed, VectorOf
<1>5. CASE CandidateFits
  <2>1. /\ UNCHANGED <<embedded, spoiled, serving>> /\ search'.best = Record(Top.lo, Candidate).vector
    BY <1>5 DEF CandidateFits, TypeOK, Searches
  <2>2. search'.best.model = serving
    BY <2>1 DEF Record
  <2>. QED BY <2>1, <2>2 DEF InvServed, VectorOf
<1>6. CASE StartCompaction \/ NotCompactable \/ CandidateTooLong
  <2>1. /\ UNCHANGED <<embedded, spoiled, serving>>
        /\ search'.best = None \/ search'.best = search.best
    BY <1>6 DEF StartCompaction, NotCompactable, CandidateTooLong, Settled, NoSearch, TypeOK, Searches
  <2>. QED BY <2>1 DEF InvServed, VectorOf
<1>7. CASE TakeBatch \/ Split \/ Retry \/ CheckDimensions \/ HandOver \/ ReportFailure
           \/ ListExisting \/ UpsertRefused \/ UpsertPart \/ DeleteStale \/ Compare \/ SetMetadata
           \/ Relist \/ Report \/ UNCHANGED vars
  <2>1. UNCHANGED <<embedded, spoiled, serving, search>>
    BY <1>7 DEF TakeBatch, Split, Retry, CheckDimensions, HandOver, ReportFailure, ListExisting,
       UpsertRefused, UpsertPart, DeleteStale, Compare, SetMetadata, Relist, Report, vars
  <2>. QED BY <2>1 DEF InvServed, VectorOf
<1>8. CASE Rerun
  <2>1. embedded' = <<>> /\ search'.best = None
    BY <1>8 DEF Rerun, NoSearch
  <2>2. DOMAIN embedded' = {}
    BY <2>1
  <2>. QED BY <2>1, <2>2 DEF InvServed
<1>. QED BY <1>2, <1>3, <1>4, <1>5, <1>6, <1>7, <1>8 DEF Next, Step

(* Errors name chunks only if embedding them failed, and stop the run.       *)
LEMMA ErrorsStep ==
  ASSUME TypeOK, InvStack, InvErrors, [Next]_vars
  PROVE  InvErrors'
<1>1. CASE GiveUp \/ NotCompactable
  <2>1. stack # <<>> /\ pc' = "embed" /\ pc \in Working
    BY <1>1 DEF GiveUp, NotCompactable, Searching, Working
  <2>2. PICK type : errors' = errors \cup {Error("embedding", Members, type)}
    BY <1>1 DEF GiveUp, NotCompactable, Failed
  <2>3. Members # {}
    <3>1. Top.lo \in Top.lo..Top.hi
      BY <2>1, TopIsFrontier
    <3>. QED BY <3>1 DEF Members
  <2> DEFINE e == Error("embedding", Members, type)
  <2>4. e.stage = "embedding" /\ e.chunks # {}
    BY <2>3 DEF Error
  <2>. HIDE DEF e
  <2>5. errors' = errors \cup {e}
    BY <2>2 DEF e
  <2>. QED BY <2>1, <2>4, <2>5 DEF InvErrors, Mirroring, Working
<1>2. \A type : Error("vector", {}, type).stage = "vector" /\ Error("vector", {}, type).chunks = {}
                /\ Error("vector", {}, type).type = type
  BY DEF Error
<1>3. CASE CheckDimensions \/ UpsertRefused \/ Compare \/ StoreFails \/ RelistFails
  <2>1. PICK type : /\ type \in {"DimensionMismatch", "VectorIndexError", "IncompleteIndex"}
                    /\ errors' \in {errors, errors \cup {Error("vector", {}, type)}}
    BY <1>3 DEF CheckDimensions, UpsertRefused, Compare, StoreFails, RelistFails, Failed
  <2>2. /\ \A e \in errors' : e.stage = "embedding" \/ e.type = "InputTooLong" => e.chunks # {}
        /\ \A e \in errors' : e.stage = "vector" => e.chunks = {}
    BY <1>2, <2>1 DEF InvErrors
  <2>3. CASE CheckDimensions
    BY <2>2, <2>3 DEF CheckDimensions, InvErrors, Working, Mirroring
  <2>4. CASE Compare
    BY <2>2, <2>4 DEF Compare, InvErrors, Working, Mirroring
  <2>5. CASE UpsertRefused \/ StoreFails \/ RelistFails
    <3>1. errors' # {} /\ pc' \in {"relist", "report"} /\ caller' = caller /\ caller = "project"
      BY <2>5 DEF UpsertRefused, StoreFails, RelistFails, Failed, InvErrors, Mirroring
    <3>. QED BY <2>2, <3>1 DEF InvErrors, Working, Mirroring
  <2>. QED BY <1>3, <2>3, <2>4, <2>5
<1>4. CASE Rerun
  BY <1>4 DEF Rerun, InvErrors, Working, Mirroring
<1>5. CASE TakeBatch \/ ProgressFails \/ Embed \/ Split \/ Retry \/ StartCompaction \/ CandidateFits
           \/ CandidateTooLong \/ Compacted
  BY <1>5 DEF TakeBatch, ProgressFails, Embed, Split, Retry, StartCompaction, CandidateFits,
     CandidateTooLong, Compacted, Searching, InvErrors, Working, Mirroring
<1>6. CASE HandOver \/ ReportFailure \/ ListExisting \/ UpsertPart \/ DeleteStale \/ SetMetadata
           \/ Relist \/ Report \/ Swap \/ UNCHANGED vars
  BY <1>6 DEF HandOver, ReportFailure, ListExisting, UpsertPart, DeleteStale, SetMetadata, Relist,
     Report, Swap, vars, InvErrors, Working, Mirroring
<1>. QED BY <1>1, <1>3, <1>4, <1>5, <1>6 DEF Next, Step
-----------------------------------------------------------------------------
(* The collection                                                            *)

(* What the mirrored chunks are, their ids are the ids of the collection.    *)
LEMMA MirroredIds ==
  ASSUME TypeOK, Mirrored
  PROVE  Stored = Chunks /\ EmbeddedChunks = Chunks
<1>1. \A k \in DOMAIN embedded : embedded[k] \in Items
  BY LenProperties DEF TypeOK
<1>2. \A k \in DOMAIN embedded : VectorOf(k) # None /\ embedded[k].chunk \in Chunks
  BY <1>1, ParamsAssumption DEF Items, VectorOf
<1>3. \A c \in Chunks : c \in EmbeddedChunks /\ index[c] # None
  BY <1>2 DEF Mirrored, EmbeddedChunks
<1>4. \A i \in Ids : i \in Stored <=> i \in Chunks
  BY <1>3 DEF Ids, Stored, Mirrored
<1>. QED BY <1>2, <1>3, <1>4 DEF Ids, Stored, EmbeddedChunks

(* Without an error, all chunks are embedded once the batches are done.      *)
LEMMA AllEmbedded ==
  ASSUME TypeOK, InvStack, SettledOnce, pc \notin Working \cup {"done"},
         \A e \in errors : e.stage # "embedding"
  PROVE  EmbeddedChunks = Chunks
<1>1. FailedChunks = {}
  BY DEF FailedChunks
<1>2. Frontier = N + 1
  BY DEF InvStack, Frontier
<1>. QED BY <1>1, <1>2, ParamsAssumption DEF SettledOnce, Chunks

(* A run nothing happened to has vectors of one dimension.                   *)
LEMMA ServedDimension ==
  ASSUME TypeOK, InvServed, ~spoiled
  PROVE  /\ \A w \in Widths : w = Dim[serving]
         /\ ~DimensionsDiffer
         /\ embedded # <<>> => Dim[serving] \in Widths
<1>1. \A k \in DOMAIN embedded : Width(VectorOf(k)) = Dim[serving]
  BY DEF InvServed, Width
<1>2. embedded # <<>> => 1 \in DOMAIN embedded
  <2>1. embedded # <<>> => Len(embedded) \in Nat \ {0}
    BY EmptySeq, LenProperties DEF TypeOK
  <2>. QED BY <2>1, LenProperties DEF TypeOK
<1>. QED BY <1>1, <1>2 DEF Widths, DimensionsDiffer

(* Nothing but a chunk too long, or a collection of another dimension, stops *)
(* a run nothing happened to.                                                *)
LEMMA CleanStep ==
  ASSUME TypeOK, InvServed, InvErrors, InvClean, InvMirror, [Next]_vars
  PROVE  InvClean'
<1>1. CASE GiveUp \/ ProgressFails \/ StoreFails \/ RelistFails \/ Swap
  BY <1>1 DEF GiveUp, ProgressFails, StoreFails, RelistFails, Swap, InvClean
<1>2. CASE pc' = "done"
  BY <1>2 DEF InvClean
<1>3. CASE NotCompactable
  <2>1. Error("embedding", Members, "InputTooLong").type = "InputTooLong"
    BY DEF Error
  <2>. QED BY <1>3, <2>1 DEF NotCompactable, Searching, Failed, InvClean
<1>4. CASE CheckDimensions
  <2>1. ~spoiled => errors' = errors
    BY <1>4, ServedDimension DEF CheckDimensions
  <2>. QED BY <1>4, <2>1 DEF CheckDimensions, InvClean
<1>5. CASE UpsertRefused
  <2>1. ~spoiled => OtherDimension
    <3>. SUFFICES ASSUME ~spoiled PROVE OtherDimension
      OBVIOUS
    <3>1. Dim[serving] \in Widths /\ ~DimensionsDiffer
      BY <1>5, ServedDimension DEF UpsertRefused, Refused
    <3>2. caller = "project"
      BY <1>5 DEF UpsertRefused, InvErrors, Mirroring
    <3>. QED BY <1>5, <3>1, <3>2 DEF UpsertRefused, Refused, OtherDimension
  <2>. QED BY <1>5, <2>1 DEF UpsertRefused, InvClean, OtherDimension, Stored
<1>6. CASE Compare
  <2>1. Stored = Chunks /\ errors = {}
    BY <1>6, MirroredIds DEF Compare, InvMirror, InvErrors, Mirroring
  <2>2. errors' = {}
    BY <1>6, <2>1 DEF Compare
  <2>. QED BY <2>2 DEF InvClean
<1>7. CASE SetMetadata
  BY <1>7 DEF SetMetadata, InvClean, InvErrors, Mirroring
<1>8. CASE ReportFailure \/ Relist
  BY <1>8 DEF ReportFailure, Relist, InvClean, OtherDimension, Stored
<1>9. CASE TakeBatch \/ Embed \/ Split \/ Retry \/ StartCompaction \/ CandidateFits
           \/ CandidateTooLong \/ Compacted \/ ListExisting \/ UpsertPart \/ DeleteStale
  <2>1. /\ pc \notin {"relist", "report", "done"} /\ pc' \notin {"relist", "report", "done"}
        /\ UNCHANGED <<errors, spoiled>>
    BY <1>9 DEF TakeBatch, Embed, Split, Retry, StartCompaction, CandidateFits, CandidateTooLong,
       Compacted, Searching, ListExisting, UpsertPart, DeleteStale
  <2>. QED BY <2>1 DEF InvClean
<1>10. CASE Rerun
  BY <1>10 DEF Rerun, InvClean
<1>11. CASE HandOver \/ Report
  BY <1>2, <1>11 DEF HandOver, Report
<1>12. CASE UNCHANGED vars
  BY <1>12 DEF vars, InvClean, OtherDimension, Stored
<1>. QED BY <1>1, <1>3, <1>4, <1>5, <1>6, <1>7, <1>8, <1>9, <1>10, <1>11, <1>12 DEF Next, Step

(* What the parts upserted so far leave in the collection.                   *)
LEMMA PartUpserted ==
  ASSUME TypeOK, SettledOnce, InvMirror, UpsertPart
  PROVE  /\ sent' \in Nat /\ sent < sent' /\ sent' <= Len(embedded) /\ Len(embedded) \in Nat
         /\ \A k \in 1..sent' : index'[embedded[k].chunk] = VectorOf(k)
         /\ \A i \in Ids : \/ index'[i] = index[i]
                          \/ \E k \in DOMAIN embedded : i = embedded[k].chunk /\ index'[i] = VectorOf(k)
         /\ \A i \in Stale : index'[i] = index[i]
         /\ ~DimensionsDiffer /\ \A i \in Stored : Width(index[i]) \in Widths
<1> DEFINE last == IF sent + PartSize < Len(embedded) THEN sent + PartSize ELSE Len(embedded)
           part == (sent + 1)..last
           at(i) == CHOOSE k \in part : embedded[k].chunk = i
           new  == [i \in Ids |-> IF \E k \in part : embedded[k].chunk = i
                                 THEN VectorOf(at(i)) ELSE index[i]]
<1>1. index' = new /\ sent' = last
  BY Zenon DEF UpsertPart
<1>2. Len(embedded) \in Nat /\ DOMAIN embedded = 1..Len(embedded) /\ sent < Len(embedded) /\ sent \in Nat
  BY LenProperties DEF TypeOK, UpsertPart
<1>3. last \in Nat /\ sent < last /\ last <= Len(embedded) /\ part \subseteq DOMAIN embedded
  BY <1>2, ParamsAssumption
<1>4. \A j, k \in DOMAIN embedded : embedded[j].chunk = embedded[k].chunk => j = k
  <2>1. ASSUME NEW j \in DOMAIN embedded, NEW k \in DOMAIN embedded, j < k
        PROVE  embedded[j].chunk # embedded[k].chunk
    <3>1. embedded[j] \in Items /\ embedded[k] \in Items
      BY LenProperties DEF TypeOK
    <3>2. embedded[j].chunk \in Nat /\ embedded[k].chunk \in Nat
      BY <3>1, ParamsAssumption DEF Items, Chunks
    <3>3. embedded[j].chunk < embedded[k].chunk
      BY <2>1 DEF SettledOnce
    <3>. QED BY <3>2, <3>3
  <2>. QED BY <2>1, <1>2
<1>5. \A k \in DOMAIN embedded : embedded[k].chunk \in Chunks /\ embedded[k].chunk \in Ids
  <2>1. \A k \in DOMAIN embedded : embedded[k] \in Items
    BY LenProperties DEF TypeOK
  <2>. QED BY <2>1 DEF Items, Ids
<1>6. \A j \in 1..last : (j \in 1..sent \/ j \in part) /\ j \in DOMAIN embedded
  BY <1>2, <1>3
<1>7. \A j \in part : ~(j \in 1..sent)
  BY <1>2, <1>3
<1>. HIDE DEF part, last
<1>8. ASSUME NEW k \in part PROVE new[embedded[k].chunk] = VectorOf(k)
  <2>1. at(embedded[k].chunk) = k
    BY <1>3, <1>4
  <2>. QED BY <2>1, <1>3, <1>5
<1>9. ASSUME NEW k \in 1..sent PROVE new[embedded[k].chunk] = VectorOf(k)
  <2>1. k \in DOMAIN embedded
    BY <1>2
  <2>2. ~ \E j \in part : embedded[j].chunk = embedded[k].chunk
    BY <2>1, <1>3, <1>4, <1>7
  <2>3. new[embedded[k].chunk] = index[embedded[k].chunk]
    BY <2>1, <2>2, <1>5
  <2>. QED BY <2>3 DEF InvMirror, UpsertPart
<1>10. ASSUME NEW i \in Ids
       PROVE  \/ new[i] = index[i]
              \/ \E k \in DOMAIN embedded : i = embedded[k].chunk /\ new[i] = VectorOf(k)
  <2>1. CASE \E k \in part : embedded[k].chunk = i
    <3>1. PICK k \in part : embedded[k].chunk = i
      BY <2>1
    <3>. HIDE DEF new
    <3>. QED BY <3>1, <1>3, <1>8
  <2>2. CASE ~ \E k \in part : embedded[k].chunk = i
    BY <2>2
  <2>. QED BY <2>1, <2>2
<1>11. ASSUME NEW i \in Stale PROVE new[i] = index[i]
  <2>1. i \in Ids /\ i \notin Chunks
    BY ParamsAssumption DEF Ids
  <2>2. ~ \E k \in part : embedded[k].chunk = i
    BY <2>1, <1>3, <1>5
  <2>. QED BY <2>1, <2>2
<1>12. ~DimensionsDiffer /\ \A i \in Stored : Width(index[i]) \in Widths
  <2>1. embedded # <<>>
    BY <1>2 DEF TypeOK
  <2>2. CASE sent > 0
    BY <2>2 DEF InvMirror, UpsertPart
  <2>3. CASE sent = 0
    BY <2>1, <2>3 DEF UpsertPart, Refused
  <2>. QED BY <2>2, <2>3, <1>2
<1>. HIDE DEF new
<1>13. \A k \in 1..last : new[embedded[k].chunk] = VectorOf(k)
  BY <1>6, <1>8, <1>9
<1>. QED BY <1>1, <1>2, <1>3, <1>10, <1>11, <1>12, <1>13
(* The parts, the deletion, the comparison and the metadata of index_project *)
LEMMA MirrorStep ==
  ASSUME TypeOK, InvStack, SettledOnce, InvErrors, InvMirror, [Next]_vars
  PROVE  InvMirror'
<1>1. Len(embedded) \in Nat /\ sent \in Nat /\ Len(embedded) >= 0
  BY LenProperties DEF TypeOK
<1>2. CASE TakeBatch \/ ProgressFails \/ Embed \/ Split \/ Retry \/ GiveUp \/ StartCompaction
           \/ CandidateFits \/ CandidateTooLong \/ Compacted \/ NotCompactable \/ Swap
  <2>1. pc \in Working /\ pc' \in Working \cup {"done"} /\ UNCHANGED <<sent, report>>
    BY <1>2 DEF TakeBatch, ProgressFails, Embed, Split, Retry, GiveUp, StartCompaction, CandidateFits,
       CandidateTooLong, Compacted, NotCompactable, Searching, Swap, Working
  <2>. QED BY <2>1 DEF InvMirror, Working
<1>3. CASE CheckDimensions \/ ReportFailure
  <2>1. /\ pc \in Working \cup {"prepared"} /\ pc' \in {"prepared", "relist"}
        /\ UNCHANGED <<sent, report>>
    BY <1>3 DEF CheckDimensions, ReportFailure, Working
  <2>. QED BY <2>1 DEF InvMirror, Working
<1>4. CASE HandOver
  BY <1>4 DEF HandOver, InvMirror, Working
<1>5. CASE ListExisting
  BY <1>1, <1>5 DEF ListExisting, InvMirror, Working, Stored, Ids
<1>6. CASE UpsertRefused \/ RelistFails \/ StoreFails
  <2>1. /\ errors' # {} /\ pc' \in {"relist", "report"} /\ UNCHANGED <<sent, report>> /\ pc # "done"
    BY <1>6 DEF UpsertRefused, RelistFails, StoreFails, Failed
  <2>. QED BY <2>1 DEF InvMirror, Working
<1>7. CASE UpsertPart
  <2>1. /\ pc = "upsert" /\ pc' = "upsert" /\ UNCHANGED <<embedded, existing, report>>
    BY <1>7 DEF UpsertPart
  <2>2. \A k \in 1..sent' : index'[embedded[k].chunk] = VectorOf(k)
    BY <1>7, PartUpserted
  <2>3. \A i \in Stale : index'[i] # None => i \in existing
    BY <1>7, <2>1, PartUpserted DEF InvMirror
  <2>4. \A i \in Ids : index'[i] # None => Width(index'[i]) \in Widths
    <3>1. \A k \in DOMAIN embedded : Width(VectorOf(k)) \in Widths
      BY DEF Widths
    <3>2. \A i \in Ids : index[i] # None => Width(index[i]) \in Widths
      BY <1>7, PartUpserted DEF Stored
    <3>3. \A i \in Ids : \/ index'[i] = index[i]
                        \/ \E k \in DOMAIN embedded : i = embedded[k].chunk /\ index'[i] = VectorOf(k)
      BY <1>7, PartUpserted
    <3>. QED BY <3>1, <3>2, <3>3
  <2>5. (\A i \in Stored : Width(index[i]) \in Widths)'
    BY <2>1, <2>4 DEF Stored, Widths, VectorOf, Width
  <2>6. ~DimensionsDiffer' /\ sent' <= Len(embedded)
    BY <1>7, <2>1, PartUpserted DEF DimensionsDiffer, Widths, VectorOf
  <2>. QED BY <2>1, <2>2, <2>3, <2>5, <2>6 DEF InvMirror, Working, VectorOf
<1>8. CASE DeleteStale
  <2>1. /\ pc = "upsert" /\ pc' = "list" /\ sent = Len(embedded) /\ UNCHANGED <<embedded, errors, report>>
        /\ errors = {}
    BY <1>8 DEF DeleteStale, InvErrors, Mirroring
  <2>2. \A i \in Ids : index'[i] = IF i \in existing \ Chunks THEN None ELSE index[i]
    BY <1>8 DEF DeleteStale
  <2>3. EmbeddedChunks = Chunks
    BY <2>1, AllEmbedded DEF Working
  <2>4. ASSUME NEW c \in Chunks
        PROVE  \E k \in DOMAIN embedded : embedded[k].chunk = c /\ index'[c] = VectorOf(k)
    <3>1. PICK k \in DOMAIN embedded : embedded[k].chunk = c
      BY <2>3 DEF EmbeddedChunks
    <3>2. k \in 1..sent
      BY <2>1, LenProperties DEF TypeOK
    <3>3. index[c] = VectorOf(k)
      BY <2>1, <3>1, <3>2 DEF InvMirror
    <3>. QED BY <2>2, <3>1, <3>3 DEF Ids
  <2>5. \A i \in Stale : index'[i] = None
    <3>1. \A i \in Stale : i \in Ids /\ i \notin Chunks
      BY ParamsAssumption DEF Ids
    <3>. QED BY <2>1, <2>2, <3>1 DEF InvMirror
  <2>6. ~DimensionsDiffer
    <3>1. CASE sent > 0
      BY <2>1, <3>1 DEF InvMirror
    <3>2. CASE sent = 0
      <4>1. DOMAIN embedded = 1..0
        BY <2>1, <3>2, LenProperties DEF TypeOK
      <4>. QED BY <4>1 DEF DimensionsDiffer, Widths
    <3>. QED BY <1>1, <3>1, <3>2
  <2>7. Mirrored'
    BY <2>1, <2>4, <2>5, <2>6 DEF Mirrored, VectorOf, DimensionsDiffer, Widths
  <2>. QED BY <2>1, <2>7 DEF InvMirror, Working
<1>9. CASE Compare
  <2>1. Stored = Chunks /\ errors = {} /\ Mirrored /\ ~report.complete
    BY <1>9, MirroredIds DEF Compare, InvMirror, InvErrors, Mirroring
  <2>2. errors' = {} /\ report'.ids = Chunks /\ ~report'.complete
    BY <1>9, <2>1 DEF Compare, TypeOK, Reports
  <2>3. Mirrored' /\ pc' = IF identity # None /\ embedded # <<>> THEN "metadata" ELSE "report"
    BY <1>9, <2>1, <2>2 DEF Compare, Mirrored, VectorOf, DimensionsDiffer, Widths
  <2>4. UNCHANGED <<identity, embedded>>
    BY <1>9 DEF Compare
  <2>. QED BY <2>2, <2>3, <2>4 DEF InvMirror, Working
<1>10. CASE SetMetadata
  <2>1. /\ pc = "metadata" /\ pc' = "report" /\ Mirrored /\ report.ids = Chunks /\ ~report.complete
        /\ UNCHANGED <<identity, embedded, report, index>>
    BY <1>10 DEF SetMetadata, InvMirror
  <2>2. \E w \in Widths' : metadata' = (Identity(identity, w))'
    BY <1>10, <2>1 DEF SetMetadata, Widths, VectorOf, Identity
  <2>3. Mirrored'
    BY <2>1 DEF Mirrored, VectorOf, DimensionsDiffer, Widths
  <2>. QED BY <2>1, <2>2, <2>3 DEF InvMirror, Working, Identity
<1>11. CASE Relist
  <2>1. pc = "relist" /\ pc' = "report" /\ errors' # {} /\ report'.complete = report.complete
    BY <1>11 DEF Relist, InvErrors, TypeOK, Reports
  <2>. QED BY <2>1 DEF InvMirror, Working
<1>12. CASE Report
  BY <1>12 DEF Report, InvMirror, Working
<1>13. CASE Rerun
  BY <1>13 DEF Rerun, InvMirror, Working, Nothing
<1>14. CASE UNCHANGED vars
  BY <1>14 DEF vars, InvMirror, Mirrored, Widths, VectorOf, DimensionsDiffer, Stored, Working
<1>. QED BY <1>2, <1>3, <1>4, <1>5, <1>6, <1>7, <1>8, <1>9, <1>10, <1>11, <1>12, <1>13, <1>14
         DEF Next, Step

(* No step mixes dimensions.                                                 *)
LEMMA DimensionStep ==
  ASSUME TypeOK, SettledOnce, InvMirror, OneDimension, [Next]_vars
  PROVE  OneDimension'
<1>1. CASE UpsertPart
  <2>1. \A v, w \in Widths : v = w
    BY <1>1, PartUpserted DEF DimensionsDiffer
  <2>2. \A i \in Ids : index'[i] # None => Width(index'[i]) \in Widths
    <3>1. \A k \in DOMAIN embedded : Width(VectorOf(k)) \in Widths
      BY DEF Widths
    <3>2. \A i \in Ids : index[i] # None => Width(index[i]) \in Widths
      BY <1>1, PartUpserted DEF Stored
    <3>3. \A i \in Ids : \/ index'[i] = index[i]
                        \/ \E k \in DOMAIN embedded : i = embedded[k].chunk /\ index'[i] = VectorOf(k)
      BY <1>1, PartUpserted
    <3>. QED BY <3>1, <3>2, <3>3
  <2>. QED BY <2>1, <2>2 DEF OneDimension, Stored, Width
<1>2. CASE DeleteStale
  <2>1. \A i \in Ids : index'[i] # None => index'[i] = index[i]
    BY <1>2 DEF DeleteStale
  <2>. QED BY <2>1 DEF OneDimension, Stored, Width
<1>3. CASE UNCHANGED index
  BY <1>3 DEF OneDimension, Stored, Width
<1>. QED BY <1>1, <1>2, <1>3 DEF Next, Step, TakeBatch, ProgressFails, Embed, Split, Retry, GiveUp,
       StartCompaction, CandidateFits, CandidateTooLong, Compacted, NotCompactable, CheckDimensions,
       HandOver, ReportFailure, ListExisting, UpsertRefused, Compare, SetMetadata, StoreFails, Relist,
       RelistFails, Report, Swap, Rerun, vars

(* Only HandOver and Report end a run without a call of it having failed.    *)
LEMMA Endings ==
  ASSUME [Next]_vars, pc' = "done"
  PROVE  \/ ProgressFails \/ HandOver \/ Report \/ UNCHANGED vars
BY DEF Next, Step, TakeBatch, ProgressFails, Embed, Split, Retry, GiveUp, StartCompaction,
   CandidateFits, CandidateTooLong, Compacted, NotCompactable, Searching, CheckDimensions,
   ReportFailure, ListExisting, UpsertRefused, UpsertPart, DeleteStale, Compare, SetMetadata,
   StoreFails, Relist, RelistFails, Swap, Rerun

(* What is reported complete is complete.                                    *)
LEMMA CompleteStep ==
  ASSUME TypeOK, InvStack, SettledOnce, InvServed, InvErrors, InvMirror, CompleteIsExact, [Next]_vars
  PROVE  CompleteIsExact'
<1>. SUFFICES ASSUME pc' = "done", report'.complete
              PROVE  CompleteIsExact'
  BY DEF CompleteIsExact
<1>1. CASE ProgressFails
  BY <1>1 DEF ProgressFails, InvMirror
<1>2. CASE HandOver
  <2>1. pc = "prepared" /\ caller' = "coordinator" /\ errors = {} /\ errors' = {} /\ report'.ids = EmbeddedChunks
        /\ UNCHANGED <<embedded, spoiled, serving>>
    BY <1>2 DEF HandOver, Nothing, EmbeddedChunks
  <2>2. EmbeddedChunks = Chunks
    BY <2>1, AllEmbedded DEF Working
  <2>3. EmbeddedChunks' = EmbeddedChunks
    BY <2>1 DEF EmbeddedChunks
  <2>. QED BY <2>1, <2>2, <2>3 DEF CompleteIsExact, InvServed, VectorOf
<1>3. CASE Report
  <2>1. /\ pc = "report" /\ errors = {} /\ Len(embedded) = N /\ report.ids = Chunks
        /\ report'.ids = Chunks
        /\ UNCHANGED <<embedded, spoiled, serving, index, metadata, identity, errors, caller>>
    BY <1>3 DEF Report, TypeOK, Reports
  <2>2. Mirrored
    BY <2>1 DEF InvMirror
  <2>3. Stored = Chunks /\ EmbeddedChunks = Chunks
    BY <2>2, MirroredIds
  <2>4. Stored' = Stored /\ EmbeddedChunks' = EmbeddedChunks /\ Widths' = Widths
    BY <2>1 DEF Stored, EmbeddedChunks, Widths, VectorOf
  <2>5. identity # None /\ N > 0 => \E w \in Widths : metadata = Identity(identity, w)
    <3>1. N > 0 => embedded # <<>>
      BY <2>1, ParamsAssumption
    <3>. QED BY <2>1, <3>1 DEF InvMirror
  <2>6. (\A c \in Chunks : \E k \in DOMAIN embedded : embedded[k].chunk = c /\ index[c] = VectorOf(k))'
    BY <2>1, <2>2 DEF Mirrored, VectorOf
  <2>7. ~DimensionsDiffer'
    BY <2>2, <2>4 DEF Mirrored, DimensionsDiffer
  <2>8. (identity # None /\ N > 0 => \E w \in Widths : metadata = Identity(identity, w))'
    BY <2>1, <2>4, <2>5 DEF Identity
  <2>9. (~spoiled => \A k \in DOMAIN embedded : VectorOf(k).model = serving)'
    BY <2>1 DEF InvServed, VectorOf
  <2>. QED BY <2>1, <2>3, <2>4, <2>6, <2>7, <2>8, <2>9 DEF CompleteIsExact
<1>4. CASE UNCHANGED vars
  BY <1>4 DEF vars, CompleteIsExact, EmbeddedChunks, Stored, VectorOf, DimensionsDiffer, Widths
<1>. QED BY <1>1, <1>2, <1>3, <1>4, Endings
(* All chunks embedded, each once: as many records as chunks.                *)
LEMMA AsManyAsChunks ==
  ASSUME TypeOK, SettledOnce, EmbeddedChunks = Chunks
  PROVE  Len(embedded) = N
<1> DEFINE n == Len(embedded)
           f == [k \in 1..n |-> embedded[k].chunk]
<1>1. n \in Nat /\ DOMAIN embedded = 1..n
  BY LenProperties DEF TypeOK
<1>2. \A k \in 1..n : embedded[k].chunk \in 1..N /\ embedded[k].chunk \in Nat
  <2>1. \A k \in 1..n : embedded[k] \in Items
    BY <1>1, LenProperties DEF TypeOK
  <2>. QED BY <2>1, ParamsAssumption DEF Items, Chunks
<1>3. ASSUME NEW j \in 1..n, NEW k \in 1..n, f[j] = f[k]
      PROVE  j = k
  <2>1. ~(j < k) /\ ~(k < j)
    BY <1>1, <1>2, <1>3 DEF SettledOnce
  <2>. QED BY <2>1, <1>1
<1>4. \A c \in 1..N : \E k \in 1..n : f[k] = c
  BY <1>1 DEF EmbeddedChunks, Chunks
<1>5. f \in Bijection(1..n, 1..N)
  <2>1. f \in [1..n -> 1..N]
    BY <1>2
  <2>. HIDE DEF f, n
  <2>. QED BY <2>1, <1>3, <1>4, Fun_IsBij
<1>. HIDE DEF f, n
<1>6. ExistsBijection(1..n, 1..N)
  BY <1>5 DEF ExistsBijection
<1>7. IsFiniteSet(1..n) /\ Cardinality(1..n) = n /\ Cardinality(1..N) = N
  <2>1. \A a, b \in Int : a <= b => Cardinality(a..b) = b - a + 1
    BY FS_Interval
  <2>2. \A a, b \in Int : IsFiniteSet(a..b) /\ (a > b => Cardinality(a..b) = 0)
    BY FS_Interval
  <2>3. \A m \in Nat : Cardinality(1..m) = m
    <3>. SUFFICES ASSUME NEW m \in Nat PROVE Cardinality(1..m) = m
      OBVIOUS
    <3>1. CASE m = 0
      BY <3>1, <2>2
    <3>2. CASE m > 0
      BY <3>2, <2>1
    <3>. QED BY <3>1, <3>2
  <2>. QED BY <2>2, <2>3, <1>1, ParamsAssumption
<1>8. Cardinality(1..n) = Cardinality(1..N)
  BY <1>6, <1>7, FS_Bijection
<1>. QED BY <1>7, <1>8 DEF n

(* A run nothing happened to completes, or says what stopped it.             *)
LEMMA CleanCompletesStep ==
  ASSUME TypeOK, InvStack, SettledOnce, InvLongest, InvErrors, InvClean, InvMirror,
         CleanRunCompletes, [Next]_vars
  PROVE  CleanRunCompletes'
<1>. SUFFICES ASSUME pc' = "done", ~spoiled'
              PROVE  CleanRunCompletes'
  BY DEF CleanRunCompletes
<1>1. ASSUME errors # {}, \A e \in errors : e.type = "InputTooLong"
      PROVE  \E c \in Chunks : limit[c] = 0
  <2>1. PICK e \in errors : e.type = "InputTooLong" /\ e.chunks # {} /\ e.chunks \subseteq Chunks
    BY <1>1 DEF InvErrors, TypeOK, Errors
  <2>. QED BY <2>1 DEF InvLongest
<1>2. CASE ProgressFails
  BY <1>2 DEF ProgressFails
<1>3. CASE HandOver
  <2>1. pc = "prepared" /\ UNCHANGED <<spoiled, limit>>
    BY <1>3 DEF HandOver
  <2>2. CASE errors = {}
    BY <1>3, <2>2 DEF HandOver, CleanRunCompletes
  <2>3. CASE errors # {}
    <3>1. \E c \in Chunks : limit[c] = 0
      BY <1>1, <2>1, <2>3 DEF InvClean
    <3>. QED BY <2>1, <3>1 DEF CleanRunCompletes
  <2>. QED BY <2>2, <2>3
<1>4. CASE Report
  <2>1. /\ pc = "report" /\ UNCHANGED <<spoiled, limit, caller, index, serving>>
        /\ report'.complete = (errors = {} /\ Len(embedded) = N /\ report.ids = Chunks)
    BY <1>4, Zenon DEF Report, TypeOK, Reports
  <2>2. CASE errors = {}
    <3>1. Mirrored /\ report.ids = Chunks
      BY <2>1, <2>2 DEF InvMirror
    <3>2. Len(embedded) = N
      BY <3>1, MirroredIds, AsManyAsChunks
    <3>. QED BY <2>1, <2>2, <3>1, <3>2 DEF CleanRunCompletes
  <2>3. CASE errors # {} /\ OtherDimension
    BY <2>1, <2>3 DEF CleanRunCompletes, OtherDimension, Stored, Width
  <2>4. CASE errors # {} /\ ~OtherDimension
    <3>1. \E c \in Chunks : limit[c] = 0
      BY <1>1, <2>1, <2>4 DEF InvClean
    <3>. QED BY <2>1, <3>1 DEF CleanRunCompletes
  <2>. QED BY <2>2, <2>3, <2>4
<1>5. CASE UNCHANGED vars
  BY <1>5 DEF vars, CleanRunCompletes, Stored, Width
<1>. QED BY <1>2, <1>3, <1>4, <1>5, Endings

-----------------------------------------------------------------------------
(* The invariant and what it gives                                           *)

LEMMA InitInvariant ==
  ASSUME Init
  PROVE  IInv
<1>1. TypeOK
  <2>1. 0 \in 0..MaxRetries /\ 1 \in 1..(N + 1) /\ NoSearch \in Searches /\ Nothing \in Reports
    BY ParamsAssumption DEF NoSearch, Searches, Nothing, Reports
  <2>2. <<>> \in Seq(Groups) /\ <<>> \in Seq(Items)
    BY EmptySeq
  <2>3. index \in [Ids -> Vectors \cup {None}] /\ metadata \in Identities \cup {None}
    <3>1. \A i \in Ids, m \in Models : [text |-> Whole(i), model |-> m] \in Vectors
      BY ParamsAssumption DEF Whole, Vectors, Texts
    <3>2. \A m \in Models : Identity(m, Dim[m]) \in Identities
      BY ParamsAssumption DEF Identity, Identities
    <3>. QED BY <3>1, <3>2 DEF Init
  <2>4. spoiled \in BOOLEAN
    BY Zenon DEF Init
  <2>5. identity \in Models \cup {None} /\ serving \in Models
    BY DEF Init, Configured
  <2>. QED BY <2>1, <2>2, <2>3, <2>4, <2>5 DEF Init, TypeOK
<1>2. DOMAIN embedded = {} /\ Frontier = 1 /\ 1..(1 - 1) = {} /\ DOMAIN stack = {} /\ errors = {}
  BY DEF Init, Frontier
<1>3. InvStack
  BY <1>2 DEF Init, InvStack, Working
<1>4. EmbeddedChunks = {} /\ FailedChunks = {}
  BY <1>2 DEF EmbeddedChunks, FailedChunks
<1>5. SettledOnce
  BY <1>2, <1>4 DEF SettledOnce
<1>6. InvSearch /\ InvLongest /\ InvServed /\ truncated \subseteq EmbeddedChunks
  BY <1>2 DEF Init, InvSearch, InvLongest, InvServed, NoSearch
<1>7. InvErrors /\ InvClean
  BY DEF Init, InvErrors, InvClean, Working, Mirroring
<1>8. InvMirror
  BY DEF Init, InvMirror, Working, Nothing
<1>9. OneDimension
  BY DEF Init, OneDimension, Stored, Width
<1>10. CompleteIsExact /\ CleanRunCompletes
  BY DEF Init, CompleteIsExact, CleanRunCompletes
<1>. QED BY <1>1, <1>3, <1>5, <1>6, <1>7, <1>8, <1>9, <1>10 DEF IInv

(* Each step keeps each part.                                                *)
LEMMA StepInvariant ==
  ASSUME IInv, [Next]_vars
  PROVE  IInv'
<1>1. TypeOK' /\ InvStack' /\ SettledOnce' /\ InvSearch'
  BY TypeStep, StackStep, SettledStep, SearchStep DEF IInv
<1>2. InvLongest' /\ (truncated \subseteq EmbeddedChunks)'
  BY CompactionStep DEF IInv
<1>3. InvServed' /\ InvErrors' /\ InvClean' /\ InvMirror'
  BY ServedStep, ErrorsStep, CleanStep, MirrorStep DEF IInv
<1>4. OneDimension' /\ CompleteIsExact' /\ CleanRunCompletes'
  BY DimensionStep, CompleteStep, CleanCompletesStep DEF IInv
<1>. QED BY <1>1, <1>2, <1>3, <1>4 DEF IInv

(* The state always has the shape the service's records have.                *)
THEOREM TypeCorrect == Spec => []TypeOK
<1>1. IInv => TypeOK
  BY DEF IInv
<1>. QED BY <1>1, InitInvariant, StepInvariant, PTL DEF Spec

THEOREM Invariance == Spec => []IInv
BY InitInvariant, StepInvariant, PTL DEF Spec

(* No chunk is lost, embedded twice or given another chunk's vector, however *)
(* the batches are split, compacted, retried or given up.                    *)
THEOREM EveryChunkOnce == Spec => []SettledOnce
<1>1. IInv => SettledOnce
  BY DEF IInv
<1>. QED BY <1>1, Invariance, PTL

(* The bisection finds the longest text the provider takes.                  *)
THEOREM LongestText == Spec => []CompactionIsLongest
<1>1. IInv => CompactionIsLongest
  BY DEF IInv, InvLongest, Longest, CompactionIsLongest
<1>. QED BY <1>1, Invariance, PTL

(* What a run reports complete is complete, in the collection too.           *)
THEOREM CompleteIsComplete == Spec => []CompleteIsExact
<1>1. IInv => CompleteIsExact
  BY DEF IInv
<1>. QED BY <1>1, Invariance, PTL

(* A run none of whose calls fails for good repairs what earlier ones left.  *)
THEOREM CleanRunRepairs == Spec => []CleanRunCompletes
<1>1. IInv => CleanRunCompletes
  BY DEF IInv
<1>. QED BY <1>1, Invariance, PTL

(* The collection holds vectors of one dimension, also after a failed run.   *)
THEOREM NeverMixed == Spec => []OneDimension
<1>1. IInv => OneDimension
  BY DEF IInv
<1>. QED BY <1>1, Invariance, PTL

(* The collection is not touched, and no vectors are handed over, while a    *)
(* chunk is not embedded.                                                    *)
THEOREM AllOrNothing == Spec => NothingPartial
<1>1. ASSUME IInv, [Next]_vars
      PROVE  [(collection' # collection \/ report'.complete # report.complete) /\ pc # "done" =>
                EmbeddedChunks = Chunks /\ \A e \in errors : e.stage # "embedding"]_vars
  <2>. SUFFICES ASSUME collection' # collection \/ report'.complete # report.complete, pc # "done"
                PROVE  EmbeddedChunks = Chunks /\ \A e \in errors : e.stage # "embedding"
    OBVIOUS
  <2>1. TypeOK /\ InvStack /\ SettledOnce /\ InvErrors /\ InvMirror
    BY <1>1 DEF IInv
  <2>2. CASE UpsertPart \/ DeleteStale \/ SetMetadata
    <3>1. errors = {} /\ pc \in Mirroring
      BY <2>1, <2>2 DEF UpsertPart, DeleteStale, SetMetadata, InvErrors, Mirroring
    <3>. QED BY <2>1, <3>1, AllEmbedded DEF Working, Mirroring
  <2>3. CASE HandOver \/ Report
    <3>1. ~report.complete /\ report'.complete
      <4>1. report'.complete \in BOOLEAN /\ report.complete \in BOOLEAN
        BY <1>1, <2>1, StepInvariant DEF IInv, TypeOK, Reports
      <4>2. report'.complete # report.complete
        BY <2>3 DEF HandOver, Report
      <4>3. ~report.complete
        BY <2>1 DEF InvMirror
      <4>. QED BY <4>1, <4>2, <4>3, Zenon
    <3>2. errors = {} /\ pc \notin Working \cup {"done"}
      BY <2>1, <2>3, <3>1 DEF HandOver, Report, Nothing, Working, TypeOK, Reports
    <3>. QED BY <2>1, <3>2, AllEmbedded
  <2>4. CASE Compare \/ Relist
    <3>1. collection' = collection /\ report'.complete = report.complete
      BY <2>1, <2>4 DEF Compare, Relist, TypeOK, Reports
    <3>. QED BY <3>1
  <2>5. CASE UNCHANGED <<collection, report>>
    BY <2>5
  <2>6. CASE Rerun
    BY <2>6 DEF Rerun
  <2>. QED BY <1>1, <2>2, <2>3, <2>4, <2>5, <2>6 DEF Next, Step, TakeBatch, ProgressFails, Embed, Split,
         Retry, GiveUp, StartCompaction, CandidateFits, CandidateTooLong, Compacted, NotCompactable,
         CheckDimensions, ReportFailure, ListExisting, UpsertRefused, StoreFails, RelistFails, Swap, vars
<1>. QED BY <1>1, Invariance, PTL DEF Spec, NothingPartial

-----------------------------------------------------------------------------
(* A run ends: what is left to do                                            *)

Stage ==
  CASE pc \in Working   -> 7
    [] pc = "prepared"  -> 6
    [] pc = "upsert"    -> 5
    [] pc = "list"      -> 4
    [] pc = "metadata"  -> 3
    [] pc = "relist"    -> 2
    [] pc = "report"    -> 1
    [] OTHER            -> 0

(* In the order in which the steps of a run lower it: the chunks that are    *)
(* not settled, those not in a batch yet, the chunks of the group in hand,   *)
(* whether it is one whose bisection has not begun, the keeps not excluded,  *)
(* and the tries or parts that are left.                                     *)
Unsettled == N + 1 - Frontier
Untaken   == N + 1 - next
InHand    == IF stack = <<>> THEN 0 ELSE Size
Unbegun   == IF pc = "compact" THEN 0 ELSE 1
Open      == IF search.low <= search.high THEN search.high + 1 - search.low ELSE 0
Tries     == IF pc = "upsert" THEN Len(embedded) - sent ELSE MaxRetries - attempt

Left == <<Stage, Unsettled, Untaken, InHand, Unbegun, Open, Tries>>

Lefts == [1..7 -> Nat]

(* Lexicographically.                                                        *)
Below == LexProductOrdering(OpToRel(<, Nat), Nat, 7)

(* There is no infinite descent.                                             *)
THEOREM NoEndlessDescent == IsWellFoundedOn(Below, Lefts)
BY NatLessThanWellFounded, WFLexProductOrdering DEF Below, Lefts

(* A tuple is below another that exceeds it where they first differ.         *)
LEMMA BelowAt ==
  ASSUME NEW a \in Lefts, NEW b \in Lefts, NEW j \in 1..7,
         \A i \in 1..(j - 1) : a[i] = b[i], a[j] < b[j]
  PROVE  <<a, b>> \in Below
<1>1. a[j] \in Nat /\ b[j] \in Nat
  BY DEF Lefts
<1>2. <<a[j], b[j]>> \in OpToRel(<, Nat)
  BY <1>1 DEF OpToRel
<1> DEFINE R == OpToRel(<, Nat)
           Lower(ff) == \E k \in 1..7 : /\ \A i \in 1..(k - 1) : ff[1][i] = ff[2][i]
                                      /\ <<ff[1][k], ff[2][k]>> \in R
<1>3. Lower(<<a, b>>)
  <2>. HIDE DEF R
  <2>1. <<a, b>>[1] = a /\ <<a, b>>[2] = b
    OBVIOUS
  <2>. QED BY <1>2, <2>1 DEF R
<1>4. <<a, b>> \in Lefts \X Lefts
  OBVIOUS
<1>5. Below = {ff \in Lefts \X Lefts : Lower(ff)}
  BY DEF Below, LexProductOrdering, Lefts
<1>. QED
  <2>. HIDE DEF Lower
  <2>. QED BY <1>3, <1>4, <1>5

(* Every one of the seven is a natural number.                               *)
LEMMA LeftIsNatural ==
  ASSUME TypeOK, InvStack, InvMirror
  PROVE  Left \in Lefts
<1>1. Stage \in Nat
  BY DEF Stage
<1>2. Unsettled \in Nat /\ Untaken \in Nat /\ InHand \in Nat
  <2>1. N \in Nat /\ next \in 1..(N + 1)
    BY ParamsAssumption DEF TypeOK
  <2>2. CASE stack = <<>>
    BY <2>1, <2>2 DEF Unsettled, Untaken, InHand, Frontier
  <2>3. CASE stack # <<>>
    BY <2>1, <2>3, TopIsFrontier DEF Unsettled, Untaken, InHand, Size, Chunks
  <2>. QED BY <2>2, <2>3
<1>3. Unbegun \in Nat
  BY DEF Unbegun
<1>4. Open \in Nat
  BY DEF Open, TypeOK, Searches
<1>5. Tries \in Nat
  <2>1. embedded \in Seq(Items) /\ sent \in Nat /\ attempt \in 0..MaxRetries /\ MaxRetries \in Nat
    BY ParamsAssumption DEF TypeOK
  <2>2. Len(embedded) \in Nat
    BY <2>1
  <2>. QED BY <2>1, <2>2 DEF Tries, InvMirror
<1>. QED BY <1>1, <1>2, <1>3, <1>4, <1>5 DEF Left, Lefts


(* The seven, and where two states first differ.                             *)
LEMMA Lowered ==
  ASSUME Left \in Lefts, Left' \in Lefts,
         \/ Stage' < Stage
         \/ /\ Stage' = Stage
            /\ \/ Unsettled' < Unsettled
               \/ /\ Unsettled' = Unsettled
                  /\ \/ Untaken' < Untaken
                     \/ /\ Untaken' = Untaken
                        /\ \/ InHand' < InHand
                           \/ /\ InHand' = InHand
                              /\ \/ Unbegun' < Unbegun
                                 \/ /\ Unbegun' = Unbegun
                                    /\ \/ Open' < Open
                                       \/ Open' = Open /\ Tries' < Tries
  PROVE  <<Left', Left>> \in Below
<1>1. /\ Left[1] = Stage /\ Left[2] = Unsettled /\ Left[3] = Untaken /\ Left[4] = InHand
      /\ Left[5] = Unbegun /\ Left[6] = Open /\ Left[7] = Tries
      /\ Left'[1] = Stage' /\ Left'[2] = Unsettled' /\ Left'[3] = Untaken' /\ Left'[4] = InHand'
      /\ Left'[5] = Unbegun' /\ Left'[6] = Open' /\ Left'[7] = Tries'
  BY DEF Left
<1>2. \E j \in 1..7 : (\A i \in 1..(j - 1) : Left'[i] = Left[i]) /\ Left'[j] < Left[j]
  <2>1. CASE Stage' < Stage
    <3>1. \A i \in 1..(1 - 1) : Left'[i] = Left[i]
      OBVIOUS
    <3>. QED BY <1>1, <2>1, <3>1
  <2>2. CASE Stage' = Stage /\ Unsettled' < Unsettled
    <3>1. \A i \in 1..(2 - 1) : Left'[i] = Left[i]
      BY <1>1, <2>2
    <3>. QED BY <1>1, <2>2, <3>1
  <2>3. CASE Stage' = Stage /\ Unsettled' = Unsettled /\ Untaken' < Untaken
    <3>1. \A i \in 1..(3 - 1) : Left'[i] = Left[i]
      BY <1>1, <2>3
    <3>. QED BY <1>1, <2>3, <3>1
  <2>4. CASE Stage' = Stage /\ Unsettled' = Unsettled /\ Untaken' = Untaken /\ InHand' < InHand
    <3>1. \A i \in 1..(4 - 1) : Left'[i] = Left[i]
      BY <1>1, <2>4
    <3>. QED BY <1>1, <2>4, <3>1
  <2>5. CASE /\ Stage' = Stage /\ Unsettled' = Unsettled /\ Untaken' = Untaken /\ InHand' = InHand
             /\ Unbegun' < Unbegun
    <3>1. \A i \in 1..(5 - 1) : Left'[i] = Left[i]
      BY <1>1, <2>5
    <3>. QED BY <1>1, <2>5, <3>1
  <2>6. CASE /\ Stage' = Stage /\ Unsettled' = Unsettled /\ Untaken' = Untaken /\ InHand' = InHand
             /\ Unbegun' = Unbegun /\ Open' < Open
    <3>1. \A i \in 1..(6 - 1) : Left'[i] = Left[i]
      BY <1>1, <2>6
    <3>. QED BY <1>1, <2>6, <3>1
  <2>7. CASE /\ Stage' = Stage /\ Unsettled' = Unsettled /\ Untaken' = Untaken /\ InHand' = InHand
             /\ Unbegun' = Unbegun /\ Open' = Open /\ Tries' < Tries
    <3>1. \A i \in 1..(7 - 1) : Left'[i] = Left[i]
      BY <1>1, <2>7
    <3>. QED BY <1>1, <2>7, <3>1
  <2>. QED BY <2>1, <2>2, <2>3, <2>4, <2>5, <2>6, <2>7
<1>. QED BY <1>2, BelowAt

(* Every step of the service lowers one of the seven and no earlier one.     *)
LEMMA StepDescends ==
  ASSUME TypeOK, InvStack, InvSearch, InvMirror, Step,
         Left \in Lefts, Left' \in Lefts
  PROVE  <<Left', Left>> \in Below
<1>0. /\ N \in Nat /\ MaxRetries \in Nat /\ BatchSize \in Nat \ {0} /\ PartSize \in Nat \ {0}
      /\ next \in 1..(N + 1) /\ attempt \in 0..MaxRetries /\ sent \in Nat
      /\ search.low \in Nat /\ search.high \in Nat /\ Len(embedded) \in Nat
  BY ParamsAssumption DEF TypeOK, Searches
<1>1. CASE TakeBatch
  <2>1. Stage' = Stage
    BY <1>1 DEF TakeBatch, Stage, Working
  <2>2. stack = <<>> /\ Frontier = next
    BY <1>1 DEF TakeBatch, Frontier
  <2>3. PICK last : /\ last = IF next + BatchSize - 1 < N THEN next + BatchSize - 1 ELSE N
                    /\ stack' = <<Group(next, last)>> /\ next' = last + 1
    BY <1>1 DEF TakeBatch
  <2>4. next <= N
    BY <1>1 DEF TakeBatch
  <2>5. Frontier' = next
    BY <2>3 DEF Frontier, Top, Group
  <2>. QED BY <1>0, <2>1, <2>2, <2>3, <2>4, <2>5, Lowered DEF Unsettled, Untaken
<1>2. CASE Embed \/ GiveUp \/ Compacted \/ NotCompactable
  <2>1. stack # <<>> /\ stack' = Tail(stack) /\ next' = next /\ pc \in Working /\ pc' = "embed"
    BY <1>2 DEF Embed, GiveUp, Compacted, NotCompactable, Searching, Settled, Working
  <2>2. Frontier' = Top.hi + 1 /\ Frontier = Top.lo /\ Top.lo <= Top.hi
        /\ Top.lo \in Nat /\ Top.hi \in Nat
    BY <2>1, PopMovesFrontier, TopIsFrontier
  <2>3. Stage' = Stage
    BY <2>1 DEF Stage, Working
  <2>. QED BY <1>0, <2>2, <2>3, Lowered DEF Unsettled
<1>3. CASE Split
  <2>1. /\ stack # <<>> /\ Size > 1 /\ next' = next /\ pc' = "embed" /\ pc = "embed"
        /\ stack' = Halves(Top) \o Tail(stack)
    BY <1>3 DEF Split
  <2>2. stack' \in Seq(Groups) /\ Frontier' = Frontier
    BY <2>1, SplitKeepsFrontier
  <2>3. /\ Top.lo \in Nat /\ Top.hi \in Nat /\ Top.lo < Top.hi /\ Top = Group(Top.lo, Top.hi)
    BY <2>1, TopIsFrontier DEF Size, Groups, Group
  <2>4. PICK mid \in Nat : /\ Top.lo < mid /\ mid <= Top.hi
                           /\ Halves(Top) = <<Group(Top.lo, mid - 1), Group(mid, Top.hi)>>
    BY <2>3, HalvesOfGroup
  <2>5. Tail(stack) \in Seq(Groups)
    BY <2>1, HeadTailProperties DEF TypeOK, Groups
  <2>6. stack' # <<>> /\ Top' = Group(Top.lo, mid - 1)
    BY <2>1, <2>4, <2>5 DEF Top
  <2>7. InHand' < InHand
    BY <2>1, <2>3, <2>4, <2>6 DEF InHand, Size, Group
  <2>8. Stage' = Stage
    BY <2>1 DEF Stage
  <2>. QED BY <2>1, <2>2, <2>7, <2>8, Lowered DEF Unsettled, Untaken
<1>4. ASSUME UNCHANGED <<next, stack>>, pc \in Working, pc' \in Working
      PROVE  Stage' = Stage /\ Unsettled' = Unsettled /\ Untaken' = Untaken /\ InHand' = InHand
  BY <1>4 DEF Stage, Unsettled, Untaken, InHand, Frontier, Size, Top, Working
<1>5. CASE StartCompaction
  <2>1. UNCHANGED <<next, stack>> /\ pc = "embed" /\ pc' = "compact"
    BY <1>5 DEF StartCompaction, Searching
  <2>2. Unbegun' < Unbegun
    BY <2>1 DEF Unbegun
  <2>. QED BY <1>4, <2>1, <2>2, Lowered DEF Working
<1>6. CASE CandidateFits \/ CandidateTooLong
  <2>1. /\ UNCHANGED <<next, stack>> /\ pc = "compact" /\ pc' = "compact"
        /\ search.low <= search.high
    BY <1>6 DEF CandidateFits, CandidateTooLong, Searching
  <2>2. search.low <= Keep /\ Keep <= search.high /\ Keep \in Nat \ {0}
    BY <2>1, CandidateFacts
  <2>3. \/ search'.low = Keep + 1 /\ search'.high = search.high
        \/ search'.low = search.low /\ search'.high = Keep - 1
    BY <1>6 DEF CandidateFits, CandidateTooLong, TypeOK, Searches
  <2>4. Open' < Open
    BY <1>0, <2>1, <2>2, <2>3 DEF Open
  <2>5. Unbegun' = Unbegun
    BY <2>1 DEF Unbegun
  <2>. QED BY <1>4, <2>1, <2>4, <2>5, Lowered DEF Working
<1>7. CASE Retry
  <2>1. /\ UNCHANGED <<next, stack, search>> /\ pc' = pc /\ pc \in Working
        /\ attempt' = attempt + 1
    BY <1>7 DEF Retry, Working
  <2>2. Unbegun' = Unbegun /\ Open' = Open
    BY <2>1 DEF Unbegun, Open
  <2>3. Tries' < Tries
    BY <1>0, <2>1 DEF Tries, Working
  <2>. QED BY <1>4, <2>1, <2>2, <2>3, Lowered
<1>8. CASE UpsertPart
  <2>1. /\ UNCHANGED <<next, stack, search, embedded>> /\ pc = "upsert" /\ pc' = "upsert"
        /\ sent < Len(embedded)
        /\ sent' = IF sent + PartSize < Len(embedded) THEN sent + PartSize ELSE Len(embedded)
    BY <1>8 DEF UpsertPart
  <2>2. /\ Stage' = Stage /\ Unsettled' = Unsettled /\ Untaken' = Untaken /\ InHand' = InHand
        /\ Unbegun' = Unbegun /\ Open' = Open
    BY <2>1 DEF Stage, Unsettled, Untaken, InHand, Frontier, Size, Top, Unbegun, Open
  <2>3. Tries' < Tries
    BY <1>0, <2>1 DEF Tries
  <2>. QED BY <2>2, <2>3, Lowered
<1>9. CASE Stage' < Stage
  BY <1>9, Lowered
<1>10. CASE ProgressFails \/ CheckDimensions \/ HandOver \/ ReportFailure \/ ListExisting
  BY <1>9, <1>10 DEF ProgressFails, CheckDimensions, HandOver, ReportFailure, ListExisting, Stage,
     Working
<1>11. CASE UpsertRefused \/ DeleteStale \/ Compare \/ SetMetadata
  BY <1>9, <1>11 DEF UpsertRefused, DeleteStale, Compare, SetMetadata, Stage, Working
<1>12. CASE StoreFails \/ Relist \/ RelistFails \/ Report
  BY <1>9, <1>12 DEF StoreFails, Relist, RelistFails, Report, Stage, Working
<1>. QED BY <1>1, <1>2, <1>3, <1>5, <1>6, <1>7, <1>8, <1>10, <1>11, <1>12 DEF Step

(* Only a new run has more left to do than the state before it.              *)
Descends ==
  \/ Step /\ <<Left', Left>> \in Below
  \/ Swap /\ Left' = Left
  \/ Rerun /\ pc = "done"

(* Every step of a run leaves less to do, in the sense above, whatever fails *)
(* or is retried, and a server that begins to answer with another model      *)
(* leaves as much: with NoEndlessDescent, no run goes on forever.            *)
THEOREM RunsDescend == Spec => [][Descends]_vars
<1>1. IInv => Left \in Lefts
  BY LeftIsNatural DEF IInv
<1>2. ASSUME IInv, [Next]_vars, Left \in Lefts, (Left \in Lefts)'
      PROVE  [Descends]_vars
  <2>1. CASE Step
    BY <1>2, <2>1, StepDescends DEF IInv, Descends
  <2>2. CASE Swap
    BY <2>2 DEF Descends, Swap, Left, Stage, Unsettled, Untaken, InHand, Unbegun, Open, Tries, Frontier, Size, Top
  <2>3. CASE Rerun
    BY <2>3 DEF Descends, Rerun
  <2>. QED BY <1>2, <2>1, <2>2, <2>3 DEF Next
<1>. QED BY <1>1, <1>2, Invariance, PTL DEF Spec
=============================================================================
