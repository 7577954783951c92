--------------------------- MODULE NavigationRows ---------------------------
(***************************************************************************)
(* Lemmas about the tables of Navigation: what rows an order, an insertion  *)
(* and a run leave.                                                         *)
(***************************************************************************)
EXTENDS Navigation, FiniteSetTheorems, TLAPS

-----------------------------------------------------------------------------
(* Orders                                                                   *)

(* A set of naturals has a least member.                                     *)
LEMMA LeastMember ==
  ASSUME NEW S \in SUBSET Nat, S # {}
  PROVE  \E x \in S : \A y \in S : x <= y
<1> DEFINE less == {ss \in Nat \X Nat : ss[1] < ss[2]}
<1>1. IsWellFoundedOn(less, Nat)
  <2>1. less = OpToRel(<, Nat)
    BY Zenon DEF OpToRel
  <2>. QED BY <2>1, NatLessThanWellFounded, Zenon
<1>2. \E x \in S : \A y \in S : ~(<<y, x>> \in less)
  <2>1. S \subseteq Nat
    OBVIOUS
  <2>. HIDE DEF less
  <2>. QED BY <1>1, <2>1, WFMin
<1>3. PICK x \in S : \A y \in S : ~(<<y, x>> \in less)
  BY <1>2
<1>4. ASSUME NEW y \in S
      PROVE  x <= y
  <2>1. ~(y < x) /\ x \in Nat /\ y \in Nat
    BY <1>3
  <2>. QED BY <2>1
<1>. QED BY <1>4

(* A bounded one that is not empty has a greatest one.                       *)
LEMMA MaxIsGreatest ==
  ASSUME NEW S, NEW n \in Nat, S \subseteq 1 .. n, S # {}
  PROVE  Max(S) \in S /\ \A y \in S : y <= Max(S)
<1> DEFINE Bounds == {m \in Nat : \A y \in S : y <= m}
<1>1. n \in Bounds
  OBVIOUS
<1>2. PICK m \in Bounds : \A k \in Bounds : m <= k
  <2>. HIDE DEF Bounds
  <2>1. Bounds \in SUBSET Nat
    BY DEF Bounds
  <2>. QED BY <1>1, <2>1, LeastMember
<1>3. m \in S
  <2>1. SUFFICES ASSUME m \notin S PROVE FALSE
    OBVIOUS
  <2>2. PICK y \in S : TRUE
    OBVIOUS
  <2>3. m - 1 \in Bounds
    BY <2>1, <2>2
  <2>. QED BY <1>2, <2>3
<1>4. m \in S /\ \A y \in S : m >= y
  BY <1>3
<1>5. Max(S) \in S /\ \A y \in S : Max(S) >= y
  BY <1>4, Zenon DEF Max
<1>. QED BY <1>5

(* A set of n elements is numbered from 1 to n, in its order, by InOrder.    *)
LEMMA InOrderNumbers ==
  ASSUME NEW S, IsFiniteSet(S), NEW before,
         \A x \in S : <<x, x>> \notin before,
         \A x, y \in S : x = y \/ <<x, y>> \in before \/ <<y, x>> \in before,
         \A x, y, z \in S : <<x, y>> \in before /\ <<y, z>> \in before => <<x, z>> \in before
  PROVE  /\ Cardinality(S) \in Nat
         /\ InOrder(S, before) \in [1 .. Cardinality(S) -> S]
         /\ \A x \in S : \E k \in 1 .. Cardinality(S) : InOrder(S, before)[k] = x
         /\ \A i, j \in 1 .. Cardinality(S) :
              InOrder(S, before)[i] = InOrder(S, before)[j] => i = j
<1> DEFINE n == Cardinality(S)
           UpTo(x) == {y \in S : y = x \/ <<y, x>> \in before}
           rank == [x \in S |-> Cardinality(UpTo(x))]
           Sorted(s) == \A i, j \in DOMAIN s : i < j => <<s[i], s[j]>> \in before
<1>1. n \in Nat
  BY FS_CardinalityType
<1>2. \A x \in S : IsFiniteSet(UpTo(x)) /\ Cardinality(UpTo(x)) \in 1 .. n
  <2>1. SUFFICES ASSUME NEW x \in S
                 PROVE  IsFiniteSet(UpTo(x)) /\ Cardinality(UpTo(x)) \in 1 .. n
    OBVIOUS
  <2>2. UpTo(x) \in SUBSET S /\ UpTo(x) # {}
    OBVIOUS
  <2>. HIDE DEF UpTo
  <2>3. IsFiniteSet(UpTo(x)) /\ Cardinality(UpTo(x)) <= n
    BY <2>2, FS_Subset
  <2>4. Cardinality(UpTo(x)) \in Nat
    BY <2>3, FS_CardinalityType
  <2>5. Cardinality(UpTo(x)) # 0
    BY <2>2, <2>3, FS_EmptySet
  <2>. QED BY <1>1, <2>3, <2>4, <2>5
<1>3. ASSUME NEW x \in S, NEW y \in S, <<x, y>> \in before
      PROVE  rank[x] < rank[y]
  <2>1. UpTo(x) \in SUBSET UpTo(y)
    BY <1>3
  <2>2. y \in UpTo(y) /\ y \notin UpTo(x)
    BY <1>3
  <2>. HIDE DEF UpTo
  <2>3. Cardinality(UpTo(x)) <= Cardinality(UpTo(y)) /\ Cardinality(UpTo(x)) # Cardinality(UpTo(y))
    BY <2>1, <2>2, <1>2, FS_Subset
  <2>. QED BY <1>1, <1>2, <2>3
<1>4. IsFiniteSet(1 .. n) /\ Cardinality(1 .. n) = n
  <2>1. n = 0 \/ n > 0
    BY <1>1
  <2>. HIDE DEF n
  <2>. QED BY <1>1, <2>1, FS_Interval
<1>5. rank \in [S -> 1 .. n] /\ \A x, y \in S : rank[x] = rank[y] => x = y
  <2>1. rank \in [S -> 1 .. n]
    BY <1>2
  <2>. HIDE DEF rank
  <2>2. SUFFICES ASSUME NEW x \in S, NEW y \in S, rank[x] = rank[y], x # y
                 PROVE  FALSE
    BY <2>1
  <2>3. rank[x] \in 1 .. n /\ rank[y] \in 1 .. n
    BY <2>1
  <2>4. rank[x] < rank[y] \/ rank[y] < rank[x]
    BY <1>3, <2>2
  <2>. QED BY <1>1, <2>2, <2>3, <2>4
<1>6. \A k \in 1 .. n : \E x \in S : rank[x] = k
  <2>. HIDE DEF rank, n
  <2>1. rank \in Injection(S, 1 .. n)
    BY <1>5 DEF Injection, IsInjective
  <2>2. rank \in Surjection(S, 1 .. n)
    BY <1>4, <2>1, FS_Injection DEF n
  <2>. QED BY <2>2 DEF Surjection
<1>7. \E s \in [1 .. n -> S] : Sorted(s)
  <2> DEFINE s == [k \in 1 .. n |-> CHOOSE x \in S : rank[x] = k]
  <2>. HIDE DEF rank, n
  <2>1. s \in [1 .. n -> S] /\ \A k \in 1 .. n : rank[s[k]] = k
    BY <1>6
  <2>. HIDE DEF s
  <2>2. ASSUME NEW i \in 1 .. n, NEW j \in 1 .. n, i < j
        PROVE  <<s[i], s[j]>> \in before
    <3>1. s[i] \in S /\ s[j] \in S /\ rank[s[i]] = i /\ rank[s[j]] = j
      BY <2>1
    <3>2. s[i] # s[j] /\ ~(rank[s[j]] < rank[s[i]])
      BY <1>1, <2>2, <3>1
    <3>. QED BY <1>3, <3>1, <3>2
  <2>3. DOMAIN s = 1 .. n
    BY <2>1
  <2>. QED BY <2>1, <2>2, <2>3
<1>8. InOrder(S, before) \in [1 .. n -> S] /\ Sorted(InOrder(S, before))
  <2>. HIDE DEF rank
  <2>1. InOrder(S, before) = CHOOSE s \in [1 .. n -> S] : Sorted(s)
    BY Zenon DEF InOrder
  <2>. HIDE DEF Sorted, n
  <2>. QED BY <1>7, <2>1
<1> DEFINE t == InOrder(S, before)
<1>9. \A i, j \in 1 .. n : t[i] = t[j] => i = j
  <2>. HIDE DEF n, rank, t
  <2>1. \A i, j \in 1 .. n : i < j => t[i] # t[j]
    BY <1>8 DEF t
  <2>. QED BY <1>1, <2>1
<1>10. \A x \in S : \E k \in 1 .. n : t[k] = x
  <2>. HIDE DEF rank, t
  <2>1. t \in Injection(1 .. n, S)
    BY <1>8, <1>9 DEF Injection, IsInjective, t
  <2>2. t \in Surjection(1 .. n, S)
    BY <1>4, <2>1, FS_Injection
  <2>. QED BY <2>2 DEF Surjection
<1>. QED
  <2>. HIDE DEF rank, Sorted
  <2>. QED BY <1>1, <1>8, <1>9, <1>10

(* ByPath numbers the paths of a run, each once.                             *)
LEMMA ByPathNumbers ==
  ASSUME NEW S \in SUBSET Nat, IsFiniteSet(S)
  PROVE  /\ Cardinality(S) \in Nat
         /\ ByPath(S) \in [1 .. Cardinality(S) -> S]
         /\ \A x \in S : \E k \in 1 .. Cardinality(S) : ByPath(S)[k] = x
         /\ \A i, j \in 1 .. Cardinality(S) : ByPath(S)[i] = ByPath(S)[j] => i = j
<1> DEFINE before == {e \in S \X S : e[1] < e[2]}
<1>1. \A x, y \in S : <<x, y>> \in before <=> x < y
  OBVIOUS
<1>2. \A x \in S : <<x, x>> \notin before
  BY <1>1
<1>3. \A x, y \in S : x = y \/ <<x, y>> \in before \/ <<y, x>> \in before
  <2>1. \A x, y \in S : x = y \/ x < y \/ y < x
    <3>1. \A x \in S : x \in Nat
      OBVIOUS
    <3>. QED BY <3>1
  <2>. QED BY <1>1, <2>1
<1>4. \A x, y, z \in S : <<x, y>> \in before /\ <<y, z>> \in before => <<x, z>> \in before
  BY <1>1
<1>5. ByPath(S) = InOrder(S, before)
  BY DEF ByPath
<1>. HIDE DEF before
<1>6. /\ Cardinality(S) \in Nat
      /\ InOrder(S, before) \in [1 .. Cardinality(S) -> S]
      /\ \A x \in S : \E k \in 1 .. Cardinality(S) : InOrder(S, before)[k] = x
      /\ \A i, j \in 1 .. Cardinality(S) :
           InOrder(S, before)[i] = InOrder(S, before)[j] => i = j
  BY <1>2, <1>3, <1>4, InOrderNumbers, Zenon
<1>. QED BY <1>5, <1>6, Zenon

(* OneByOne numbers its pairs, each once.                                    *)
LEMMA OneByOneNumbers ==
  ASSUME NEW S \in SUBSET (Nat \X Nat), IsFiniteSet(S)
  PROVE  /\ Cardinality(S) \in Nat
         /\ OneByOne(S) \in [1 .. Cardinality(S) -> S]
         /\ \A x \in S : \E k \in 1 .. Cardinality(S) : OneByOne(S)[k] = x
         /\ \A i, j \in 1 .. Cardinality(S) : OneByOne(S)[i] = OneByOne(S)[j] => i = j
<1> DEFINE before == {e \in S \X S : e[1][1] < e[2][1] \/ (e[1][1] = e[2][1] /\ e[1][2] < e[2][2])}
<1>1. \A x, y \in S : <<x, y>> \in before <=> x[1] < y[1] \/ (x[1] = y[1] /\ x[2] < y[2])
  OBVIOUS
<1>2. \A x \in S : x[1] \in Nat /\ x[2] \in Nat /\ x = <<x[1], x[2]>>
  OBVIOUS
<1>3. OneByOne(S) = InOrder(S, before)
  BY DEF OneByOne
<1>. HIDE DEF before
<1>4. \A x \in S : <<x, x>> \notin before
  BY <1>1, <1>2
<1>5. \A x, y \in S : x = y \/ <<x, y>> \in before \/ <<y, x>> \in before
  <2>1. SUFFICES ASSUME NEW x \in S, NEW y \in S,
                        ~(<<x, y>> \in before), ~(<<y, x>> \in before)
                 PROVE  x = y
    OBVIOUS
  <2>2. x[1] = y[1] /\ x[2] = y[2]
    BY <1>1, <1>2, <2>1
  <2>. QED BY <1>2, <2>2
<1>6. \A x, y, z \in S : <<x, y>> \in before /\ <<y, z>> \in before => <<x, z>> \in before
  BY <1>1, <1>2
<1>. QED BY <1>3, <1>4, <1>5, <1>6, InOrderNumbers

(* The length of a sequence is that of its domain.                           *)
LEMMA LenDomain ==
  ASSUME NEW s, NEW m \in Nat, s \in [1 .. m -> Range(s)]
  PROVE  Len(s) = m
OBVIOUS

-----------------------------------------------------------------------------
(* Insertions                                                               *)

(* A table after m rows were inserted: they have ids that no row had, and    *)
(* the others are as they were.                                             *)
Grown(after, table, rows, m) ==
  /\ \E k \in Nat : DOMAIN after \subseteq 1 .. k
  /\ \A i \in DOMAIN table : i \in DOMAIN after /\ after[i] = table[i]
  /\ \E last \in Nat :
       /\ \A k \in 1 .. m : /\ last + k \in DOMAIN after \ DOMAIN table
                            /\ after[last + k] = rows[k]
       /\ \A i \in DOMAIN after \ DOMAIN table : \E k \in 1 .. m : i = last + k

(* That is what an insertion does to a table whose ids are bounded.          *)
LEMMA InsertedRows ==
  ASSUME NEW table, NEW n \in Nat, DOMAIN table \subseteq 1 .. n,
         NEW m \in Nat, NEW rows, rows \in [1 .. m -> Range(rows)]
  PROVE  Grown(Inserted(table, rows), table, rows, m)
<1> DEFINE last == IF DOMAIN table = {} THEN 0 ELSE Max(DOMAIN table)
           after == Inserted(table, rows)
<1>1. last \in Nat /\ DOMAIN table \subseteq 1 .. last
  <2>1. CASE DOMAIN table = {}
    BY <2>1
  <2>2. CASE DOMAIN table # {}
    <3>1. Max(DOMAIN table) \in DOMAIN table /\ \A y \in DOMAIN table : y <= Max(DOMAIN table)
      BY <2>2, MaxIsGreatest
    <3>. QED BY <2>2, <3>1
  <2>. QED BY <2>1, <2>2
<1>2. Len(rows) = m
  <2>1. DOMAIN rows = 1 .. m
    OBVIOUS
  <2>. QED BY <2>1, LenDomain
<1>3. after = [i \in DOMAIN table \cup (last + 1 .. last + m) |->
                 IF i \in DOMAIN table THEN table[i] ELSE rows[i - last]]
  BY <1>2, Zenon DEF Inserted
<1>. HIDE DEF last, after
<1>4. \A i \in DOMAIN table : i \in DOMAIN after /\ after[i] = table[i]
  BY <1>3
<1>5. \A k \in 1 .. m : /\ last + k \in DOMAIN after \ DOMAIN table
                        /\ after[last + k] = rows[k]
  <2>1. SUFFICES ASSUME NEW k \in 1 .. m
                 PROVE  /\ last + k \in DOMAIN after \ DOMAIN table
                        /\ after[last + k] = rows[k]
    OBVIOUS
  <2>2. last + k \in last + 1 .. last + m /\ last + k \notin DOMAIN table /\ (last + k) - last = k
    BY <1>1
  <2>. QED BY <1>3, <2>2
<1>6. \A i \in DOMAIN after \ DOMAIN table : \E k \in 1 .. m : i = last + k
  <2>1. SUFFICES ASSUME NEW i \in last + 1 .. last + m
                 PROVE  \E k \in 1 .. m : i = last + k
    BY <1>3
  <2>2. i - last \in 1 .. m /\ i = last + (i - last)
    BY <1>1
  <2>. QED BY <2>2
<1>7. DOMAIN after \subseteq 1 .. (last + m) /\ last + m \in Nat
  <2>1. DOMAIN after = DOMAIN table \cup (last + 1 .. last + m)
    BY <1>3
  <2>. QED BY <1>1, <2>1
<1>8. \E k \in Nat : DOMAIN after \subseteq 1 .. k
  BY <1>7
<1>9. \E d \in Nat :
        /\ \A k \in 1 .. m : /\ d + k \in DOMAIN after \ DOMAIN table
                             /\ after[d + k] = rows[k]
        /\ \A i \in DOMAIN after \ DOMAIN table : \E k \in 1 .. m : i = d + k
  BY <1>1, <1>5, <1>6
<1>10. Grown(after, table, rows, m)
  BY <1>4, <1>8, <1>9 DEF Grown
<1>. QED BY <1>10 DEF after

-----------------------------------------------------------------------------
(* The rows of files and functions                                          *)

(* What TypeOK and the bound on ids say of source_files.                     *)
FileTable(fs) ==
  /\ \E n \in Nat : DOMAIN fs \subseteq 1 .. n
  /\ \A i \in DOMAIN fs : fs[i] \in [project : Projects, path : Paths, ver : Versions]
  /\ \A i, j \in DOMAIN fs :
       fs[i].project = fs[j].project /\ fs[i].path = fs[j].path => i = j

(* ... and of symbols.                                                      *)
SymbolTable(ss, fs) ==
  /\ \E n \in Nat : DOMAIN ss \subseteq 1 .. n
  /\ \A s \in DOMAIN ss :
       /\ ss[s] = [file |-> ss[s].file, name |-> ss[s].name, ver |-> ss[s].ver]
       /\ ss[s].file \in DOMAIN fs /\ ss[s].ver = fs[ss[s].file].ver
       /\ ss[s].name \in ToSet(Defs[ss[s].ver])

(* What a run leaves of the rows of files: the rows of other projects; the   *)
(* id and the path of its own that it does not remove and, where it does not *)
(* change them, the content.  And what it did not change was there.          *)
FilesKept(fs, new, p, removed, changed) ==
  /\ \A i \in DOMAIN fs : fs[i].project # p => i \in DOMAIN new /\ new[i] = fs[i]
  /\ \A i \in DOMAIN fs : fs[i].project = p /\ fs[i].path \notin removed =>
       /\ i \in DOMAIN new /\ new[i].project = p /\ new[i].path = fs[i].path
       /\ fs[i].path \notin changed => new[i] = fs[i]
  /\ \A i \in DOMAIN new : new[i].project # p => i \in DOMAIN fs /\ new[i] = fs[i]
  /\ \A i \in DOMAIN new : new[i].project = p /\ new[i].path \notin changed =>
       i \in DOMAIN fs /\ new[i] = fs[i] /\ fs[i].path \notin removed

(* FileRows does that, and records every file that changed.                  *)
LEMMA FileRowsOfRun ==
  ASSUME NEW fs, FileTable(fs), NEW p \in Projects, NEW snapshot \in Contents,
         NEW removed \in SUBSET Paths, NEW changed \in SUBSET Paths,
         \A x \in changed : snapshot[x] # Absent
  PROVE  LET new == FileRows(fs, p, snapshot, removed, changed)
         IN  /\ FileTable(new)
             /\ FilesKept(fs, new, p, removed, changed)
             /\ changed \subseteq PathsOf(new, p)
<1> DEFINE gone == {i \in Ids(fs, p) : fs[i].path \in removed}
           kept == [i \in DOMAIN fs \ gone |->
                      IF fs[i].project = p /\ fs[i].path \in changed
                      THEN [fs[i] EXCEPT !.ver = snapshot[fs[i].path]] ELSE fs[i]]
           missing == changed \ PathsOf(kept, p)
           order == ByPath(missing)
           rows == [k \in DOMAIN order |->
                      [project |-> p, path |-> order[k], ver |-> snapshot[order[k]]]]
           new == FileRows(fs, p, snapshot, removed, changed)
           m == Cardinality(missing)
           Row == [project : Projects, path : Paths, ver : Versions]
<1>1. new = Inserted(kept, rows)
  BY Zenon DEF FileRows
<1>2. \A x \in changed : snapshot[x] \in Versions
  BY DEF Contents
<1>3. DOMAIN kept = {i \in DOMAIN fs : ~(fs[i].project = p /\ fs[i].path \in removed)}
  BY DEF Ids
<1>4. \A i \in DOMAIN kept :
        /\ i \in DOMAIN fs /\ kept[i] \in Row
        /\ kept[i].project = fs[i].project /\ kept[i].path = fs[i].path
        /\ ~(fs[i].project = p /\ fs[i].path \in changed) => kept[i] = fs[i]
  <2>1. SUFFICES ASSUME NEW i \in DOMAIN kept
                 PROVE  /\ i \in DOMAIN fs /\ kept[i] \in Row
                        /\ kept[i].project = fs[i].project /\ kept[i].path = fs[i].path
                        /\ ~(fs[i].project = p /\ fs[i].path \in changed) => kept[i] = fs[i]
    OBVIOUS
  <2>2. i \in DOMAIN fs /\ fs[i] \in Row
    BY <1>3, <2>1 DEF FileTable
  <2>3. kept[i] = IF fs[i].project = p /\ fs[i].path \in changed
                  THEN [fs[i] EXCEPT !.ver = snapshot[fs[i].path]] ELSE fs[i]
    OBVIOUS
  <2>. HIDE DEF kept
  <2>. QED BY <1>2, <2>2, <2>3
<1>5. /\ m \in Nat /\ order \in [1 .. m -> missing]
      /\ \A x \in missing : \E k \in 1 .. m : order[k] = x
      /\ \A i, j \in 1 .. m : order[i] = order[j] => i = j
  <2>1. missing \in SUBSET Paths
    OBVIOUS
  <2>. HIDE DEF kept, missing
  <2>2. IsFiniteSet(missing) /\ missing \in SUBSET Nat
    BY <2>1, NavigationAssumption, FS_Subset
  <2>. QED BY <2>2, ByPathNumbers, Zenon
<1>6. rows \in [1 .. m -> Range(rows)]
  <2>. HIDE DEF kept, missing, m, order
  <2>. QED BY <1>5 DEF Range
<1>7. \A k \in 1 .. m : rows[k] \in Row /\ rows[k].project = p /\ rows[k].path = order[k] /\ order[k] \in missing
  <2>1. missing \subseteq changed
    OBVIOUS
  <2>. HIDE DEF kept, missing, m, order
  <2>. QED BY <1>2, <1>5, <2>1
<1>8. \A x \in missing, i \in DOMAIN kept : ~(kept[i].project = p /\ kept[i].path = x)
  <2>. HIDE DEF kept
  <2>. QED BY DEF PathsOf, Ids
<1>9. PICK n \in Nat : DOMAIN kept \subseteq 1 .. n
  <2>. HIDE DEF kept
  <2>. QED BY <1>3 DEF FileTable
<1>10. \A x \in changed : x \in missing \/ \E i \in DOMAIN kept : kept[i].project = p /\ kept[i].path = x
  <2>. HIDE DEF kept
  <2>. QED BY DEF PathsOf, Ids
<1>. HIDE DEF kept, rows, new, missing, order, m
<1>11. /\ \E k \in Nat : DOMAIN new \subseteq 1 .. k
       /\ \A i \in DOMAIN kept : i \in DOMAIN new /\ new[i] = kept[i]
       /\ \E last \in Nat :
            /\ \A k \in 1 .. m : /\ last + k \in DOMAIN new \ DOMAIN kept
                                 /\ new[last + k] = rows[k]
            /\ \A i \in DOMAIN new \ DOMAIN kept : \E k \in 1 .. m : i = last + k
  <2>1. m \in Nat
    BY <1>5
  <2>2. Grown(new, kept, rows, m)
    BY <1>1, <2>1, <1>6, <1>9, InsertedRows
  <2>. QED BY <2>2 DEF Grown
<1>12. \A i \in DOMAIN new \ DOMAIN kept :
         \E k \in 1 .. m : new[i] = rows[k]
  BY <1>11
<1>13. \A i, j \in DOMAIN new \ DOMAIN kept : new[i].path = new[j].path => i = j
  <2>1. PICK last \in Nat :
            /\ \A k \in 1 .. m : /\ last + k \in DOMAIN new \ DOMAIN kept
                                 /\ new[last + k] = rows[k]
            /\ \A i \in DOMAIN new \ DOMAIN kept : \E k \in 1 .. m : i = last + k
    BY <1>11
  <2>2. SUFFICES ASSUME NEW i \in DOMAIN new \ DOMAIN kept, NEW j \in DOMAIN new \ DOMAIN kept,
                        new[i].path = new[j].path
                 PROVE  i = j
    OBVIOUS
  <2>3. PICK k \in 1 .. m : i = last + k
    BY <2>1
  <2>4. PICK l \in 1 .. m : j = last + l
    BY <2>1
  <2>5. order[k] = order[l]
    BY <1>7, <2>1, <2>2, <2>3, <2>4
  <2>. QED BY <1>5, <2>3, <2>4, <2>5
<1>14. \A i \in DOMAIN new \ DOMAIN kept :
         new[i] \in Row /\ new[i].project = p /\ new[i].path \in missing /\ new[i].path \in changed
  BY <1>7, <1>12 DEF missing
<1>15. FileTable(new)
  <2>1. \A i \in DOMAIN new : new[i] \in Row
    BY <1>4, <1>11, <1>14
  <2>2. ASSUME NEW i \in DOMAIN new, NEW j \in DOMAIN new,
               new[i].project = new[j].project, new[i].path = new[j].path
        PROVE  i = j
    <3>1. CASE i \in DOMAIN kept /\ j \in DOMAIN kept
      BY <1>4, <1>11, <2>2, <3>1 DEF FileTable
    <3>2. CASE i \notin DOMAIN kept /\ j \notin DOMAIN kept
      BY <1>13, <2>2, <3>2
    <3>3. CASE i \in DOMAIN kept /\ j \notin DOMAIN kept
      BY <1>8, <1>11, <1>14, <2>2, <3>3
    <3>4. CASE i \notin DOMAIN kept /\ j \in DOMAIN kept
      BY <1>8, <1>11, <1>14, <2>2, <3>4
    <3>. QED BY <3>1, <3>2, <3>3, <3>4
  <2>. QED BY <1>11, <2>1, <2>2 DEF FileTable
<1>16. \A i \in DOMAIN fs : fs[i].project # p => i \in DOMAIN new /\ new[i] = fs[i]
  BY <1>3, <1>4, <1>11
<1>17. \A i \in DOMAIN fs : fs[i].project = p /\ fs[i].path \notin removed =>
         /\ i \in DOMAIN new /\ new[i].project = p /\ new[i].path = fs[i].path
         /\ fs[i].path \notin changed => new[i] = fs[i]
  BY <1>3, <1>4, <1>11
<1>18. \A i \in DOMAIN new : new[i].project # p => i \in DOMAIN fs /\ new[i] = fs[i]
  BY <1>4, <1>11, <1>14
<1>19. \A i \in DOMAIN new : new[i].project = p /\ new[i].path \notin changed =>
         i \in DOMAIN fs /\ new[i] = fs[i] /\ fs[i].path \notin removed
  BY <1>3, <1>4, <1>11, <1>14
<1>20. changed \subseteq PathsOf(new, p)
  <2>1. SUFFICES ASSUME NEW x \in changed
                 PROVE  \E i \in DOMAIN new : new[i].project = p /\ new[i].path = x
    BY DEF PathsOf, Ids
  <2>2. CASE x \in missing
    <3>1. PICK k \in 1 .. m : order[k] = x
      BY <1>5, <2>2
    <3>2. \E i \in DOMAIN new : new[i] = rows[k]
      BY <1>11
    <3>. QED BY <1>7, <3>1, <3>2
  <2>3. CASE x \notin missing
    BY <1>10, <1>11, <2>3
  <2>. QED BY <2>2, <2>3
<1>21. FilesKept(fs, new, p, removed, changed)
  BY <1>16, <1>17, <1>18, <1>19 DEF FilesKept
<1>. QED BY <1>15, <1>20, <1>21, Zenon DEF new

(* The file of a recorded path is a row with that path.                      *)
LEMMA FileAtPath ==
  ASSUME NEW fs, NEW p, NEW x \in PathsOf(fs, p)
  PROVE  /\ FileAt(fs, p, x) \in DOMAIN fs
         /\ fs[FileAt(fs, p, x)].project = p /\ fs[FileAt(fs, p, x)].path = x
<1>1. \E i \in Ids(fs, p) : fs[i].path = x
  BY DEF PathsOf
<1>2. FileAt(fs, p, x) \in Ids(fs, p) /\ fs[FileAt(fs, p, x)].path = x
  BY <1>1, Zenon DEF FileAt
<1>. QED BY <1>2 DEF Ids

(* The functions of files with these contents, by number.                    *)
Defined(C, ver) == UNION {{x} \X (DOMAIN Defs[ver[x]]) : x \in C}

(* Those of finitely many files are finitely many.                           *)
LEMMA FunctionsAreFinite ==
  ASSUME NEW C, IsFiniteSet(C), C \subseteq Nat,
         NEW ver \in [C -> Versions]
  PROVE  /\ IsFiniteSet(Defined(C, ver)) /\ Defined(C, ver) \in SUBSET (Nat \X Nat)
         /\ \A e \in Defined(C, ver) : e[1] \in C /\ e[2] \in DOMAIN Defs[ver[e[1]]]
<1> DEFINE keys == Defined(C, ver)
           of == [x \in C |-> {x} \X (DOMAIN Defs[ver[x]])]
           sets == {{x} \X (DOMAIN Defs[ver[x]]) : x \in C}
<1>1. \A x \in C : Defs[ver[x]] \in Seq(STRING)
  BY NavigationAssumption
<1>2. \A x \in C : Len(Defs[ver[x]]) \in Nat /\ DOMAIN Defs[ver[x]] = 1 .. Len(Defs[ver[x]])
  BY <1>1
<1>3. \A x \in C : IsFiniteSet(of[x])
  <2>1. SUFFICES ASSUME NEW x \in C PROVE IsFiniteSet({x} \X (DOMAIN Defs[ver[x]]))
    OBVIOUS
  <2>2. IsFiniteSet({x})
    BY FS_Singleton
  <2>3. IsFiniteSet(DOMAIN Defs[ver[x]])
    <3>1. 1 \in Int /\ Len(Defs[ver[x]]) \in Int
      BY <1>2
    <3>. QED BY <1>2, <3>1, FS_Interval
  <2>. QED BY <2>2, <2>3, FS_Product
<1>4. of \in Surjection(C, sets)
  BY DEF Surjection
<1>5. IsFiniteSet(sets)
  <2>. HIDE DEF of, sets
  <2>. QED BY <1>4, FS_Surjection
<1>6. \A T \in sets : IsFiniteSet(T)
  BY <1>3
<1>7. IsFiniteSet(keys)
  <2>1. keys = UNION sets
    BY DEF Defined
  <2>. HIDE DEF of, sets, keys
  <2>. QED BY <1>5, <1>6, <2>1, FS_UNION
<1>8. \A e \in keys : \E x \in C : e \in {x} \X (DOMAIN Defs[ver[x]])
  BY DEF Defined
<1>9. ASSUME NEW e \in keys
      PROVE  e \in Nat \X Nat /\ e[1] \in C /\ e[2] \in DOMAIN Defs[ver[e[1]]]
  <2>1. PICK x \in C : e \in {x} \X (DOMAIN Defs[ver[x]])
    BY <1>8
  <2>2. e = <<x, e[2]>> /\ e[1] = x /\ e[2] \in DOMAIN Defs[ver[x]]
    BY <2>1
  <2>3. e[2] \in Nat
    BY <1>2, <2>2
  <2>. QED BY <2>2, <2>3
<1>. QED BY <1>7, <1>9

SymbolsKept(ss, new, kept) == \A s \in kept : s \in DOMAIN new /\ new[s] = ss[s]

(* A run keeps the symbols it is told to keep and inserts, for the files it  *)
(* changed, functions that their content defines.                           *)
LEMMA SymbolRowsOfRun ==
  ASSUME SymbolTable(symbols, files), NEW fs, FileTable(fs), NEW p \in Projects,
         NEW changed \in SUBSET Paths, changed \subseteq PathsOf(fs, p),
         NEW kept \in SUBSET DOMAIN symbols,
         \A s \in kept : /\ symbols[s].file \in DOMAIN fs
                         /\ fs[symbols[s].file].ver = files[symbols[s].file].ver
  PROVE  LET new == SymbolRows(fs, p, changed, kept)
         IN  SymbolTable(new, fs) /\ SymbolsKept(symbols, new, kept)
<1> DEFINE old == [s \in kept |-> symbols[s]]
           ver == [x \in changed |-> Recorded(fs, p, x)]
           keys == UNION {{x} \X (DOMAIN Defs[Recorded(fs, p, x)]) : x \in changed}
           order == OneByOne(keys)
           m == Cardinality(keys)
           rows == [k \in DOMAIN order |-> Symbol(fs, FileAt(fs, p, order[k][1]), order[k][2])]
           new == SymbolRows(fs, p, changed, kept)
<1>1. new = Inserted(old, rows)
  BY Zenon DEF SymbolRows
<1>2. \A x \in changed : /\ FileAt(fs, p, x) \in DOMAIN fs
                         /\ Recorded(fs, p, x) = fs[FileAt(fs, p, x)].ver
                         /\ Recorded(fs, p, x) \in Versions
  <2>1. SUFFICES ASSUME NEW x \in changed
                 PROVE  /\ FileAt(fs, p, x) \in DOMAIN fs
                        /\ Recorded(fs, p, x) = fs[FileAt(fs, p, x)].ver
                        /\ Recorded(fs, p, x) \in Versions
    OBVIOUS
  <2>2. x \in PathsOf(fs, p)
    OBVIOUS
  <2>3. FileAt(fs, p, x) \in DOMAIN fs
    BY <2>2, FileAtPath
  <2>4. Recorded(fs, p, x) = fs[FileAt(fs, p, x)].ver
    BY <2>2, Zenon DEF Recorded
  <2>. QED BY <2>3, <2>4 DEF FileTable
<1>3. ver \in [changed -> Versions] /\ keys = Defined(changed, ver)
  <2>1. ver \in [changed -> Versions]
    BY <1>2
  <2>2. \A x \in changed : ver[x] = Recorded(fs, p, x)
    OBVIOUS
  <2>. HIDE DEF ver
  <2>. QED BY <2>1, <2>2 DEF Defined
<1>4. /\ IsFiniteSet(keys) /\ keys \in SUBSET (Nat \X Nat)
      /\ \A e \in keys : e[1] \in changed /\ e[2] \in DOMAIN Defs[ver[e[1]]]
  <2>1. IsFiniteSet(changed) /\ changed \subseteq Nat
    BY NavigationAssumption, FS_Subset
  <2>. HIDE DEF ver, keys
  <2>. QED BY <1>3, <2>1, FunctionsAreFinite
<1>5. m \in Nat /\ order \in [1 .. m -> keys]
  <2>. HIDE DEF keys
  <2>. QED BY <1>4, OneByOneNumbers
<1>6. rows \in [1 .. m -> Range(rows)]
  <2>. HIDE DEF keys, order, m
  <2>. QED BY <1>5 DEF Range
<1>7. ASSUME NEW k \in 1 .. m
      PROVE  /\ rows[k] = [file |-> rows[k].file, name |-> rows[k].name, ver |-> rows[k].ver]
             /\ rows[k].file \in DOMAIN fs /\ rows[k].ver = fs[rows[k].file].ver
             /\ rows[k].name \in ToSet(Defs[rows[k].ver])
  <2> DEFINE i == FileAt(fs, p, order[k][1])
  <2>1. order[k][1] \in changed /\ order[k][2] \in DOMAIN Defs[ver[order[k][1]]]
    <3>. HIDE DEF keys, order, m, ver
    <3>. QED BY <1>4, <1>5
  <2>2. i \in DOMAIN fs /\ fs[i].ver = ver[order[k][1]]
    <3>. HIDE DEF order
    <3>. QED BY <1>2, <2>1
  <2>3. rows[k] = [file |-> i, name |-> Defs[fs[i].ver][order[k][2]], ver |-> fs[i].ver]
    <3>1. k \in DOMAIN order
      <4>. HIDE DEF keys, order, m
      <4>. QED BY <1>5
    <3>. HIDE DEF order
    <3>. QED BY <3>1, Zenon DEF Symbol
  <2>. HIDE DEF order, rows, i, ver
  <2>4. Defs[fs[i].ver][order[k][2]] \in ToSet(Defs[fs[i].ver])
    BY <2>1, <2>2 DEF ToSet
  <2>. QED BY <2>2, <2>3, <2>4
<1>8. DOMAIN old = kept /\ \A s \in kept : old[s] = symbols[s]
  OBVIOUS
<1>9. PICK n \in Nat : DOMAIN old \subseteq 1 .. n
  BY <1>8 DEF SymbolTable
<1>. HIDE DEF old, rows, new, keys, order, m, ver
<1>10. Grown(new, old, rows, m)
  <2>1. m \in Nat
    BY <1>5
  <2>. QED BY <1>1, <1>6, <1>9, <2>1, InsertedRows
<1>11. \A s \in kept : s \in DOMAIN new /\ new[s] = symbols[s]
  BY <1>8, <1>10 DEF Grown
<1>12. \A s \in DOMAIN new : s \in kept \/ \E k \in 1 .. m : new[s] = rows[k]
  BY <1>8, <1>10 DEF Grown
<1>13. ASSUME NEW s \in DOMAIN new
       PROVE  /\ new[s] = [file |-> new[s].file, name |-> new[s].name, ver |-> new[s].ver]
              /\ new[s].file \in DOMAIN fs /\ new[s].ver = fs[new[s].file].ver
              /\ new[s].name \in ToSet(Defs[new[s].ver])
  <2>1. CASE s \in kept
    <3>1. new[s] = symbols[s]
      BY <1>11, <2>1
    <3>2. /\ symbols[s] = [file |-> symbols[s].file, name |-> symbols[s].name, ver |-> symbols[s].ver]
          /\ symbols[s].ver = files[symbols[s].file].ver
          /\ symbols[s].name \in ToSet(Defs[symbols[s].ver])
      BY <2>1 DEF SymbolTable
    <3>. QED BY <2>1, <3>1, <3>2
  <2>2. CASE \E k \in 1 .. m : new[s] = rows[k]
    BY <1>7, <2>2
  <2>. QED BY <1>12, <2>1, <2>2
<1>14. SymbolTable(new, fs)
  <2>1. \E n_1 \in Nat : DOMAIN new \subseteq 1 .. n_1
    BY <1>10 DEF Grown
  <2>. QED BY <1>13, <2>1 DEF SymbolTable
<1>15. SymbolsKept(symbols, new, kept)
  BY <1>11 DEF SymbolsKept
<1>. QED BY <1>14, <1>15, Zenon DEF new

(* The first runs leave tables like those of every later one.                *)
LEMMA FirstTables ==
  ASSUME Init
  PROVE  FileTable(files) /\ SymbolTable(symbols, files) /\ refreshes \subseteq Projects
<1> DEFINE Row == [project : Projects, path : Paths, ver : Versions]
           Key(o) == {k \in (DOMAIN o) \X Paths : tree[o[k[1]]][k[2]] # Absent}
           FirstFiles(o, f) == [i \in DOMAIN f |->
             [project |-> o[f[i][1]], path |-> f[i][2], ver |-> tree[o[f[i][1]]][f[i][2]]]]
<1>1. PICK o \in SetToSeqs(Projects) :
        files = FirstFiles(o, OneByOne(Key(o))) /\ refreshes = {o[1]}
  BY Zenon DEF Init
<1> DEFINE n == Cardinality(Projects)
           f == OneByOne(Key(o))
           m == Cardinality(Key(o))
<1>2. n \in Nat /\ n # 0
  BY NavigationAssumption, FS_CardinalityType, FS_EmptySet
<1>3. o \in [1 .. n -> Projects] /\ \A i, j \in 1 .. n : o[i] = o[j] => i = j
  BY <1>1 DEF SetToSeqs
<1>4. tree \in [Projects -> Contents]
  BY NavigationAssumption DEF Init
<1>5. Key(o) \in SUBSET ((1 .. n) \X Paths)
  BY <1>3
<1>6. IsFiniteSet(Key(o)) /\ Key(o) \in SUBSET (Nat \X Nat)
  <2>1. IsFiniteSet(1 .. n)
    BY <1>2, FS_Interval
  <2>2. IsFiniteSet((1 .. n) \X Paths)
    BY <2>1, NavigationAssumption, FS_Product
  <2>. HIDE DEF Key, n
  <2>3. (1 .. n) \X Paths \subseteq Nat \X Nat
    <3>1. Paths \subseteq Nat /\ 1 .. n \subseteq Nat
      BY <1>2, NavigationAssumption
    <3>. QED BY <3>1
  <2>4. IsFiniteSet(Key(o))
    BY <1>5, <2>2, FS_Subset
  <2>. QED BY <1>5, <2>3, <2>4
<1>7. /\ m \in Nat /\ f \in [1 .. m -> Key(o)]
      /\ \A i, j \in 1 .. m : f[i] = f[j] => i = j
  <2>. HIDE DEF Key
  <2>. QED BY <1>6, OneByOneNumbers
<1>8. \A k \in Key(o) : /\ k = <<k[1], k[2]>> /\ k[1] \in 1 .. n /\ k[2] \in Paths
                        /\ o[k[1]] \in Projects /\ tree[o[k[1]]][k[2]] \in Versions
  <2>1. SUFFICES ASSUME NEW k \in Key(o)
                 PROVE  /\ k = <<k[1], k[2]>> /\ k[1] \in 1 .. n /\ k[2] \in Paths
                        /\ o[k[1]] \in Projects /\ tree[o[k[1]]][k[2]] \in Versions
    OBVIOUS
  <2>2. k = <<k[1], k[2]>> /\ k[1] \in 1 .. n /\ k[2] \in Paths
    <3>. HIDE DEF Key, n
    <3>. QED BY <1>5, <2>1
  <2>3. o[k[1]] \in Projects
    BY <1>3, <2>2
  <2>4. tree[o[k[1]]] \in Contents
    BY <1>4, <2>3
  <2>5. tree[o[k[1]]][k[2]] # Absent
    BY <2>1
  <2>. QED BY <2>2, <2>3, <2>4, <2>5 DEF Contents
<1>9. /\ DOMAIN files = 1 .. m
      /\ \A i \in 1 .. m : files[i] = [project |-> o[f[i][1]], path |-> f[i][2],
                                       ver |-> tree[o[f[i][1]]][f[i][2]]]
  <2>1. files = FirstFiles(o, f)
    BY <1>1
  <2>. HIDE DEF Key, f, m
  <2>. QED BY <1>7, <2>1
<1>10. \A i \in 1 .. m : files[i] \in Row
  <2>. HIDE DEF Key, f, m, n
  <2>. QED BY <1>7, <1>8, <1>9
<1>11. ASSUME NEW i \in 1 .. m, NEW j \in 1 .. m,
              files[i].project = files[j].project, files[i].path = files[j].path
       PROVE  i = j
  <2>. HIDE DEF Key, f, m, n
  <2>1. f[i] \in Key(o) /\ f[j] \in Key(o)
    BY <1>7
  <2>2. o[f[i][1]] = o[f[j][1]] /\ f[i][2] = f[j][2]
    BY <1>9, <1>11
  <2>3. f[i][1] = f[j][1]
    BY <1>3, <1>8, <2>1, <2>2
  <2>4. f[i] = f[j]
    BY <1>8, <2>1, <2>2, <2>3
  <2>. QED BY <1>7, <2>4
<1>12. FileTable(files)
  <2>. HIDE DEF Key, f, m, n
  <2>1. \E k \in Nat : DOMAIN files \subseteq 1 .. k
    BY <1>7, <1>9
  <2>. QED BY <1>9, <1>10, <1>11, <2>1 DEF FileTable
<1> DEFINE ver == [i \in DOMAIN files |-> files[i].ver]
           keys == UNION {{i} \X (DOMAIN Defs[files[i].ver]) : i \in DOMAIN files}
           g == OneByOne(keys)
           d == Cardinality(keys)
<1>13. ver \in [DOMAIN files -> Versions] /\ keys = Defined(DOMAIN files, ver)
  <2>1. ver \in [DOMAIN files -> Versions]
    BY <1>12 DEF FileTable
  <2>2. \A i \in DOMAIN files : ver[i] = files[i].ver
    OBVIOUS
  <2>. HIDE DEF ver
  <2>. QED BY <2>1, <2>2 DEF Defined
<1>14. /\ IsFiniteSet(keys) /\ keys \in SUBSET (Nat \X Nat)
       /\ \A e \in keys : e[1] \in DOMAIN files /\ e[2] \in DOMAIN Defs[ver[e[1]]]
  <2>. HIDE DEF Key, f, m, n
  <2>1. IsFiniteSet(DOMAIN files) /\ DOMAIN files \subseteq Nat
    <3>1. IsFiniteSet(1 .. m)
      BY <1>7, FS_Interval
    <3>. QED BY <1>9, <3>1
  <2>. HIDE DEF ver, keys
  <2>. QED BY <1>13, <2>1, FunctionsAreFinite
<1>15. d \in Nat /\ g \in [1 .. d -> keys]
  <2>. HIDE DEF keys
  <2>. QED BY <1>14, OneByOneNumbers
<1>16. symbols = [s \in DOMAIN g |-> Symbol(files, g[s][1], g[s][2])]
  BY Zenon DEF Init
<1>. HIDE DEF Key, f, m, n, keys, g, d
<1>17. /\ DOMAIN symbols = 1 .. d
       /\ \A s \in 1 .. d : symbols[s] = [file |-> g[s][1], name |-> Defs[files[g[s][1]].ver][g[s][2]],
                                          ver |-> files[g[s][1]].ver]
  BY <1>15, <1>16 DEF Symbol
<1>18. ASSUME NEW s \in 1 .. d
       PROVE  /\ symbols[s] = [file |-> symbols[s].file, name |-> symbols[s].name, ver |-> symbols[s].ver]
              /\ symbols[s].file \in DOMAIN files /\ symbols[s].ver = files[symbols[s].file].ver
              /\ symbols[s].name \in ToSet(Defs[symbols[s].ver])
  <2>1. g[s][1] \in DOMAIN files /\ g[s][2] \in DOMAIN Defs[files[g[s][1]].ver]
    BY <1>14, <1>15
  <2>2. Defs[files[g[s][1]].ver][g[s][2]] \in ToSet(Defs[files[g[s][1]].ver])
    BY <2>1 DEF ToSet
  <2>. QED BY <1>17, <2>1, <2>2
<1>19. SymbolTable(symbols, files)
  <2>1. \E k \in Nat : DOMAIN symbols \subseteq 1 .. k
    BY <1>15, <1>17
  <2>. QED BY <1>17, <1>18, <2>1 DEF SymbolTable
<1>20. refreshes \subseteq Projects
  BY <1>1, <1>2, <1>3
<1>. QED BY <1>12, <1>19, <1>20

=============================================================================
