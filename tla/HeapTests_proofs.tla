------------------------- MODULE HeapTests_proofs -------------------------
(***************************************************************************)
(* What memory-c takes from a conforming allocator it gives back, test by  *)
(* test.                                                                   *)
(*                                                                         *)
(* Each script is tidy: it frees what it allocates, which is shown for the *)
(* tests one by one.  A heap divided into free intervals that do not touch *)
(* and blocks that do not overlap stays so when a hole gives a block and   *)
(* when a block joins its free neighbours.  Of a heap no block of which is *)
(* held there is then but one interval, the whole.                         *)
(***************************************************************************)
EXTENDS HeapTests, SequenceTheorems, WellFoundedInduction, TLAPS

\* The values of the fields of an operation.
Writes == {"whole", "first", "nothing"}
FreeEven == [Free("blocks") EXCEPT !.op = "free_even"]
Plain == {"mmap", "munmap", "usable_null", "some_blocks", "some_gaps"}
Positive == Nat \ {0}
\* The operations of the scripts.
Ops ==
  {Malloc(a, n, s, w) : a \in Arrays, n \in Positive, s \in Positive, w \in Writes}
    \cup {Fill(a, n, s, w) : a \in Arrays, n \in Positive, s \in Positive, w \in Writes}
    \cup {Aligned(al, s, w) : al \in Positive, s \in Positive, w \in Writes}
    \cup {ReallocNull(s) : s \in Positive}
    \cup {Reclaim, FreeEven}
    \cup {Free(a) : a \in Arrays} \cup {Check(a) : a \in Arrays}
    \cup {Memset(w) : w \in Writes}
    \cup {CheckAlign(al) : al \in Positive} \cup {Usable(s) : s \in Positive}
    \cup {Realloc(s, c) : s \in Positive, c \in BOOLEAN}
    \cup {Do(o) : o \in Plain}

\* The operation puts blocks in the array, or frees what is there.
Adds(o, a) == \/ o.op \in Allocation /\ o.array = a
              \/ o.op = "free_even" /\ a = "anchors"
Clears(o, a) == o.op \in {"free", "free_even"} /\ o.array = a
\* What may be in an array before operation i of a script: an operation before it
\* puts blocks there, and none between them frees them.
Holding(s, i, a) ==
  \E r \in 1..i-1 : Adds(s[r], a) /\ \A q \in r+1..i-1 : ~Clears(s[q], a)

\* The operation works on the one block it expects in ptr.
UsesPtr(o) == o.op \in {"realloc", "memset", "usable", "check_align"}
\* A script that frees what it allocates, and has one block in ptr where it uses one.
Tidy(s) ==
  /\ Len(s) # 0
  /\ \A a \in Arrays : ~Holding(s, Len(s) + 1, a)
  /\ \A i \in 1..Len(s) : /\ UsesPtr(s[i]) => Holding(s, i, "ptr")
                          /\ Adds(s[i], "ptr") => ~Holding(s, i, "ptr")
                          /\ Adds(s[i], "ptr") => s[i].n = 1 /\ s[i].op # "fill"

\* What may be in an array, from one operation to the next.
LEMMA HoldingStep ==
  ASSUME NEW s, NEW a, NEW i \in Nat \ {0}
  PROVE  Holding(s, i + 1, a) <=> Adds(s[i], a) \/ (Holding(s, i, a) /\ ~Clears(s[i], a))
BY DEF Holding

\* A script within another one holds what it holds on its own.
LEMMA Window ==
  ASSUME NEW u, NEW w, NEW base \in Nat, NEW len \in Nat,
         \A j \in 1..len : u[base + j] = w[j],
         NEW a, ~Holding(u, base + 1, a),
         NEW j \in 1..len + 1
  PROVE  Holding(u, base + j, a) <=> Holding(w, j, a)
<1>1. ASSUME Holding(w, j, a)  PROVE Holding(u, base + j, a)
  <2>1. PICK r \in 1..j-1 : Adds(w[r], a) /\ \A q \in r+1..j-1 : ~Clears(w[q], a)
    BY <1>1 DEF Holding
  <2>2. base + r \in 1..base+j-1 /\ Adds(u[base + r], a)
    BY <2>1
  <2>3. ASSUME NEW q \in base+r+1..base+j-1  PROVE ~Clears(u[q], a)
    <3>1. q - base \in r+1..j-1 /\ q = base + (q - base)
      OBVIOUS
    <3>2. u[q] = w[q - base]
      BY <3>1
    <3>3. QED  BY <2>1, <3>1, <3>2
  <2>4. QED  BY <2>2, <2>3 DEF Holding
<1>2. ASSUME Holding(u, base + j, a)  PROVE Holding(w, j, a)
  <2>1. PICK r \in 1..base+j-1 :
          Adds(u[r], a) /\ \A q \in r+1..base+j-1 : ~Clears(u[q], a)
    BY <1>2 DEF Holding
  <2>2. r > base
    <3>1. SUFFICES ASSUME r <= base  PROVE FALSE
      OBVIOUS
    <3>2. r \in 1..base+1-1 /\ \A q \in r+1..base+1-1 : q \in r+1..base+j-1
      BY <3>1
    <3>3. QED  BY <2>1, <3>2 DEF Holding
  <2>3. r - base \in 1..j-1 /\ u[r] = w[r - base]
    <3>1. r - base \in 1..len /\ r = base + (r - base)
      BY <2>2
    <3>2. QED  BY <3>1
  <2>4. ASSUME NEW q \in (r-base)+1..j-1  PROVE ~Clears(w[q], a)
    <3>1. base + q \in r+1..base+j-1 /\ q \in 1..len
      BY <2>1, <2>2
    <3>2. QED  BY <2>1, <3>1
  <2>5. QED  BY <2>1, <2>3, <2>4 DEF Holding
<1>3. QED  BY <1>1, <1>2

\* Two tidy scripts in a row are one.
LEMMA TidyConcat ==
  ASSUME NEW s \in Seq(Ops), NEW t \in Seq(Ops), Tidy(s), Tidy(t)
  PROVE  s \o t \in Seq(Ops) /\ Tidy(s \o t)
<1> DEFINE u == s \o t
<1>1. /\ u \in Seq(Ops) /\ Len(u) = Len(s) + Len(t)
      /\ \A i \in 1..Len(s) : u[i] = s[i]
      /\ \A j \in 1..Len(t) : u[Len(s) + j] = t[j]
      /\ Len(s) \in Nat /\ Len(t) \in Nat
  OBVIOUS
<1> HIDE DEF u
<1>2. ASSUME NEW a, NEW j \in 1..Len(s)+1  PROVE Holding(u, j, a) <=> Holding(s, j, a)
  <2>1. ~Holding(u, 0 + 1, a)
    BY DEF Holding
  <2>2. \A i \in 1..Len(s) : u[0 + i] = s[i]
    BY <1>1
  <2>3. Holding(u, 0 + j, a) <=> Holding(s, j, a)
    BY <1>1, <2>1, <2>2, Window
  <2>4. QED  BY <2>3
<1>3. ASSUME NEW a \in Arrays, NEW j \in 1..Len(t)+1
      PROVE  Holding(u, Len(s) + j, a) <=> Holding(t, j, a)
  <2>1. ~Holding(u, Len(s) + 1, a)
    BY <1>1, <1>2 DEF Tidy
  <2>2. QED  BY <1>1, <2>1, Window
<1>4. \A a \in Arrays : ~Holding(u, Len(u) + 1, a)
  <2>1. TAKE a \in Arrays
  <2>2. Len(t) + 1 \in 1..Len(t)+1 /\ Len(u) + 1 = Len(s) + (Len(t) + 1)
    BY <1>1
  <2>3. QED  BY <1>3, <2>2 DEF Tidy
<1>5. "ptr" \in Arrays
  BY DEF Arrays
<1>6. ASSUME NEW i \in 1..Len(u)
      PROVE  /\ UsesPtr(u[i]) => Holding(u, i, "ptr")
             /\ Adds(u[i], "ptr") => ~Holding(u, i, "ptr")
             /\ Adds(u[i], "ptr") => u[i].n = 1 /\ u[i].op # "fill"
  <2>1. CASE i <= Len(s)
    <3>1. i \in 1..Len(s) /\ i \in 1..Len(s)+1 /\ u[i] = s[i]
      BY <1>1, <2>1
    <3>2. QED  BY <1>2, <3>1 DEF Tidy
  <2>2. CASE i > Len(s)
    <3>1. /\ i - Len(s) \in 1..Len(t) /\ i - Len(s) \in 1..Len(t)+1
          /\ i = Len(s) + (i - Len(s))
      BY <1>1, <2>2
    <3>2. u[i] = t[i - Len(s)]
      BY <1>1, <3>1
    <3>3. Holding(u, i, "ptr") <=> Holding(t, i - Len(s), "ptr")
      BY <1>3, <1>5, <3>1
    <3>4. QED  BY <3>1, <3>2, <3>3 DEF Tidy
  <2>3. QED  BY <1>1, <2>1, <2>2
<1>7. Len(u) # 0
  BY <1>1 DEF Tidy
<1>8. QED  BY <1>1, <1>4, <1>6, <1>7 DEF Tidy, u

\* A set of numbers has a least one.
LEMMA Least ==
  ASSUME NEW T \in SUBSET Nat, T # {}
  PROVE  \E x \in T : \A y \in T : x <= y
<1>1. PICK x \in T : \A y \in T : ~(<<y, x>> \in OpToRel(<, Nat))
  BY NatLessThanWellFounded, WFMin
<1>2. ASSUME NEW y \in T  PROVE x <= y
  <2>1. x \in Nat /\ y \in Nat
    OBVIOUS
  <2>2. y < x => <<y, x>> \in OpToRel(<, Nat)
    BY <2>1, SMT DEF OpToRel
  <2>3. ~(y < x)
    BY <1>1, <2>2
  <2>4. QED  BY <2>1, <2>3
<1>3. QED  BY <1>2

\* What an operation makes of the set of arrays that hold something.
After(o, A) == {a \in Arrays : Adds(o, a) \/ (a \in A /\ ~Clears(o, a))}

\* The operation is right where the arrays of A hold something.
Legal(o, A) ==
  /\ UsesPtr(o) => "ptr" \in A
  /\ Adds(o, "ptr") => "ptr" \notin A /\ o.n = 1 /\ o.op # "fill"

\* A script is tidy if H, which says what is held before each operation, proves it.
LEMMA TidyBy ==
  ASSUME NEW s \in Seq(Ops), NEW n \in Nat, n # 0, Len(s) = n,
         NEW H, H[1] = {}, H[n + 1] = {},
         \A i \in 1..n : H[i + 1] = After(s[i], H[i]) /\ Legal(s[i], H[i])
  PROVE  Tidy(s)
<1>1. ASSUME NEW a \in Arrays, NEW i \in 1..Len(s)+1
      PROVE  Holding(s, i, a) <=> a \in H[i]
  <2> DEFINE Wrong == {k \in 1..Len(s)+1 : ~(Holding(s, k, a) <=> a \in H[k])}
  <2>1. SUFFICES ASSUME Wrong # {}  PROVE FALSE
    OBVIOUS
  <2>a. Wrong \in SUBSET Nat
    OBVIOUS
  <2> HIDE DEF Wrong
  <2>2. PICK k \in Wrong : \A j \in Wrong : k <= j
    BY <2>1, <2>a, Least
  <2> USE DEF Wrong
  <2>3. k # 1
    BY DEF Holding
  <2>4. k - 1 \in 1..Len(s) /\ k - 1 \in 1..Len(s)+1 /\ (k - 1) + 1 = k /\ k - 1 \in Nat \ {0}
    BY <2>3
  <2>5. Holding(s, k - 1, a) <=> a \in H[k - 1]
    BY <2>2, <2>4
  <2>6. Holding(s, k, a) <=> Adds(s[k - 1], a) \/ (Holding(s, k - 1, a) /\ ~Clears(s[k - 1], a))
    BY <2>4, HoldingStep
  <2>7. a \in H[k] <=> Adds(s[k - 1], a) \/ (a \in H[k - 1] /\ ~Clears(s[k - 1], a))
    BY <2>4 DEF After
  <2>8. QED  BY <2>5, <2>6, <2>7
<1>2. Len(s) \in Nat /\ Len(s) + 1 \in 1..Len(s)+1 /\ "ptr" \in Arrays
  BY DEF Arrays
<1>3. QED  BY <1>1, <1>2 DEF Tidy, Legal
-----------------------------------------------------------------------------
(***************************************************************************)
(* The operations, one by one.                                             *)
(***************************************************************************)
\* What the actions read of an operation.
LEMMA OpsFields ==
  ASSUME NEW o \in Ops
  PROVE  /\ o.op \in Allocation \cup Plain
                       \cup {"free_even", "free", "check", "memset", "check_align",
                             "usable", "realloc"}
         /\ o.array \in Arrays
         /\ o.op \in Allocation =>
              /\ o.n \in Nat \ {0} /\ o.align \in Nat \ {0} /\ o.write \in Writes
              /\ o.op # "reclaim" => o.size \in Nat \ {0}
              /\ o.op # "malloc" /\ o.op # "fill" => o.array = "ptr" /\ o.n = 1
         /\ o.op = "free_even" => o.array = "blocks"
         /\ o.op = "realloc" => o.array = "ptr" /\ o.size \in Nat \ {0} /\ o.compare \in BOOLEAN
         /\ o.op \in {"memset", "usable", "check_align"} => o.array = "ptr"
         /\ o.op = "memset" => o.write \in Writes
<1>1. CASE \E a \in Arrays, n \in Positive, s \in Positive, w \in Writes : o = Malloc(a, n, s, w)
  BY <1>1 DEF Malloc, Allocation, Arrays, Positive
<1>2. CASE \E a \in Arrays, n \in Positive, s \in Positive, w \in Writes : o = Fill(a, n, s, w)
  BY <1>2 DEF Malloc, Fill, Allocation, Arrays, Positive
<1>3. CASE \E al \in Positive, s \in Positive, w \in Writes : o = Aligned(al, s, w)
  BY <1>3 DEF Malloc, Aligned, Allocation, Arrays, Positive
<1>4. CASE \E s \in Positive : o = ReallocNull(s)
  BY <1>4 DEF Malloc, ReallocNull, Allocation, Arrays, Writes, Positive
<1>5. CASE o \in {Reclaim, FreeEven}
  BY <1>5 DEF Malloc, Reclaim, FreeEven, Free, Allocation, Arrays, Writes
<1>6. CASE \E a \in Arrays : o = Free(a) \/ o = Check(a)
  BY <1>6 DEF Free, Check, Allocation, Arrays
<1>7. CASE \E w \in Writes : o = Memset(w)
  BY <1>7 DEF Memset, Allocation, Arrays
<1>8. CASE \E s \in Positive : o = CheckAlign(s) \/ o = Usable(s)
  BY <1>8 DEF CheckAlign, Usable, Allocation, Arrays
<1>9. CASE \E s \in Positive, c \in BOOLEAN : o = Realloc(s, c)
  BY <1>9 DEF Realloc, Allocation, Arrays, Positive
<1>10. CASE \E p \in Plain : o = Do(p)
  BY <1>10 DEF Do, Allocation, Arrays, Plain
<1>11. QED
  BY <1>1, <1>2, <1>3, <1>4, <1>5, <1>6, <1>7, <1>8, <1>9, <1>10 DEF Ops

\* One block is taken, used and given back, in every turn of a loop.
Takes == {o \in Ops : Adds(o, "ptr") /\ ~Clears(o, "ptr") /\ o.n = 1 /\ o.op # "fill"
                      /\ \A a \in Arrays \ {"ptr"} : ~Adds(o, a)}
Uses == {o \in Ops : \A a \in Arrays : ~Adds(o, a) /\ ~Clears(o, a)}

\* Where operation i of a loop of bodies of L operations comes from.
Turn(i, L) == ((i - 1) \div L) + 1
Place(i, L) == ((i - 1) % L) + 1

\* The places of a loop are those of its body, one turn after the other.
LEMMA Places ==
  ASSUME NEW L \in {2, 3, 4, 5}, NEW n \in Nat, NEW i \in 1..L * n
  PROVE  /\ Place(i, L) \in {1, L} \cup 2..L-1 /\ Turn(i, L) \in 1..n
         /\ Place(i + 1, L) = 1 <=> Place(i, L) = L
<1>1. CASE L = 2  BY <1>1 DEF Place, Turn
<1>2. CASE L = 3  BY <1>2 DEF Place, Turn
<1>3. CASE L = 4  BY <1>3 DEF Place, Turn
<1>4. CASE L = 5  BY <1>4 DEF Place, Turn
<1>5. QED  BY <1>1, <1>2, <1>3, <1>4

\* A loop starts at the start of its body, and so would what follows it.
LEMMA FirstPlaces ==
  ASSUME NEW L \in {2, 3, 4, 5}, NEW n \in Nat
  PROVE  L * n \in Nat /\ Place(1, L) = 1 /\ Place(L * n + 1, L) = 1
<1>1. CASE L = 2  BY <1>1 DEF Place
<1>2. CASE L = 3  BY <1>2 DEF Place
<1>3. CASE L = 4  BY <1>3 DEF Place
<1>4. CASE L = 5  BY <1>4 DEF Place
<1>5. QED  BY <1>1, <1>2, <1>3, <1>4

\* free(ptr) is an operation, which clears ptr only.
LEMMA FreePtr ==
  /\ Free("ptr") \in Ops /\ Clears(Free("ptr"), "ptr")
  /\ \A a \in Arrays : ~Adds(Free("ptr"), a) /\ (Clears(Free("ptr"), a) => a = "ptr")
  /\ ~UsesPtr(Free("ptr"))
<1>1. Free("ptr") \in Ops
  BY DEF Ops, Arrays
<1>2. QED  BY <1>1 DEF Free, Clears, Adds, Allocation, UsesPtr, Arrays

\* F: the places before which there is a block in ptr.
LEMMA PtrTidy ==
  ASSUME NEW n \in Nat, n # 0, NEW s, s = [i \in 1..n |-> s[i]],
         NEW F, 1 \notin F, n + 1 \notin F,
         \A i \in 1..n : \/ i \notin F /\ i + 1 \in F /\ s[i] \in Takes
                         \/ i \in F /\ i + 1 \in F /\ s[i] \in Uses
                         \/ i \in F /\ i + 1 \notin F /\ s[i] = Free("ptr")
  PROVE  s \in Seq(Ops) /\ Tidy(s)
<1> DEFINE H == [i \in 1..n+1 |-> IF i \in F THEN {"ptr"} ELSE {}]
<1>1. ASSUME NEW i \in 1..n  PROVE s[i] \in Ops
  BY FreePtr DEF Takes, Uses
<1>2. s \in Seq(Ops) /\ Len(s) = n
  BY <1>1
<1>3. H[1] = {} /\ H[n + 1] = {}
  OBVIOUS
<1>4. ASSUME NEW i \in 1..n
      PROVE  H[i + 1] = After(s[i], H[i]) /\ Legal(s[i], H[i])
  <2>1. "ptr" \in Arrays
    BY DEF Arrays
  <2>2. /\ H[i] = IF i \in F THEN {"ptr"} ELSE {}
        /\ H[i + 1] = IF i + 1 \in F THEN {"ptr"} ELSE {}
    OBVIOUS
  <2> HIDE DEF H
  <2>3. CASE i \notin F /\ i + 1 \in F /\ s[i] \in Takes
    <3>1. H[i] = {} /\ H[i + 1] = {"ptr"} /\ ~UsesPtr(s[i])
      BY <2>2, <2>3 DEF Takes, UsesPtr, Adds, Allocation
    <3>2. QED  BY <3>1, <2>1, <2>3 DEF Takes, After, Legal
  <2>4. CASE i \in F /\ i + 1 \in F /\ s[i] \in Uses
    <3>1. H[i] = {"ptr"} /\ H[i + 1] = {"ptr"}
      BY <2>2, <2>4
    <3>2. QED  BY <3>1, <2>1, <2>4 DEF Uses, After, Legal
  <2>5. CASE i \in F /\ i + 1 \notin F /\ s[i] = Free("ptr")
    <3>1. H[i] = {"ptr"} /\ H[i + 1] = {}
      BY <2>2, <2>5
    <3>2. QED  BY <3>1, <2>1, <2>5, FreePtr DEF After, Legal
  <2>6. QED  BY <2>3, <2>4, <2>5
<1> HIDE DEF H
<1>5. QED  BY <1>2, <1>3, <1>4, TidyBy

\* A loop that takes a block, uses it and frees it in every turn is tidy.
LEMMA LoopTidy ==
  ASSUME NEW L \in {2, 3, 4, 5}, NEW n \in Nat, n # 0, NEW body,
         \A q \in 1..n : /\ body[q][1] \in Takes /\ body[q][L] = Free("ptr")
                         /\ \A k \in 2..L-1 : body[q][k] \in Uses,
         NEW s, s = [i \in 1..L*n |-> body[Turn(i, L)][Place(i, L)]]
  PROVE  s \in Seq(Ops) /\ Tidy(s)
<1> DEFINE F == {i \in 1..L*n : Place(i, L) # 1}
<1>1. L * n \in Nat /\ L * n # 0 /\ 1 \notin F /\ L * n + 1 \notin F /\ L # 1
  BY FirstPlaces
<1>2. ASSUME NEW i \in 1..L*n
      PROVE  \/ i \notin F /\ i + 1 \in F /\ s[i] \in Takes
             \/ i \in F /\ i + 1 \in F /\ s[i] \in Uses
             \/ i \in F /\ i + 1 \notin F /\ s[i] = Free("ptr")
  <2>1. i \in F <=> Place(i, L) # 1
    OBVIOUS
  <2>2. i + 1 \in F <=> Place(i, L) # L
    <3>1. CASE i = L * n
      BY <3>1, <1>1, Places, FirstPlaces
    <3>2. CASE i # L * n
      <4>1. i + 1 \in 1..L*n
        BY <3>2, <1>1
      <4>2. QED  BY <4>1, Places
    <3>3. QED  BY <3>1, <3>2
  <2>3. /\ Place(i, L) = 1 => s[i] \in Takes
        /\ Place(i, L) = L => s[i] = Free("ptr")
        /\ Place(i, L) \in 2..L-1 => s[i] \in Uses
    BY Places
  <2> HIDE DEF F
  <2>4. QED  BY <1>1, <2>1, <2>2, <2>3, Places
<1>3. s = [i \in 1..L*n |-> s[i]]
  OBVIOUS
<1> HIDE DEF F
<1>4. QED  BY <1>1, <1>2, <1>3, PtrTidy

\* The members of loop bodies.
LEMMA Bodies ==
  /\ \A x \in Positive, w \in Writes, al \in Positive :
       Malloc("ptr", 1, x, w) \in Takes /\ Aligned(al, x, w) \in Takes
  /\ Check("ptr") \in Uses
  /\ \A x \in Positive : CheckAlign(x) \in Uses /\ Usable(x) \in Uses
  /\ \A w \in Writes : Memset(w) \in Uses
<1>1. ASSUME NEW x \in Positive, NEW w \in Writes, NEW al \in Positive
      PROVE  Malloc("ptr", 1, x, w) \in Takes /\ Aligned(al, x, w) \in Takes
  <2>1. Malloc("ptr", 1, x, w) \in Ops /\ Aligned(al, x, w) \in Ops
    BY DEF Ops, Arrays, Positive
  <2>2. /\ Malloc("ptr", 1, x, w).op = "malloc" /\ Aligned(al, x, w).op = "malloc"
        /\ Malloc("ptr", 1, x, w).n = 1 /\ Aligned(al, x, w).n = 1
        /\ Malloc("ptr", 1, x, w).array = "ptr" /\ Aligned(al, x, w).array = "ptr"
    BY DEF Malloc, Aligned
  <2>3. QED  BY <2>1, <2>2 DEF Takes, Adds, Clears, Allocation, Arrays
<1>2. Check("ptr") \in Uses
  <2>1. Check("ptr") \in Ops
    BY DEF Ops, Arrays
  <2>2. QED  BY <2>1 DEF Uses, Check, Adds, Clears, Allocation
<1>3. ASSUME NEW x \in Positive  PROVE CheckAlign(x) \in Uses /\ Usable(x) \in Uses
  <2>1. CheckAlign(x) \in Ops /\ Usable(x) \in Ops
    BY DEF Ops
  <2>2. QED  BY <2>1 DEF Uses, CheckAlign, Usable, Adds, Clears, Allocation
<1>4. ASSUME NEW w \in Writes  PROVE Memset(w) \in Uses
  <2>1. Memset(w) \in Ops
    BY DEF Ops
  <2>2. QED  BY <2>1 DEF Uses, Memset, Adds, Clears, Allocation
<1>5. QED  BY <1>1, <1>2, <1>3, <1>4

\* test_malloc_free() frees every block (malloc_free.c).
LEMMA MallocFree ==
  test_malloc_free \in Seq(Ops) /\ Tidy(test_malloc_free)
<1> DEFINE S == <<1, 8, 32, 128, 511, 512, 1024, 4096>>
           s == ForEach(S, LAMBDA x : <<Get(x), Check("ptr"), Free("ptr")>>)
           t == Repeat(<<Touch(64), Free("ptr")>>, 100)
           b == [q \in 1..8 |-> <<Get(S[q]), Check("ptr"), Free("ptr")>>]
           c == [q \in 1..100 |-> <<Touch(64), Free("ptr")>>]
<1>1. s \in Seq(Ops) /\ Tidy(s)
  <2>1. s = [i \in 1..3*8 |-> b[Turn(i, 3)][Place(i, 3)]]
    BY DEF ForEach, Turn, Place
  <2>2. \A q \in 1..8 : S[q] \in Positive
    BY DEF Positive
  <2>3. \A q \in 1..8 : /\ b[q][1] \in Takes /\ b[q][3] = Free("ptr")
                        /\ \A k \in 2..3-1 : b[q][k] \in Uses
    BY <2>2, Bodies DEF Get, Writes
  <2>4. 3 \in {2, 3, 4, 5} /\ 8 \in Nat /\ 8 # 0
    OBVIOUS
  <2> HIDE DEF b, s
  <2>5. QED  BY <2>1, <2>3, <2>4, LoopTidy
<1>2. t \in Seq(Ops) /\ Tidy(t)
  <2>1. t = [i \in 1..2*100 |-> c[Turn(i, 2)][Place(i, 2)]]
    BY DEF Repeat, Turn, Place
  <2>3. \A q \in 1..100 : /\ c[q][1] \in Takes /\ c[q][2] = Free("ptr")
                          /\ \A k \in 2..2-1 : c[q][k] \in Uses
    BY Bodies DEF Touch, Writes, Positive
  <2>4. 2 \in {2, 3, 4, 5} /\ 100 \in Nat /\ 100 # 0
    OBVIOUS
  <2> HIDE DEF c, t
  <2>5. QED  BY <2>1, <2>3, <2>4, LoopTidy
<1>3. test_malloc_free = s \o t
  BY DEF test_malloc_free
<1> HIDE DEF s, t
<1>4. QED  BY <1>1, <1>2, <1>3, TidyConcat

\* What each operation does to the set of arrays in use.
LEMMA MallocEffect ==
  ASSUME NEW a \in Arrays \ {"ptr"}, NEW n \in Positive, NEW s \in Positive,
         NEW w \in Writes, NEW o \in {Malloc(a, n, s, w), Fill(a, n, s, w)},
         NEW A \in SUBSET Arrays
  PROVE  o \in Ops /\ After(o, A) = A \cup {a} /\ Legal(o, A)
<1>1. o \in Ops
  BY DEF Ops
<1>2. o.op \in {"malloc", "fill"} /\ o.array = a
  BY DEF Malloc, Fill
<1>3. QED  BY <1>1, <1>2 DEF After, Legal, Adds, Clears, UsesPtr, Allocation, Arrays

\* The other operations.
LEMMA Effects ==
  ASSUME NEW A \in SUBSET Arrays
  PROVE  /\ \A a \in Arrays :
              /\ Free(a) \in Ops /\ Check(a) \in Ops
              /\ After(Free(a), A) = A \ {a} /\ Legal(Free(a), A)
              /\ After(Check(a), A) = A /\ Legal(Check(a), A)
         /\ FreeEven \in Ops /\ Legal(FreeEven, A)
         /\ After(FreeEven, A) = (A \ {"blocks"}) \cup {"anchors"}
         /\ \A o \in Takes : After(o, A) = A \cup {"ptr"} /\ ("ptr" \notin A => Legal(o, A))
         /\ \A o \in Uses : After(o, A) = A /\ ("ptr" \in A => Legal(o, A))
         /\ \A p \in Plain : Do(p) \in Ops /\ After(Do(p), A) = A /\ Legal(Do(p), A)
<1>2. ASSUME NEW a \in Arrays
      PROVE  /\ Free(a) \in Ops /\ Check(a) \in Ops
             /\ After(Free(a), A) = A \ {a} /\ Legal(Free(a), A)
             /\ After(Check(a), A) = A /\ Legal(Check(a), A)
  <2>1. Free(a) \in Ops /\ Check(a) \in Ops
    BY DEF Ops
  <2>2. Free(a).op = "free" /\ Free(a).array = a /\ Check(a).op = "check"
    BY DEF Free, Check
  <2>3. QED  BY <2>1, <2>2 DEF After, Legal, Adds, Clears, UsesPtr, Allocation
<1>3. /\ FreeEven \in Ops /\ Legal(FreeEven, A)
      /\ After(FreeEven, A) = (A \ {"blocks"}) \cup {"anchors"}
  <2>1. FreeEven \in Ops /\ FreeEven.op = "free_even" /\ FreeEven.array = "blocks"
    BY DEF Ops, FreeEven, Free
  <2>2. QED  BY <2>1 DEF After, Legal, Adds, Clears, UsesPtr, Allocation, Arrays
<1>4. ASSUME NEW o \in Takes
      PROVE  After(o, A) = A \cup {"ptr"} /\ ("ptr" \notin A => Legal(o, A))
  BY DEF Takes, After, Legal, UsesPtr, Adds, Clears, Allocation, Arrays
<1>5. ASSUME NEW o \in Uses
      PROVE  After(o, A) = A /\ ("ptr" \in A => Legal(o, A))
  <2>1. "ptr" \in Arrays
    BY DEF Arrays
  <2>2. QED  BY <2>1 DEF Uses, After, Legal
<1>6. ASSUME NEW p \in Plain
      PROVE  Do(p) \in Ops /\ After(Do(p), A) = A /\ Legal(Do(p), A)
  <2>1. Do(p) \in Ops
    BY DEF Ops
  <2>2. Do(p).op = p
    BY DEF Do
  <2>3. QED
    BY <2>1, <2>2 DEF After, Legal, Adds, Clears, UsesPtr, Allocation, Plain
<1>7. QED  BY <1>2, <1>3, <1>4, <1>5, <1>6

\* The rest of the operations on the one pointer.
LEMMA PtrOps ==
  /\ Reclaim \in Takes
  /\ \A s \in Positive : ReallocNull(s) \in Takes
  /\ \A s \in Positive, c \in BOOLEAN : Realloc(s, c) \in Uses
<1>1. Reclaim \in Takes
  <2>1. /\ Reclaim \in Ops /\ Reclaim.op = "reclaim" /\ Reclaim.array = "ptr"
        /\ Reclaim.n = 1
    BY DEF Ops, Reclaim, Malloc
  <2>2. QED  BY <2>1 DEF Takes, Adds, Clears, Allocation
<1>2. ASSUME NEW s \in Positive  PROVE ReallocNull(s) \in Takes
  <2>1. /\ ReallocNull(s) \in Ops /\ ReallocNull(s).op = "realloc_null"
        /\ ReallocNull(s).array = "ptr" /\ ReallocNull(s).n = 1
    BY DEF Ops, ReallocNull, Malloc
  <2>2. QED  BY <2>1 DEF Takes, Adds, Clears, Allocation
<1>3. ASSUME NEW s \in Positive, NEW c \in BOOLEAN  PROVE Realloc(s, c) \in Uses
  <2>1. Realloc(s, c) \in Ops /\ Realloc(s, c).op = "realloc"
    BY DEF Ops, Realloc
  <2>2. QED  BY <2>1 DEF Uses, Adds, Clears, Allocation
<1>4. QED  BY <1>1, <1>2, <1>3

\* A script that takes nothing.
LEMMA IdleTidy ==
  ASSUME NEW s \in Seq(Ops), Len(s) # 0, \A i \in 1..Len(s) : \E p \in Plain : s[i] = Do(p)
  PROVE  Tidy(s)
<1> DEFINE H == [i \in 1..Len(s)+1 |-> {}]
<1>1. H[1] = {} /\ H[Len(s) + 1] = {}
  OBVIOUS
<1>2. \A i \in 1..Len(s) : H[i] = {} /\ H[i + 1] = {}
  OBVIOUS
<1> HIDE DEF H
<1>3. ASSUME NEW i \in 1..Len(s)
      PROVE  H[i + 1] = After(s[i], H[i]) /\ Legal(s[i], H[i])
  <2>1. {} \in SUBSET Arrays
    OBVIOUS
  <2>2. PICK p \in Plain : s[i] = Do(p)
    OBVIOUS
  <2>3. After(Do(p), {}) = {} /\ Legal(Do(p), {})
    BY <2>1, Effects
  <2>4. QED  BY <1>2, <2>2, <2>3
<1>4. QED  BY <1>1, <1>3, TidyBy
-----------------------------------------------------------------------------
(***************************************************************************)
(* The tests, one by one.                                                  *)
(***************************************************************************)
\* test_mmap_munmap() has no block of the heap.
LEMMA MmapTidy == test_mmap_munmap \in Seq(Ops) /\ Tidy(test_mmap_munmap)
<1>1. "mmap" \in Plain /\ "munmap" \in Plain
  BY DEF Plain
<1>2. test_mmap_munmap \in Seq(Ops) /\ Len(test_mmap_munmap) = 2
  BY <1>1, Effects DEF test_mmap_munmap
<1>3. \A i \in 1..2 : \E p \in Plain : test_mmap_munmap[i] = Do(p)
  BY <1>1 DEF test_mmap_munmap
<1>4. QED  BY <1>2, <1>3, IdleTidy

\* Two scripts in a row, operation by operation.
LEMMA Joined ==
  ASSUME NEW s \in Seq(Ops), NEW t \in Seq(Ops), NEW u, u = s \o t
  PROVE  /\ u \in Seq(Ops) /\ Len(u) = Len(s) + Len(t)
         /\ \A i \in 1..Len(s) : u[i] = s[i]
         /\ \A i \in 1..Len(t) : u[Len(s) + i] = t[i]
<1>1. /\ s \o t \in Seq(Ops) /\ Len(s \o t) = Len(s) + Len(t)
      /\ \A i \in 1..Len(s) + Len(t) :
           (s \o t)[i] = IF i <= Len(s) THEN s[i] ELSE t[i - Len(s)]
  BY ConcatProperties
<1>2. QED  BY <1>1

\* Three and three operations are six.
LEMMA ThreeAndThree ==
  ASSUME NEW S, NEW a \in S, NEW b \in S, NEW c \in S, NEW d \in S, NEW e \in S, NEW f \in S
  PROVE  <<a, b, c>> \o <<d, e, f>> = <<a, b, c, d, e, f>>
<1> DEFINE s == <<a, b, c>> \o <<d, e, f>>
           t == <<a, b, c, d, e, f>>
<1>1. /\ <<a, b, c>> \in Seq(S) /\ Len(<<a, b, c>>) = 3
      /\ <<d, e, f>> \in Seq(S) /\ Len(<<d, e, f>>) = 3
  OBVIOUS
<1>2. /\ s \in Seq(S) /\ Len(s) = 6
      /\ s[1] = a /\ s[2] = b /\ s[3] = c /\ s[4] = d /\ s[5] = e /\ s[6] = f
  BY <1>1
<1>3. /\ t \in Seq(S) /\ Len(t) = 6
      /\ t[1] = a /\ t[2] = b /\ t[3] = c /\ t[4] = d /\ t[5] = e /\ t[6] = f
  OBVIOUS
<1> HIDE DEF s, t
<1>4. \A i \in 1..6 : s[i] = t[i]
  BY <1>2, <1>3
<1>5. s = t
  BY <1>2, <1>3, <1>4, SeqEqual
<1>6. QED  BY <1>5 DEF s, t

\* heap_stress.c, phases 1 to 3
LEMMA PhasesTidy ==
  /\ FillPhase \o DrainPhase \o FragmentationPhase \in Seq(Ops)
  /\ Tidy(FillPhase \o DrainPhase \o FragmentationPhase)
<1> DEFINE o1 == Fill("blocks", MAX_FILL_BLOCKS, MB, "whole")
           o2 == Fill("blocks", MAX_MEDIUM_BLOCKS, MEDIUM_BLOCK_SIZE, "whole")
           o3 == Fill("gaps", MAX_MEDIUM_BLOCKS, MEDIUM_BLOCK_SIZE, "first")
           s == <<o1, Do("some_blocks"), Check("blocks"), Free("blocks"), Reclaim,
                  Free("ptr")>>
           t == <<o2, FreeEven, o3, Do("some_gaps"), Check("gaps"), Free("gaps"),
                  Free("anchors")>>
           b == {"blocks"}
           a == {"anchors"}
           ag == {"anchors", "gaps"}
           p == {"ptr"}
           H == << {}, b, b, b, {}, p, {} >>
           G == << {}, b, a, ag, ag, ag, a, {} >>
<1>1. ASSUME NEW A \in SUBSET Arrays
      PROVE  /\ o1 \in Ops /\ After(o1, A) = A \cup {"blocks"} /\ Legal(o1, A)
             /\ o2 \in Ops /\ After(o2, A) = A \cup {"blocks"} /\ Legal(o2, A)
             /\ o3 \in Ops /\ After(o3, A) = A \cup {"gaps"} /\ Legal(o3, A)
  <2>1. /\ MAX_FILL_BLOCKS \in Positive /\ MB \in Positive
        /\ MAX_MEDIUM_BLOCKS \in Positive /\ MEDIUM_BLOCK_SIZE \in Positive
    BY DEF MAX_FILL_BLOCKS, MB, KB, MAX_MEDIUM_BLOCKS, MEDIUM_BLOCK_SIZE, Positive
  <2>2. {"whole", "first"} \subseteq Writes /\ {"blocks", "gaps"} \subseteq Arrays \ {"ptr"}
    BY DEF Writes, Arrays
  <2>3. o1 \in Ops /\ After(o1, A) = A \cup {"blocks"} /\ Legal(o1, A)
    BY <2>1, <2>2, MallocEffect
  <2>4. o2 \in Ops /\ After(o2, A) = A \cup {"blocks"} /\ Legal(o2, A)
    BY <2>1, <2>2, MallocEffect
  <2>5. o3 \in Ops /\ After(o3, A) = A \cup {"gaps"} /\ Legal(o3, A)
    BY <2>1, <2>2, MallocEffect
  <2>6. QED  BY <2>3, <2>4, <2>5
<1>2. /\ FillPhase = <<o1, Do("some_blocks"), Check("blocks")>>
      /\ DrainPhase = <<Free("blocks"), Reclaim, Free("ptr")>>
  BY DEF FillPhase, DrainPhase
<1>3. FragmentationPhase = t
  BY DEF FragmentationPhase, FreeEven
<1> HIDE DEF o1, o2, o3
<1>4. /\ b \in SUBSET Arrays /\ a \in SUBSET Arrays /\ ag \in SUBSET Arrays
      /\ p \in SUBSET Arrays /\ {} \in SUBSET Arrays
      /\ {"ptr", "blocks", "anchors", "gaps"} \subseteq Arrays
      /\ "some_blocks" \in Plain /\ "some_gaps" \in Plain
  BY DEF Arrays, Plain
<1>5. /\ o1 \in Ops /\ After(o1, {}) = b /\ Legal(o1, {})
      /\ o2 \in Ops /\ After(o2, {}) = b /\ Legal(o2, {})
      /\ o3 \in Ops /\ After(o3, a) = ag /\ Legal(o3, a)
  <2>1. After(o1, {}) = {} \cup b /\ After(o2, {}) = {} \cup b
    BY <1>1, <1>4
  <2>2. After(o3, a) = a \cup {"gaps"}
    BY <1>1, <1>4
  <2>3. QED  BY <1>1, <1>4, <2>1, <2>2
<1>6. /\ Do("some_blocks") \in Ops /\ After(Do("some_blocks"), b) = b
      /\ Legal(Do("some_blocks"), b)
      /\ Do("some_gaps") \in Ops /\ After(Do("some_gaps"), ag) = ag
      /\ Legal(Do("some_gaps"), ag)
      /\ Check("blocks") \in Ops /\ After(Check("blocks"), b) = b
      /\ Legal(Check("blocks"), b)
      /\ Check("gaps") \in Ops /\ After(Check("gaps"), ag) = ag
      /\ Legal(Check("gaps"), ag)
  BY <1>4, Effects
<1>7. /\ Free("blocks") \in Ops /\ After(Free("blocks"), b) = {} /\ Legal(Free("blocks"), b)
      /\ Free("ptr") \in Ops /\ After(Free("ptr"), p) = {} /\ Legal(Free("ptr"), p)
      /\ Free("gaps") \in Ops /\ After(Free("gaps"), ag) = a /\ Legal(Free("gaps"), ag)
      /\ Free("anchors") \in Ops /\ After(Free("anchors"), a) = {}
      /\ Legal(Free("anchors"), a)
  <2>1. /\ After(Free("blocks"), b) = b \ {"blocks"} /\ After(Free("ptr"), p) = p \ {"ptr"}
        /\ After(Free("gaps"), ag) = ag \ {"gaps"}
        /\ After(Free("anchors"), a) = a \ {"anchors"}
    BY <1>4, Effects
  <2>2. /\ b \ {"blocks"} = {} /\ p \ {"ptr"} = {} /\ ag \ {"gaps"} = a
        /\ a \ {"anchors"} = {}
    OBVIOUS
  <2> HIDE DEF a, b, p, ag
  <2>3. QED  BY <1>4, <2>1, <2>2, Effects
<1>8. /\ FreeEven \in Ops /\ After(FreeEven, b) = a /\ Legal(FreeEven, b)
      /\ Reclaim \in Ops /\ After(Reclaim, {}) = p /\ Legal(Reclaim, {})
  <2>1. /\ After(FreeEven, b) = (b \ {"blocks"}) \cup {"anchors"}
        /\ After(Reclaim, {}) = {} \cup {"ptr"} /\ "ptr" \notin {} => Legal(Reclaim, {})
    BY <1>4, Effects, PtrOps
  <2>2. (b \ {"blocks"}) \cup {"anchors"} = a /\ {} \cup {"ptr"} = p /\ "ptr" \notin {}
    OBVIOUS
  <2> HIDE DEF a, b, p
  <2>3. QED  BY <1>4, <2>1, <2>2, Effects, PtrOps DEF Takes
<1> HIDE DEF a, b, p, ag
<1>9. s \in Seq(Ops) /\ Tidy(s)
  <2>1. s \in Seq(Ops) /\ Len(s) = 6
    BY <1>5, <1>6, <1>7, <1>8
  <2>2. /\ H[2] = After(s[1], H[1]) /\ Legal(s[1], H[1])
        /\ H[3] = After(s[2], H[2]) /\ Legal(s[2], H[2])
        /\ H[4] = After(s[3], H[3]) /\ Legal(s[3], H[3])
        /\ H[5] = After(s[4], H[4]) /\ Legal(s[4], H[4])
        /\ H[6] = After(s[5], H[5]) /\ Legal(s[5], H[5])
        /\ H[7] = After(s[6], H[6]) /\ Legal(s[6], H[6])
    BY <1>5, <1>6, <1>7, <1>8
  <2>3. H[1] = {} /\ H[6 + 1] = {} /\ 6 \in Nat /\ 6 # 0
    OBVIOUS
  <2> HIDE DEF s, H
  <2>4. \A i \in 1..6 : H[i + 1] = After(s[i], H[i]) /\ Legal(s[i], H[i])
    BY <2>2
  <2>5. QED  BY <2>1, <2>3, <2>4, TidyBy
<1>10. t \in Seq(Ops) /\ Tidy(t)
  <2>1. t \in Seq(Ops) /\ Len(t) = 7
    BY <1>5, <1>6, <1>7, <1>8
  <2>2. /\ G[2] = After(t[1], G[1]) /\ Legal(t[1], G[1])
        /\ G[3] = After(t[2], G[2]) /\ Legal(t[2], G[2])
        /\ G[4] = After(t[3], G[3]) /\ Legal(t[3], G[3])
        /\ G[5] = After(t[4], G[4]) /\ Legal(t[4], G[4])
        /\ G[6] = After(t[5], G[5]) /\ Legal(t[5], G[5])
        /\ G[7] = After(t[6], G[6]) /\ Legal(t[6], G[6])
        /\ G[8] = After(t[7], G[7]) /\ Legal(t[7], G[7])
    BY <1>5, <1>6, <1>7, <1>8
  <2>3. G[1] = {} /\ G[7 + 1] = {} /\ 7 \in Nat /\ 7 # 0
    OBVIOUS
  <2> HIDE DEF t, G
  <2>4. \A i \in 1..7 : G[i + 1] = After(t[i], G[i]) /\ Legal(t[i], G[i])
    BY <2>2
  <2>5. QED  BY <2>1, <2>3, <2>4, TidyBy
<1>11. FillPhase \o DrainPhase = s
  BY <1>2, <1>5, <1>6, <1>7, <1>8, ThreeAndThree
<1> HIDE DEF s, t
<1>12. QED  BY <1>3, <1>9, <1>10, <1>11, TidyConcat

\* test_aligned_alloc_free() frees every block (aligned_alloc_free.c).
LEMMA AlignedTidy ==
  test_aligned_alloc_free \in Seq(Ops) /\ Tidy(test_aligned_alloc_free)
<1> DEFINE S == << <<4, 4>>, <<8, 16>>, <<16, 32>>, <<32, 64>>, <<64, 128>>,
                   <<128, 256>>, <<256, 512>>, <<512, 512>>, <<1024, 2048>> >>
           s == ForEach(S, LAMBDA c : <<Aligned(c[1], c[2], "nothing"), CheckAlign(c[1]),
                                        Memset("whole"), Check("ptr"), Free("ptr")>>)
           t == Repeat(<<Aligned(64, 64, "nothing"), CheckAlign(64), Memset("first"),
                         Free("ptr")>>, 64)
           b == [q \in 1..9 |-> <<Aligned(S[q][1], S[q][2], "nothing"),
                                  CheckAlign(S[q][1]), Memset("whole"), Check("ptr"),
                                  Free("ptr")>>]
           c == [q \in 1..64 |-> <<Aligned(64, 64, "nothing"), CheckAlign(64),
                                   Memset("first"), Free("ptr")>>]
<1>1. s \in Seq(Ops) /\ Tidy(s)
  <2>1. s = [i \in 1..5*9 |-> b[Turn(i, 5)][Place(i, 5)]]
    BY DEF ForEach, Turn, Place
  <2>2. \A q \in 1..9 : S[q][1] \in Positive /\ S[q][2] \in Positive
    BY DEF Positive
  <2> HIDE DEF S
  <2>3. ASSUME NEW q \in 1..9
        PROVE  /\ b[q][1] \in Takes /\ b[q][5] = Free("ptr")
               /\ \A k \in 2..5-1 : b[q][k] \in Uses
    <3>1. "nothing" \in Writes /\ "whole" \in Writes
      BY DEF Writes
    <3>2. b[q][1] \in Takes /\ b[q][5] = Free("ptr")
      BY <2>2, <3>1, Bodies
    <3>3. b[q][2] \in Uses /\ b[q][3] \in Uses /\ b[q][4] \in Uses
      BY <2>2, <3>1, Bodies
    <3> HIDE DEF b
    <3>4. QED  BY <3>2, <3>3
  <2>4. 5 \in {2, 3, 4, 5} /\ 9 \in Nat /\ 9 # 0
    OBVIOUS
  <2> HIDE DEF b, s
  <2>5. QED  BY <2>1, <2>3, <2>4, LoopTidy
<1>2. t \in Seq(Ops) /\ Tidy(t)
  <2>1. t = [i \in 1..4*64 |-> c[Turn(i, 4)][Place(i, 4)]]
    BY DEF Repeat, Turn, Place
  <2>2. ASSUME NEW q \in 1..64
        PROVE  /\ c[q][1] \in Takes /\ c[q][4] = Free("ptr")
               /\ \A k \in 2..4-1 : c[q][k] \in Uses
    <3>1. "nothing" \in Writes /\ "first" \in Writes /\ 64 \in Positive
      BY DEF Writes, Positive
    <3>2. c[q][1] \in Takes /\ c[q][4] = Free("ptr")
      BY <3>1, Bodies
    <3>3. c[q][2] \in Uses /\ c[q][3] \in Uses
      BY <3>1, Bodies
    <3> HIDE DEF c
    <3>4. QED  BY <3>2, <3>3
  <2>3. 4 \in {2, 3, 4, 5} /\ 64 \in Nat /\ 64 # 0
    OBVIOUS
  <2> HIDE DEF c, t
  <2>4. QED  BY <2>1, <2>2, <2>3, LoopTidy
<1>3. test_aligned_alloc_free = s \o t
  BY DEF test_aligned_alloc_free
<1> HIDE DEF s, t
<1>4. QED  BY <1>1, <1>2, <1>3, TidyConcat

\* test_malloc_usable_size() frees every block (malloc_usable_size.c).
LEMMA UsableTidy ==
  test_malloc_usable_size \in Seq(Ops) /\ Tidy(test_malloc_usable_size)
<1> DEFINE S == <<1, 8, 32, 64, 127, 128, 255, 256, 511, 512, 1024>>
           first == <<Do("usable_null")>>
           s == ForEach(S, LAMBDA x : <<Bare(x), Usable(x), Memset("whole"), Check("ptr"),
                                        Free("ptr")>>)
           middle == <<Bare(64), Usable(64), Realloc(200, FALSE), Usable(200),
                       Memset("whole"), Free("ptr"), Aligned(128, 256, "nothing"),
                       CheckAlign(128), Usable(256), Free("ptr")>>
           t == Repeat(<<Bare(96), Usable(96), Memset("first"), Free("ptr")>>, 100)
           b == [q \in 1..11 |-> <<Bare(S[q]), Usable(S[q]), Memset("whole"),
                                   Check("ptr"), Free("ptr")>>]
           c == [q \in 1..100 |-> <<Bare(96), Usable(96), Memset("first"), Free("ptr")>>]
<1>0. "nothing" \in Writes /\ "whole" \in Writes /\ "first" \in Writes
  BY DEF Writes
<1>1. s \in Seq(Ops) /\ Tidy(s)
  <2>1. s = [i \in 1..5*11 |-> b[Turn(i, 5)][Place(i, 5)]]
    BY DEF ForEach, Turn, Place
  <2>2. \A q \in 1..11 : S[q] \in Positive
    BY DEF Positive
  <2> HIDE DEF S
  <2>3. ASSUME NEW q \in 1..11
        PROVE  /\ b[q][1] \in Takes /\ b[q][5] = Free("ptr")
               /\ \A k \in 2..5-1 : b[q][k] \in Uses
    <3>1. b[q][1] \in Takes /\ b[q][5] = Free("ptr")
      BY <2>2, <1>0, Bodies DEF Bare
    <3>2. b[q][2] \in Uses /\ b[q][3] \in Uses /\ b[q][4] \in Uses
      BY <2>2, <1>0, Bodies
    <3> HIDE DEF b
    <3>3. QED  BY <3>1, <3>2
  <2>4. 5 \in {2, 3, 4, 5} /\ 11 \in Nat /\ 11 # 0
    OBVIOUS
  <2> HIDE DEF b, s
  <2>5. QED  BY <2>1, <2>3, <2>4, LoopTidy
<1>2. t \in Seq(Ops) /\ Tidy(t)
  <2>1. t = [i \in 1..4*100 |-> c[Turn(i, 4)][Place(i, 4)]]
    BY DEF Repeat, Turn, Place
  <2>2. ASSUME NEW q \in 1..100
        PROVE  /\ c[q][1] \in Takes /\ c[q][4] = Free("ptr")
               /\ \A k \in 2..4-1 : c[q][k] \in Uses
    <3>1. 96 \in Positive
      BY DEF Positive
    <3>2. c[q][1] \in Takes /\ c[q][4] = Free("ptr")
      BY <1>0, <3>1, Bodies DEF Bare
    <3>3. c[q][2] \in Uses /\ c[q][3] \in Uses
      BY <1>0, <3>1, Bodies
    <3> HIDE DEF c
    <3>4. QED  BY <3>2, <3>3
  <2>3. 4 \in {2, 3, 4, 5} /\ 100 \in Nat /\ 100 # 0
    OBVIOUS
  <2> HIDE DEF c, t
  <2>4. QED  BY <2>1, <2>2, <2>3, LoopTidy
<1>3. first \in Seq(Ops) /\ Tidy(first)
  <2>1. "usable_null" \in Plain
    BY DEF Plain
  <2>2. first \in Seq(Ops) /\ Len(first) = 1 /\ first[1] = Do("usable_null")
    BY <2>1, Effects
  <2> HIDE DEF first
  <2>3. QED  BY <2>1, <2>2, IdleTidy
<1>4. middle \in Seq(Ops) /\ Tidy(middle)
  <2> DEFINE F == {2, 3, 4, 5, 6, 8, 9, 10}
  <2>1. /\ middle[1] \in Takes /\ middle[2] \in Uses /\ middle[3] \in Uses
        /\ middle[4] \in Uses /\ middle[5] \in Uses /\ middle[6] = Free("ptr")
        /\ middle[7] \in Takes /\ middle[8] \in Uses /\ middle[9] \in Uses
        /\ middle[10] = Free("ptr")
    <3>1. {64, 200, 128, 256} \subseteq Positive /\ FALSE \in BOOLEAN
      BY DEF Positive
    <3>2. QED  BY <1>0, <3>1, Bodies, PtrOps DEF Bare
  <2>2. middle = [i \in 1..10 |-> middle[i]]
    OBVIOUS
  <2> HIDE DEF middle
  <2>3. 1 \notin F /\ 10 + 1 \notin F /\ 10 \in Nat /\ 10 # 0
    OBVIOUS
  <2>4. ASSUME NEW i \in 1..10
        PROVE  \/ i \notin F /\ i + 1 \in F /\ middle[i] \in Takes
               \/ i \in F /\ i + 1 \in F /\ middle[i] \in Uses
               \/ i \in F /\ i + 1 \notin F /\ middle[i] = Free("ptr")
    BY <2>1
  <2> HIDE DEF F
  <2>5. QED  BY <2>2, <2>3, <2>4, PtrTidy
<1>5. test_malloc_usable_size = first \o s \o middle \o t
  BY DEF test_malloc_usable_size
<1> HIDE DEF s, t, first, middle
<1>6. first \o s \in Seq(Ops) /\ Tidy(first \o s)
  BY <1>1, <1>3, TidyConcat
<1>7. first \o s \o middle \in Seq(Ops) /\ Tidy(first \o s \o middle)
  BY <1>4, <1>6, TidyConcat
<1>8. QED  BY <1>2, <1>5, <1>7, TidyConcat

\* Phase 4.
LEMMA ReuseTidy == ReusePhase \in Seq(Ops) /\ Tidy(ReusePhase)
<1> DEFINE c == [q \in 1..8 |-> <<Touch(512 * KB), Check("ptr"), Free("ptr")>>]
<1>1. ReusePhase = [i \in 1..3*8 |-> c[Turn(i, 3)][Place(i, 3)]]
  BY DEF Repeat, Turn, Place, ReusePhase
<1>2. ASSUME NEW q \in 1..8
      PROVE  /\ c[q][1] \in Takes /\ c[q][3] = Free("ptr")
             /\ \A k \in 2..3-1 : c[q][k] \in Uses
  <2>1. "first" \in Writes /\ 512 * KB \in Positive
    BY DEF Writes, Positive, KB
  <2>2. QED  BY <2>1, Bodies DEF Touch
<1>3. 3 \in {2, 3, 4, 5} /\ 8 \in Nat /\ 8 # 0
  OBVIOUS
<1> HIDE DEF c
<1>4. QED  BY <1>1, <1>2, <1>3, LoopTidy

\* test_heap_max_capacity() frees every block, anchors and gaps too (heap_stress.c).
LEMMA MaxCapacityTidy ==
  test_heap_max_capacity \in Seq(Ops) /\ Tidy(test_heap_max_capacity)
BY PhasesTidy, ReuseTidy, TidyConcat DEF test_heap_max_capacity

\* A loop of two turns is its body twice.
LEMMA Twice ==
  ASSUME NEW s \in Seq(Ops), NEW L \in {2, 3}, Len(s) = L
  PROVE  Repeat(s, 2) = s \o s
<1> DEFINE t == [i \in 1..2 * L |-> s[((i - 1) % L) + 1]]
<1>1. Repeat(s, 2) = t
  BY DEF Repeat
<1>2. ASSUME NEW i \in 1..2*L
      PROVE  /\ t[i] = (IF i <= L THEN s[i] ELSE s[i - L])
             /\ t[i] \in Ops
  <2>1. ((i - 1) % L) + 1 = IF i <= L THEN i ELSE i - L
    <3>1. CASE L = 2  BY <3>1
    <3>2. CASE L = 3  BY <3>2
    <3>3. QED  BY <3>1, <3>2
  <2>2. t[i] = s[((i - 1) % L) + 1]
    OBVIOUS
  <2>3. t[i] = IF i <= L THEN s[i] ELSE s[i - L]
    BY <2>1, <2>2
  <2>4. (i <= L => i \in 1..L) /\ (~(i <= L) => i - L \in 1..L)
    OBVIOUS
  <2>5. QED  BY <2>3, <2>4, ElementOfSeq
<1>3. t \in Seq(Ops) /\ Len(t) = L + L
  BY <1>2
<1>4. /\ s \o s \in Seq(Ops) /\ Len(s \o s) = L + L
      /\ \A i \in 1..L+L : (s \o s)[i] = IF i <= L THEN s[i] ELSE s[i - L]
  BY ConcatProperties
<1> HIDE DEF t
<1>5. t = s \o s
  <2>1. \A i \in 1..Len(t) : t[i] = (s \o s)[i]
    BY <1>2, <1>3, <1>4
  <2>2. QED  BY <2>1, <1>3, <1>4, SeqEqual
<1>6. QED  BY <1>1, <1>5

\* Two operations and one are three.
LEMMA TwoAndOne ==
  ASSUME NEW S, NEW a \in S, NEW b \in S, NEW c \in S
  PROVE  <<a, b>> \o <<c>> = <<a, b, c>>
<1> DEFINE s == <<a, b>> \o <<c>>
           t == <<a, b, c>>
<1>1. /\ <<a, b>> \in Seq(S) /\ Len(<<a, b>>) = 2
      /\ <<c>> \in Seq(S) /\ Len(<<c>>) = 1
  OBVIOUS
<1>2. s \in Seq(S) /\ Len(s) = 3 /\ s[1] = a /\ s[2] = b /\ s[3] = c
  BY <1>1
<1>3. t \in Seq(S) /\ Len(t) = 3 /\ t[1] = a /\ t[2] = b /\ t[3] = c
  OBVIOUS
<1> HIDE DEF s, t
<1>4. \A i \in 1..3 : s[i] = t[i]
  BY <1>2, <1>3
<1>5. s = t
  BY <1>2, <1>3, <1>4, SeqEqual
<1>6. QED  BY <1>5 DEF s, t

\* heap_shrink.c
LEMMA LargeTidy ==
  /\ LargeBlocks \in Seq(Ops)
  /\ LargeBlocks \o <<Free("blocks")>> \in Seq(Ops)
  /\ Len(LargeBlocks \o <<Free("blocks")>>) = 3
  /\ Tidy(LargeBlocks \o <<Free("blocks")>>)
<1> DEFINE m == Malloc("blocks", NUM_LARGE_BLOCKS, MB, "whole")
           s == <<m, Check("blocks"), Free("blocks")>>
           H == << {}, {"blocks"}, {"blocks"}, {} >>
<1>1. ASSUME NEW A \in SUBSET Arrays
      PROVE  m \in Ops /\ After(m, A) = A \cup {"blocks"} /\ Legal(m, A)
  <2>1. NUM_LARGE_BLOCKS \in Positive /\ MB \in Positive /\ "whole" \in Writes
        /\ "blocks" \in Arrays \ {"ptr"}
    BY DEF NUM_LARGE_BLOCKS, MB, KB, Positive, Writes, Arrays
  <2>2. QED  BY <2>1, MallocEffect
<1>2. LargeBlocks = <<m, Check("blocks")>>
  BY DEF LargeBlocks
<1> HIDE DEF m
<1>3. m \in Ops /\ Check("blocks") \in Ops /\ Free("blocks") \in Ops
  BY <1>1, Effects DEF Arrays
<1>4. LargeBlocks \in Seq(Ops) /\ s \in Seq(Ops) /\ Len(s) = 3
  BY <1>2, <1>3
<1>0. LargeBlocks \o <<Free("blocks")>> = s
  BY <1>2, <1>3, TwoAndOne
<1>5. /\ H[2] = After(s[1], H[1]) /\ Legal(s[1], H[1])
      /\ H[3] = After(s[2], H[2]) /\ Legal(s[2], H[2])
      /\ H[4] = After(s[3], H[3]) /\ Legal(s[3], H[3])
  <2>1. {} \in SUBSET Arrays /\ {"blocks"} \in SUBSET Arrays /\ "blocks" \in Arrays
    BY DEF Arrays
  <2>2. QED  BY <1>1, <2>1, Effects
<1>6. H[1] = {} /\ H[3 + 1] = {} /\ 3 \in Nat /\ 3 # 0
  OBVIOUS
<1> HIDE DEF s, H
<1>7. \A i \in 1..3 : H[i + 1] = After(s[i], H[i]) /\ Legal(s[i], H[i])
  BY <1>5
<1>8. Tidy(s)
  BY <1>4, <1>6, <1>7, TidyBy
<1>9. QED  BY <1>0, <1>4, <1>8

\* The bulk scenario frees every block.
LEMMA BulkTidy == scenario_bulk_free \in Seq(Ops) /\ Tidy(scenario_bulk_free)
<1>1. scenario_bulk_free =
        (LargeBlocks \o <<Free("blocks")>>) \o (LargeBlocks \o <<Free("blocks")>>)
  BY LargeTidy, Twice DEF scenario_bulk_free
<1>2. QED  BY <1>1, LargeTidy, TidyConcat

\* The scenario of the smallest heap frees every block.
LEMMA MinimumTidy ==
  scenario_small_heap_minimum \in Seq(Ops) /\ Tidy(scenario_small_heap_minimum)
<1> DEFINE m == Malloc("blocks", 8, 128, "whole")
           s == <<m, Free("blocks")>>
           H == << {}, {"blocks"}, {} >>
<1>1. ASSUME NEW A \in SUBSET Arrays
      PROVE  m \in Ops /\ After(m, A) = A \cup {"blocks"} /\ Legal(m, A)
  <2>1. 8 \in Positive /\ 128 \in Positive /\ "whole" \in Writes
        /\ "blocks" \in Arrays \ {"ptr"}
    BY DEF Positive, Writes, Arrays
  <2>2. QED  BY <2>1, MallocEffect
<1>2. scenario_small_heap_minimum = Repeat(s, 2)
  BY DEF scenario_small_heap_minimum
<1> HIDE DEF m
<1>3. s \in Seq(Ops) /\ Len(s) = 2
  <2>1. m \in Ops /\ Free("blocks") \in Ops
    BY <1>1, Effects DEF Arrays
  <2>2. QED  BY <2>1
<1>4. /\ H[2] = After(s[1], H[1]) /\ Legal(s[1], H[1])
      /\ H[3] = After(s[2], H[2]) /\ Legal(s[2], H[2])
  <2>1. {} \in SUBSET Arrays /\ {"blocks"} \in SUBSET Arrays /\ "blocks" \in Arrays
    BY DEF Arrays
  <2>2. QED  BY <1>1, <2>1, Effects
<1>5. H[1] = {} /\ H[2 + 1] = {} /\ 2 \in Nat /\ 2 # 0
  OBVIOUS
<1> HIDE DEF s, H
<1>6. \A i \in 1..2 : H[i + 1] = After(s[i], H[i]) /\ Legal(s[i], H[i])
  BY <1>4
<1>7. Tidy(s)
  BY <1>3, <1>5, <1>6, TidyBy
<1>8. Repeat(s, 2) = s \o s
  BY <1>3, Twice
<1>9. QED  BY <1>2, <1>3, <1>7, <1>8, TidyConcat

\* The scenario of growing and shrinking frees every block.
LEMMA CyclesTidy ==
  scenario_shrink_grow_cycles \in Seq(Ops) /\ Tidy(scenario_shrink_grow_cycles)
<1> DEFINE c == [q \in 1..16 |-> <<Get(MB), Check("ptr"), Free("ptr")>>]
<1>1. scenario_shrink_grow_cycles = [i \in 1..3*16 |-> c[Turn(i, 3)][Place(i, 3)]]
  BY DEF Repeat, Turn, Place, scenario_shrink_grow_cycles
<1>2. ASSUME NEW q \in 1..16
      PROVE  /\ c[q][1] \in Takes /\ c[q][3] = Free("ptr")
             /\ \A k \in 2..3-1 : c[q][k] \in Uses
  <2>1. "whole" \in Writes /\ MB \in Positive
    BY DEF Writes, Positive, MB, KB
  <2>2. QED  BY <2>1, Bodies DEF Get
<1>3. 3 \in {2, 3, 4, 5} /\ 16 \in Nat /\ 16 # 0
  OBVIOUS
<1> HIDE DEF c
<1>4. QED  BY <1>1, <1>2, <1>3, LoopTidy

\* The scenario of shrinking to the minimum frees every block.
LEMMA ToMinimumTidy ==
  scenario_shrink_to_minimum \in Seq(Ops) /\ Tidy(scenario_shrink_to_minimum)
<1> DEFINE g == Get(2 * MB)
           m == Malloc("blocks", 4, 64 * KB, "whole")
           s == <<g, Free("ptr"), m, Check("blocks"), Free("blocks")>>
           H == << {}, {"ptr"}, {}, {"blocks"}, {"blocks"}, {} >>
<1>1. ASSUME NEW A \in SUBSET Arrays
      PROVE  m \in Ops /\ After(m, A) = A \cup {"blocks"} /\ Legal(m, A)
  <2>1. 4 \in Positive /\ 64 * KB \in Positive /\ "whole" \in Writes
        /\ "blocks" \in Arrays \ {"ptr"}
    BY DEF Positive, Writes, Arrays, KB
  <2>2. QED  BY <2>1, MallocEffect
<1>2. g \in Takes
  <2>1. 2 * MB \in Positive /\ "whole" \in Writes
    BY DEF Positive, Writes, MB, KB
  <2>2. QED  BY <2>1, Bodies DEF Get
<1>3. scenario_shrink_to_minimum = s
  BY DEF scenario_shrink_to_minimum
<1> HIDE DEF m, g
<1>4. s \in Seq(Ops) /\ Len(s) = 5
  <2>1. /\ m \in Ops /\ g \in Ops /\ Free("ptr") \in Ops /\ Check("blocks") \in Ops
        /\ Free("blocks") \in Ops
    BY <1>1, <1>2, Effects DEF Arrays, Takes
  <2>2. QED  BY <2>1
<1>5. /\ H[2] = After(s[1], H[1]) /\ Legal(s[1], H[1])
      /\ H[3] = After(s[2], H[2]) /\ Legal(s[2], H[2])
      /\ H[4] = After(s[3], H[3]) /\ Legal(s[3], H[3])
      /\ H[5] = After(s[4], H[4]) /\ Legal(s[4], H[4])
      /\ H[6] = After(s[5], H[5]) /\ Legal(s[5], H[5])
  <2>1. /\ {} \in SUBSET Arrays /\ {"blocks"} \in SUBSET Arrays /\ "blocks" \in Arrays
        /\ {"ptr"} \in SUBSET Arrays /\ "ptr" \in Arrays
    BY DEF Arrays
  <2>2. H[2] = After(s[1], H[1]) /\ Legal(s[1], H[1])
    <3>1. /\ After(g, {}) = {} \cup {"ptr"}
          /\ "ptr" \notin {} => Legal(g, {})
      BY <1>2, <2>1, Effects
    <3>2. QED  BY <3>1
  <2>3. H[3] = After(s[2], H[2]) /\ Legal(s[2], H[2])
    <3>1. /\ After(Free("ptr"), {"ptr"}) = {"ptr"} \ {"ptr"}
          /\ Legal(Free("ptr"), {"ptr"})
      BY <2>1, Effects
    <3>2. QED  BY <3>1
  <2>4. H[4] = After(s[3], H[3]) /\ Legal(s[3], H[3])
    BY <2>1, <1>1
  <2>5. H[5] = After(s[4], H[4]) /\ Legal(s[4], H[4])
    BY <2>1, Effects
  <2>6. H[6] = After(s[5], H[5]) /\ Legal(s[5], H[5])
    <3>1. /\ After(Free("blocks"), {"blocks"}) = {"blocks"} \ {"blocks"}
          /\ Legal(Free("blocks"), {"blocks"})
      BY <2>1, Effects
    <3>2. QED  BY <3>1
  <2>7. QED  BY <2>2, <2>3, <2>4, <2>5, <2>6
<1>6. H[1] = {} /\ H[5 + 1] = {} /\ 5 \in Nat /\ 5 # 0
  OBVIOUS
<1> HIDE DEF s, H
<1>7. \A i \in 1..5 : H[i + 1] = After(s[i], H[i]) /\ Legal(s[i], H[i])
  BY <1>5
<1>8. QED  BY <1>3, <1>4, <1>6, <1>7, TidyBy

\* The scenario with the anchors frees them, and every block.
LEMMA AnchorsTidy ==
  /\ scenario_anchors_prevent_full_shrink \in Seq(Ops)
  /\ Tidy(scenario_anchors_prevent_full_shrink)
<1> DEFINE m == Malloc("blocks", 1, MB, "whole")
           k == Malloc("anchors", 1, ANCHOR_SIZE, "whole")
           end == <<Free("blocks"), Free("anchors")>>
           s == WithAnchors \o end
           both == {"blocks", "anchors"}
           H == [i \in 1..11 |-> IF i \in {1, 11} THEN {} ELSE IF i = 2 THEN {"blocks"}
                                 ELSE IF i = 10 THEN {"anchors"} ELSE both]
<1>1. ASSUME NEW A \in SUBSET Arrays
      PROVE  /\ m \in Ops /\ After(m, A) = A \cup {"blocks"} /\ Legal(m, A)
             /\ k \in Ops /\ After(k, A) = A \cup {"anchors"} /\ Legal(k, A)
  <2>1. 1 \in Positive /\ MB \in Positive /\ ANCHOR_SIZE \in Positive /\ "whole" \in Writes
        /\ "blocks" \in Arrays \ {"ptr"} /\ "anchors" \in Arrays \ {"ptr"}
    BY DEF MB, KB, ANCHOR_SIZE, Positive, Writes, Arrays
  <2>2. m \in Ops /\ After(m, A) = A \cup {"blocks"} /\ Legal(m, A)
    BY <2>1, MallocEffect
  <2>3. k \in Ops /\ After(k, A) = A \cup {"anchors"} /\ Legal(k, A)
    BY <2>1, MallocEffect
  <2>4. QED  BY <2>2, <2>3
<1>2. WithAnchors = [i \in 1..8 |-> <<m, k>>[((i - 1) % 2) + 1]]
  BY DEF WithAnchors, Repeat, NUM_LARGE_BLOCKS
<1> HIDE DEF m, k
<1>3. WithAnchors = [i \in 1..8 |-> IF i \in {1, 3, 5, 7} THEN m ELSE k]
  <2>1. \A i \in 1..8 : ((i - 1) % 2) + 1 = IF i \in {1, 3, 5, 7} THEN 1 ELSE 2
    OBVIOUS
  <2>2. QED  BY <1>2, <2>1
<1>4. {} \in SUBSET Arrays /\ {"blocks"} \in SUBSET Arrays /\ both \in SUBSET Arrays
      /\ {"anchors"} \in SUBSET Arrays /\ "blocks" \in Arrays /\ "anchors" \in Arrays
  BY DEF Arrays
<1>5. /\ Free("blocks") \in Ops /\ Free("anchors") \in Ops
      /\ After(Free("blocks"), both) = {"anchors"} /\ Legal(Free("blocks"), both)
      /\ After(Free("anchors"), {"anchors"}) = {} /\ Legal(Free("anchors"), {"anchors"})
  <2>1. /\ Free("blocks") \in Ops /\ Free("anchors") \in Ops
        /\ After(Free("blocks"), both) = both \ {"blocks"} /\ Legal(Free("blocks"), both)
        /\ After(Free("anchors"), {"anchors"}) = {"anchors"} \ {"anchors"}
        /\ Legal(Free("anchors"), {"anchors"})
    BY <1>4, Effects
  <2>2. QED  BY <2>1
<1>6. /\ m \in Ops /\ k \in Ops
      /\ After(m, {}) = {"blocks"} /\ Legal(m, {})
      /\ After(m, both) = both /\ Legal(m, both)
      /\ After(k, {"blocks"}) = both /\ Legal(k, {"blocks"})
      /\ After(k, both) = both /\ Legal(k, both)
  <2>1. /\ After(m, {}) = {} \cup {"blocks"} /\ After(m, both) = both \cup {"blocks"}
        /\ After(k, {"blocks"}) = {"blocks"} \cup {"anchors"}
        /\ After(k, both) = both \cup {"anchors"}
    BY <1>1, <1>4
  <2>2. QED  BY <1>1, <1>4, <2>1
<1>7. /\ end \in Seq(Ops) /\ Len(end) = 2
      /\ WithAnchors \in Seq(Ops) /\ Len(WithAnchors) = 8
  BY <1>3, <1>5, <1>6
<1>8. /\ s \in Seq(Ops) /\ Len(s) = 10
      /\ \A i \in 1..8 : s[i] = IF i \in {1, 3, 5, 7} THEN m ELSE k
      /\ s[9] = Free("blocks") /\ s[10] = Free("anchors")
  <2>1. end[1] = Free("blocks") /\ end[2] = Free("anchors")
    OBVIOUS
  <2> HIDE DEF end, both, H
  <2>2. /\ s \in Seq(Ops) /\ Len(s) = Len(WithAnchors) + Len(end)
        /\ \A i \in 1..Len(WithAnchors) + Len(end) :
             s[i] = IF i <= Len(WithAnchors) THEN WithAnchors[i]
                                             ELSE end[i - Len(WithAnchors)]
    BY <1>7, ConcatProperties
  <2> HIDE DEF s
  <2>3. s[9] = end[1] /\ s[10] = end[2] /\ \A i \in 1..8 : s[i] = WithAnchors[i]
    BY <1>7, <2>2
  <2>4. QED  BY <1>3, <1>7, <2>1, <2>2, <2>3
<1>9. /\ H[1] = {} /\ H[10 + 1] = {} /\ H[2] = {"blocks"} /\ H[10] = {"anchors"}
      /\ \A i \in 3..9 : H[i] = both
  OBVIOUS
<1> HIDE DEF s, H, both, end
<1>a. H[3] = both /\ H[9] = both
  BY <1>9
<1>d. s[1] = m /\ s[2] = k /\ H[11] = {}
  BY <1>8, <1>9
<1>10. /\ H[2] = After(s[1], H[1]) /\ Legal(s[1], H[1])
       /\ H[3] = After(s[2], H[2]) /\ Legal(s[2], H[2])
       /\ H[10] = After(s[9], H[9]) /\ Legal(s[9], H[9])
       /\ H[11] = After(s[10], H[10]) /\ Legal(s[10], H[10])
  BY <1>5, <1>6, <1>8, <1>9, <1>a, <1>d
<1>b. ASSUME NEW i \in 3..8  PROVE H[i + 1] = After(s[i], H[i]) /\ Legal(s[i], H[i])
  <2>1. i \in 3..9 /\ i + 1 \in 3..9 /\ i \in 1..8
    OBVIOUS
  <2>2. H[i] = both /\ H[i + 1] = both /\ (s[i] = m \/ s[i] = k)
    BY <2>1, <1>8, <1>9
  <2>3. QED  BY <2>2, <1>6
<1>c. \A i \in 1..10 : H[i + 1] = After(s[i], H[i]) /\ Legal(s[i], H[i])
  <2>1. ASSUME NEW i \in 1..10  PROVE i \in {1, 2, 9, 10} \/ i \in 3..8
    OBVIOUS
  <2>2. QED  BY <1>10, <1>b, <2>1
<1>11. Tidy(s)
  <2>1. s \in Seq(Ops) /\ Len(s) = 10 /\ 10 \in Nat /\ 10 # 0
    BY <1>8
  <2>2. H[1] = {} /\ H[10 + 1] = {}
    BY <1>9
  <2>3. QED  BY <1>c, <2>1, <2>2, TidyBy
<1>12. scenario_anchors_prevent_full_shrink = s \o (LargeBlocks \o <<Free("blocks")>>)
  <2>1. scenario_anchors_prevent_full_shrink = (s \o LargeBlocks) \o <<Free("blocks")>>
    BY DEF scenario_anchors_prevent_full_shrink, s, end
  <2>2. <<Free("blocks")>> \in Seq(Ops)
    BY <1>5
  <2>3. QED  BY <1>8, <2>1, <2>2, LargeTidy, ConcatAssociative
<1>13. QED  BY <1>8, <1>11, <1>12, LargeTidy, TidyConcat

\* test_heap_shrink() frees every block (heap_shrink.c).
LEMMA ShrinkTidy == test_heap_shrink \in Seq(Ops) /\ Tidy(test_heap_shrink)
<1> DEFINE a == scenario_bulk_free \o scenario_shrink_to_minimum
           b == a \o scenario_anchors_prevent_full_shrink
           c == b \o scenario_shrink_grow_cycles
<1>1. a \in Seq(Ops) /\ Tidy(a)
  BY BulkTidy, ToMinimumTidy, TidyConcat
<1>2. b \in Seq(Ops) /\ Tidy(b)
  BY <1>1, AnchorsTidy, TidyConcat
<1>3. c \in Seq(Ops) /\ Tidy(c)
  BY <1>2, CyclesTidy, TidyConcat
<1>4. QED  BY <1>3, MinimumTidy, TidyConcat DEF test_heap_shrink

\* A block that is taken, used through a script and given back.
LEMMA AroundTidy ==
  ASSUME NEW x \in Takes, NEW s \in Seq(Ops), \A i \in 1..Len(s) : s[i] \in Uses,
         NEW u, u = (<<x>> \o s) \o <<Free("ptr")>>
  PROVE  u \in Seq(Ops) /\ Tidy(u)
<1> DEFINE n == Len(s)
           g == <<x>>
           f == <<Free("ptr")>>
           gs == g \o s
           F == 2..n+2
<1>1. g \in Seq(Ops) /\ Len(g) = 1 /\ g[1] = x
  BY DEF Takes
<1>2. f \in Seq(Ops) /\ Len(f) = 1 /\ f[1] = Free("ptr")
  BY FreePtr
<1>3. u = gs \o f /\ gs = g \o s /\ n \in Nat
  OBVIOUS
<1> HIDE DEF g, f, gs
<1>4. /\ gs \in Seq(Ops) /\ Len(gs) = n + 1 /\ gs[1] = x
      /\ \A i \in 1..n : gs[i + 1] = s[i]
  <2>1. /\ gs \in Seq(Ops) /\ Len(gs) = Len(g) + Len(s)
        /\ \A i \in 1..Len(g) : gs[i] = g[i]
        /\ \A i \in 1..Len(s) : gs[Len(g) + i] = s[i]
    BY <1>1, <1>3, Joined
  <2>2. QED  BY <2>1, <1>1
<1>5. /\ u \in Seq(Ops) /\ Len(u) = n + 2 /\ u[1] = x
      /\ \A i \in 1..n : u[i + 1] = s[i]
      /\ u[n + 2] = Free("ptr")
  <2>1. /\ u \in Seq(Ops) /\ Len(u) = Len(gs) + Len(f)
        /\ \A i \in 1..Len(gs) : u[i] = gs[i]
        /\ \A i \in 1..Len(f) : u[Len(gs) + i] = f[i]
    BY <1>2, <1>3, <1>4, Joined
  <2>2. u[(n + 1) + 1] = f[1]
    BY <2>1, <1>2, <1>4
  <2>3. u[1] = gs[1] /\ \A i \in 1..n : u[i + 1] = gs[i + 1]
    BY <2>1, <1>4
  <2>4. QED  BY <2>1, <2>2, <2>3, <1>2, <1>4
<1>6. ASSUME NEW i \in 1..n+2
      PROVE  \/ i \notin F /\ i + 1 \in F /\ u[i] \in Takes
             \/ i \in F /\ i + 1 \in F /\ u[i] \in Uses
             \/ i \in F /\ i + 1 \notin F /\ u[i] = Free("ptr")
  <2>1. CASE i = 1
    BY <2>1, <1>5
  <2>2. CASE i \in 2..n+1
    <3>1. i - 1 \in 1..n /\ (i - 1) + 1 = i
      BY <2>2
    <3>2. u[i] = s[i - 1]
      BY <3>1, <1>5
    <3>3. QED  BY <2>2, <3>1, <3>2
  <2>3. CASE i = n + 2
    BY <2>3, <1>5
  <2>4. QED  BY <2>1, <2>2, <2>3
<1>7. u = [i \in 1..n+2 |-> u[i]]
  <2>1. u \in Seq(Ops) /\ Len(u) = n + 2
    BY <1>5
  <2>2. u \in [1..n+2 -> Ops]
    BY <2>1, LenProperties
  <2>3. QED  BY <2>2
<1>8. 1 \notin F /\ (n + 2) + 1 \notin F /\ n + 2 \in Nat /\ n + 2 # 0
  BY <1>3
<1> HIDE DEF F, n
<1>9. QED  BY <1>6, <1>7, <1>8, PtrTidy

\* test_realloc() frees every block (realloc.c).
LEMMA ReallocTidy == test_realloc \in Seq(Ops) /\ Tidy(test_realloc)
<1> DEFINE first == <<Get(64), Realloc(256, TRUE), Free("ptr"), Get(512),
                      Realloc(64, TRUE), Free("ptr"), ReallocNull(128), Check("ptr"),
                      Free("ptr")>>
           S == <<1, 7, 8, 9, 15, 16, 17, 31, 32, 33>>
           s == ForEach(S, LAMBDA x : <<Get(x), Realloc(2 * x, TRUE), Free("ptr")>>)
           b == [q \in 1..10 |-> <<Get(S[q]), Realloc(2 * S[q], TRUE), Free("ptr")>>]
           turn4 == <<Realloc(64, TRUE), Memset("whole"), Realloc(32, TRUE),
                      Memset("whole")>>
           loop == Repeat(turn4, 32)
           last == (<<Get(32)>> \o loop) \o <<Free("ptr")>>
<1>1. "whole" \in Writes /\ TRUE \in BOOLEAN /\ {32, 64, 128, 256, 512} \subseteq Positive
  BY DEF Writes, Positive
<1>2. first \in Seq(Ops) /\ Tidy(first)
  <2> DEFINE F == {2, 3, 5, 6, 8, 9}
  <2>1. /\ first[1] \in Takes /\ first[2] \in Uses /\ first[3] = Free("ptr")
        /\ first[4] \in Takes /\ first[5] \in Uses /\ first[6] = Free("ptr")
        /\ first[7] \in Takes /\ first[8] \in Uses /\ first[9] = Free("ptr")
    BY <1>1, Bodies, PtrOps DEF Get
  <2>2. first = [i \in 1..9 |-> first[i]]
    OBVIOUS
  <2> HIDE DEF first
  <2>3. 1 \notin F /\ 9 + 1 \notin F /\ 9 \in Nat /\ 9 # 0
    OBVIOUS
  <2>4. ASSUME NEW i \in 1..9
        PROVE  \/ i \notin F /\ i + 1 \in F /\ first[i] \in Takes
               \/ i \in F /\ i + 1 \in F /\ first[i] \in Uses
               \/ i \in F /\ i + 1 \notin F /\ first[i] = Free("ptr")
    BY <2>1
  <2> HIDE DEF F
  <2>5. QED  BY <2>2, <2>3, <2>4, PtrTidy
<1>3. s \in Seq(Ops) /\ Tidy(s)
  <2>1. s = [i \in 1..3*10 |-> b[Turn(i, 3)][Place(i, 3)]]
    BY DEF ForEach, Turn, Place
  <2>2. \A q \in 1..10 : S[q] \in Positive /\ 2 * S[q] \in Positive
    BY DEF Positive
  <2> HIDE DEF S
  <2>3. ASSUME NEW q \in 1..10
        PROVE  /\ b[q][1] \in Takes /\ b[q][3] = Free("ptr")
               /\ \A k \in 2..3-1 : b[q][k] \in Uses
    <3>1. b[q][1] \in Takes /\ b[q][3] = Free("ptr")
      BY <1>1, <2>2, Bodies DEF Get
    <3>2. b[q][2] \in Uses
      BY <1>1, <2>2, PtrOps
    <3> HIDE DEF b
    <3>3. QED  BY <3>1, <3>2
  <2>4. 3 \in {2, 3, 4, 5} /\ 10 \in Nat /\ 10 # 0
    OBVIOUS
  <2> HIDE DEF b, s
  <2>5. QED  BY <2>1, <2>3, <2>4, LoopTidy
<1>4. last \in Seq(Ops) /\ Tidy(last) /\ loop \in Seq(Ops)
  <2>1. Get(32) \in Takes
    BY <1>1, Bodies DEF Get
  <2>2. /\ turn4[1] \in Uses /\ turn4[2] \in Uses /\ turn4[3] \in Uses /\ turn4[4] \in Uses
    BY <1>1, Bodies, PtrOps
  <2>3. loop = [i \in 1..128 |-> turn4[((i - 1) % 4) + 1]]
    BY DEF Repeat
  <2> HIDE DEF turn4, loop
  <2>4. ASSUME NEW i \in 1..128  PROVE loop[i] \in Uses /\ loop[i] \in Ops
    <3>1. ((i - 1) % 4) + 1 \in {1, 2, 3, 4}
      OBVIOUS
    <3>2. QED  BY <2>2, <2>3, <3>1 DEF Uses
  <2>5. loop \in Seq(Ops) /\ Len(loop) = 128
    BY <2>3, <2>4
  <2> HIDE DEF last
  <2>6. last = (<<Get(32)>> \o loop) \o <<Free("ptr")>>
    BY DEF last
  <2>7. \A i \in 1..Len(loop) : loop[i] \in Uses
    BY <2>4, <2>5
  <2>8. QED  BY <2>1, <2>5, <2>6, <2>7, AroundTidy
<1>5. test_realloc = (first \o s) \o last
  <2> DEFINE g == <<Get(32)>>
             f == <<Free("ptr")>>
             a == first \o s
  <2>1. test_realloc = ((a \o g) \o loop) \o f
    BY DEF test_realloc
  <2>2. g \in Seq(Ops) /\ f \in Seq(Ops) /\ loop \in Seq(Ops)
    <3>1. Get(32) \in Ops /\ Free("ptr") \in Ops
      BY <1>1, Bodies, FreePtr DEF Get, Takes
    <3>2. QED  BY <1>4, <3>1
  <2>3. a \in Seq(Ops)
    BY <1>2, <1>3, ConcatProperties
  <2> DEFINE gl == g \o loop
  <2>a. last = gl \o f
    OBVIOUS
  <2> HIDE DEF g, f, a, loop, first, s, last
  <2>4. gl \in Seq(Ops)
    BY <2>2, ConcatProperties
  <2>5. (a \o g) \o loop = a \o gl
    BY <2>2, <2>3, ConcatAssociative
  <2> HIDE DEF gl
  <2>6. (a \o gl) \o f = a \o (gl \o f)
    BY <2>2, <2>3, <2>4, ConcatAssociative
  <2>7. QED  BY <2>1, <2>a, <2>5, <2>6 DEF a
<1> HIDE DEF first, s, last
<1>6. first \o s \in Seq(Ops) /\ Tidy(first \o s)
  BY <1>2, <1>3, TidyConcat
<1>7. QED  BY <1>4, <1>5, <1>6, TidyConcat

\* heap_stress.c, the rounds.
Anchor == Malloc("anchors", 1, ANCHOR_SIZE, "first")
\* The operations that put something in blocks and touch nothing else.
Takers == {o \in Ops : \A A \in SUBSET Arrays :
                         After(o, A) = A \cup {"blocks"} /\ Legal(o, A)}

\* A block of a round is one, whatever its size turns out to be.
LEMMA BlockTakes ==
  ASSUME NEW r \in Nat, NEW k \in Nat
  PROVE  Block(r, k) \in Takers
<1>1. BlockSize(r * ALLOCS_PER_ROUND + k + 1) \in Positive
  <2> DEFINE x == rng[r * ALLOCS_PER_ROUND + k + 1]
  <2>1. Bit(x, 0) \in {0, 1} /\ Bit(x, 1) \in {0, 1}
    BY DEF Bit
  <2>2. 1 + Bit(x, 0) + 2 * Bit(x, 1) \in {1, 2, 3, 4}
    BY <2>1
  <2>3. \A q \in {1, 2, 3, 4} : BLOCK_SIZES[q] \in Positive
    BY DEF BLOCK_SIZES, KB, Positive
  <2>4. QED  BY <2>2, <2>3 DEF BlockSize
<1>2. 1 \in Positive /\ "first" \in Writes /\ "blocks" \in Arrays \ {"ptr"}
  BY DEF Positive, Writes, Arrays
<1> DEFINE b == Block(r, k)
<1>3. b \in {Malloc("blocks", 1, BlockSize(r * ALLOCS_PER_ROUND + k + 1), "first")}
  BY DEF Block
<1> HIDE DEF b
<1>4. ASSUME NEW A \in SUBSET Arrays
      PROVE  b \in Ops /\ After(b, A) = A \cup {"blocks"} /\ Legal(b, A)
  BY <1>1, <1>2, <1>3, MallocEffect
<1>5. b \in Takers
  BY <1>4 DEF Takers
<1>6. QED  BY <1>5 DEF b

\* An anchor goes to the anchors.
LEMMA AnchorTakes ==
  ASSUME NEW A \in SUBSET Arrays
  PROVE  Anchor \in Ops /\ After(Anchor, A) = A \cup {"anchors"} /\ Legal(Anchor, A)
<1>1. /\ 1 \in Positive /\ ANCHOR_SIZE \in Positive /\ "first" \in Writes
      /\ "anchors" \in Arrays \ {"ptr"}
  BY DEF Positive, ANCHOR_SIZE, Writes, Arrays
<1>2. Anchor \in {Malloc("anchors", 1, ANCHOR_SIZE, "first")}
  BY DEF Anchor
<1>3. QED  BY <1>1, <1>2, MallocEffect

\* free() of any array is an operation.
LEMMA Frees == \A a \in Arrays : Free(a) \in Ops
BY DEF Ops

\* One operation more.
LEMMA Appended ==
  ASSUME NEW n \in Nat, NEW s \in [1..n -> Ops], NEW o \in Ops, NEW u, u = s \o <<o>>
  PROVE  /\ u \in Seq(Ops) /\ Len(u) = n + 1 /\ u[n + 1] = o
         /\ \A i \in 1..n : u[i] = s[i]
<1>1. s \in Seq(Ops) /\ Len(s) = n
  OBVIOUS
<1>2. <<o>> \in Seq(Ops) /\ Len(<<o>>) = 1 /\ <<o>>[1] = o
  OBVIOUS
<1>3. /\ u \in Seq(Ops) /\ Len(u) = Len(s) + Len(<<o>>)
      /\ \A i \in 1..Len(s) : u[i] = s[i]
      /\ \A i \in 1..Len(<<o>>) : u[Len(s) + i] = <<o>>[i]
  BY <1>1, <1>2, Joined
<1>4. u[Len(s) + 1] = <<o>>[1]
  BY <1>2, <1>3
<1>5. QED  BY <1>1, <1>2, <1>3, <1>4

\* A round: blocks, an anchor in every third place, and the blocks are freed.
LEMMA RoundOps ==
  ASSUME NEW r \in Nat
  PROVE  /\ Len(AllocationRound(r)) = 13
         /\ \A p \in {1, 2, 4, 5, 7, 8, 10, 11} : AllocationRound(r)[p] \in Takers
         /\ \A p \in {3, 6, 9, 12} : AllocationRound(r)[p] = Anchor
         /\ AllocationRound(r)[13] = Free("blocks")
<1> DEFINE slots == [k \in 1..4 |-> 2 * (k - 1)]
           s == ForEach(slots, LAMBDA slot : <<Block(r, slot), Block(r, slot + 1),
                                               Malloc("anchors", 1, ANCHOR_SIZE, "first")>>)
<1>1. s = [i \in 1..12 |-> LET slot == slots[((i - 1) \div 3) + 1]
                           IN  <<Block(r, slot), Block(r, slot + 1), Anchor>>[((i - 1) % 3) + 1]]
  BY DEF ForEach, Anchor
<1>2. ASSUME NEW i \in 1..12
      PROVE  /\ i \in {3, 6, 9, 12} => s[i] = Anchor
             /\ i \notin {3, 6, 9, 12} => s[i] \in Takers
             /\ s[i] \in Ops
  <2> DEFINE slot == slots[((i - 1) \div 3) + 1]
  <2>1. slot \in Nat
    OBVIOUS
  <2>2. s[i] = <<Block(r, slot), Block(r, slot + 1), Anchor>>[((i - 1) % 3) + 1]
    BY <1>1
  <2> HIDE DEF slot, s
  <2>3. ((i - 1) % 3) + 1 = IF i \in {3, 6, 9, 12} THEN 3 ELSE IF i \in {1, 4, 7, 10} THEN 1 ELSE 2
    OBVIOUS
  <2>4. Block(r, slot) \in Takers /\ Block(r, slot + 1) \in Takers
    BY <2>1, BlockTakes
  <2>5. i \in {3, 6, 9, 12} => s[i] = Anchor
    BY <2>2, <2>3
  <2>6. i \notin {3, 6, 9, 12} => s[i] \in Takers
    BY <2>2, <2>3, <2>4
  <2>7. Anchor \in Ops /\ Takers \subseteq Ops
    BY AnchorTakes DEF Takers
  <2>8. QED  BY <2>5, <2>6, <2>7
<1>3. s \in [1..12 -> Ops]
  <2>1. s = [i \in 1..12 |-> s[i]]
    BY <1>1
  <2> HIDE DEF s
  <2>2. QED  BY <1>2, <2>1
<1>4. ALLOCS_PER_ROUND \div 2 = 4
  BY DEF ALLOCS_PER_ROUND
<1>5. AllocationRound(r) = s \o <<Free("blocks")>>
  BY <1>4 DEF AllocationRound
<1> HIDE DEF s
<1>6. Free("blocks") \in Ops
  BY Frees DEF Arrays
<1>7. /\ Len(AllocationRound(r)) = 12 + 1 /\ AllocationRound(r)[12 + 1] = Free("blocks")
      /\ \A i \in 1..12 : AllocationRound(r)[i] = s[i]
  <2> DEFINE n == 12
             o == Free("blocks")
             u == AllocationRound(r)
  <2>1. n \in Nat /\ s \in [1..n -> Ops] /\ o \in Ops /\ u = s \o <<o>>
    BY <1>3, <1>5, <1>6
  <2> HIDE DEF n, o, u
  <2>2. /\ u \in Seq(Ops) /\ Len(u) = n + 1 /\ u[n + 1] = o
        /\ \A i \in 1..n : u[i] = s[i]
    BY <2>1, Appended
  <2>3. QED  BY <2>2 DEF n, o, u
<1> DEFINE u == AllocationRound(r)
<1> HIDE DEF u
<1>8. \A p \in {1, 2, 4, 5, 7, 8, 10, 11} : p \in 1..12 /\ p \notin {3, 6, 9, 12}
  OBVIOUS
<1>9. \A p \in {3, 6, 9, 12} : p \in 1..12
  OBVIOUS
<1>10. \A p \in {1, 2, 4, 5, 7, 8, 10, 11} : AllocationRound(r)[p] \in Takers
  BY <1>2, <1>7, <1>8
<1>11. \A p \in {3, 6, 9, 12} : AllocationRound(r)[p] = Anchor
  BY <1>2, <1>7, <1>9
<1>12. QED  BY <1>7, <1>10, <1>11

\* The places of the 32 rounds.
LEMMA RoundPlaces ==
  ASSUME NEW i \in 1..416
  PROVE  /\ Place(i, 13) \in 1..13 /\ Turn(i, 13) \in 1..32
         /\ Place(i + 1, 13) = IF Place(i, 13) = 13 THEN 1 ELSE Place(i, 13) + 1
         /\ Place(i, 13) <= i /\ (i <= 3 => Place(i, 13) = i)
         /\ Place(1, 13) = 1 /\ Place(417, 13) = 1
BY DEF Place, Turn

\* test_heap_reclaim() frees the blocks of each round and the anchors of all (heap_stress.c).
LEMMA ReclaimTidy == test_heap_reclaim \in Seq(Ops) /\ Tidy(test_heap_reclaim)
<1> DEFINE rounds == [k \in 1..32 |-> k - 1]
           s == [i \in 1..416 |-> AllocationRound(rounds[Turn(i, 13)])[Place(i, 13)]]
           a == {"anchors"}
           b == {"blocks"}
           H == [i \in 1..418 |->
                  IF i = 418 THEN {}
                  ELSE (IF i > 3 THEN a ELSE {}) \cup (IF Place(i, 13) > 1 THEN b ELSE {})]
<1>1. AllRounds = s
  <2>1. Len(AllocationRound(rounds[1])) = 13
    BY RoundOps
  <2>2. AllRounds = ForEach(rounds, AllocationRound)
    BY DEF AllRounds, RECLAIM_ROUNDS
  <2>3. Len(rounds) = 32
    OBVIOUS
  <2> HIDE DEF rounds
  <2>4. QED  BY <2>1, <2>2, <2>3 DEF ForEach, Turn, Place
<1>2. ASSUME NEW i \in 1..416
      PROVE  /\ Place(i, 13) = 13 => s[i] = Free("blocks")
             /\ Place(i, 13) \in {3, 6, 9, 12} => s[i] = Anchor
             /\ Place(i, 13) \notin {3, 6, 9, 12, 13} => s[i] \in Takers
             /\ s[i] \in Ops
  <2>1. Place(i, 13) \in 1..13 /\ Turn(i, 13) \in 1..32
    BY RoundPlaces
  <2>a. rounds[Turn(i, 13)] \in Nat
    BY <2>1
  <2>2. PICK r \in Nat : s[i] = AllocationRound(r)[Place(i, 13)]
    BY <2>a
  <2> HIDE DEF s
  <2>3. /\ Place(i, 13) = 13 => s[i] = Free("blocks")
        /\ Place(i, 13) \in {3, 6, 9, 12} => s[i] = Anchor
        /\ Place(i, 13) \notin {3, 6, 9, 12, 13} => s[i] \in Takers
    BY <2>1, <2>2, RoundOps
  <2>4. Anchor \in Ops /\ Takers \subseteq Ops /\ Free("blocks") \in Ops
    BY AnchorTakes, Effects DEF Takers, Arrays
  <2>5. QED  BY <2>3, <2>4
<1>3. s \in [1..416 -> Ops]
  <2>1. s = [i \in 1..416 |-> s[i]]
    OBVIOUS
  <2> HIDE DEF s, rounds, a, b, H
  <2>2. QED  BY <1>2, <2>1
<1>4. Free("anchors") \in Ops
  BY Frees DEF Arrays
<1>5. test_heap_reclaim = s \o <<Free("anchors")>>
  BY <1>1 DEF test_heap_reclaim
<1> DEFINE u == test_heap_reclaim
<1> HIDE DEF s, rounds, u, H, a, b
<1>6. /\ u \in Seq(Ops) /\ Len(u) = 416 + 1 /\ u[416 + 1] = Free("anchors")
      /\ \A i \in 1..416 : u[i] = s[i]
  <2> DEFINE n == 416
             o == Free("anchors")
  <2>1. n \in Nat /\ s \in [1..n -> Ops] /\ o \in Ops
    BY <1>3, <1>4
  <2>2. u = s \o <<o>>
    BY <1>5 DEF u
  <2> HIDE DEF n, o
  <2>3. /\ u \in Seq(Ops) /\ Len(u) = n + 1 /\ u[n + 1] = o
        /\ \A i \in 1..n : u[i] = s[i]
    BY <2>1, <2>2, Appended
  <2>4. QED  BY <2>3 DEF n, o
<1> USE DEF H, a, b
<1>7. /\ H[1] = {} /\ H[417 + 1] = {} /\ H[417] = a
      /\ \A i \in 1..417 : H[i] = (IF i > 3 THEN a ELSE {})
                                    \cup (IF Place(i, 13) > 1 THEN b ELSE {})
  <2>1. \A i \in 1..417 : H[i] = (IF i > 3 THEN a ELSE {})
                                    \cup (IF Place(i, 13) > 1 THEN b ELSE {})
    OBVIOUS
  <2>2. Place(1, 13) = 1 /\ Place(417, 13) = 1
    BY DEF Place
  <2>3. H[417 + 1] = {}
    OBVIOUS
  <2> HIDE DEF H
  <2>4. H[1] = {} /\ H[417] = a
    <3>1. 1 \in 1..417 /\ 417 \in 1..417 /\ ~(1 > 3) /\ 417 > 3 /\ ~(1 > 1)
      OBVIOUS
    <3> HIDE DEF a, b
    <3>2. H[1] = (IF 1 > 3 THEN a ELSE {}) \cup (IF Place(1, 13) > 1 THEN b ELSE {})
      BY <2>1, <3>1
    <3>3. H[417] = (IF 417 > 3 THEN a ELSE {}) \cup (IF Place(417, 13) > 1 THEN b ELSE {})
      BY <2>1, <3>1
    <3>4. H[1] = {} \cup {} /\ H[417] = a \cup {}
      BY <2>2, <3>2, <3>3
    <3>5. QED  BY <3>4, Zenon
  <2>5. QED  BY <2>1, <2>3, <2>4
<1>8. \A i \in 1..417 : H[i] \in SUBSET Arrays
  BY <1>7 DEF Arrays
<1> HIDE DEF H
<1>9. ASSUME NEW i \in 1..417  PROVE H[i + 1] = After(u[i], H[i]) /\ Legal(u[i], H[i])
  <2>1. CASE i = 417
    <3>1. H[417] = a /\ a \in SUBSET Arrays
      BY <1>7 DEF Arrays
    <3>2. After(Free("anchors"), a) = a \ {"anchors"} /\ Legal(Free("anchors"), a)
      BY <3>1, Effects DEF Arrays
    <3>3. a \ {"anchors"} = {}
      OBVIOUS
    <3> HIDE DEF a, b
    <3>4. u[417] = Free("anchors") /\ H[417 + 1] = {}
      BY <1>6, <1>7
    <3>5. H[417 + 1] = After(u[417], H[417]) /\ Legal(u[417], H[417])
      BY <3>1, <3>2, <3>3, <3>4, Zenon DEF a
    <3>6. QED  BY <2>1, <3>5
  <2>2. CASE i # 417
    <3>a. i \in 1..416 /\ i + 1 \in 1..417
      BY <2>2
    <3>1. i \in 1..416 /\ i + 1 \in 1..417 /\ u[i] = s[i]
      BY <1>6, <3>a
    <3>2. /\ H[i] = (IF i > 3 THEN a ELSE {}) \cup (IF Place(i, 13) > 1 THEN b ELSE {})
          /\ H[i + 1] = (IF i > 2 THEN a ELSE {}) \cup (IF Place(i, 13) # 13 THEN b ELSE {})
          /\ H[i] \in SUBSET Arrays
          /\ Place(i, 13) \in 1..13
      <4>1. H[i + 1] = (IF i + 1 > 3 THEN a ELSE {}) \cup (IF Place(i + 1, 13) > 1 THEN b ELSE {})
        BY <1>7, <3>1
      <4>2. i + 1 > 3 <=> i > 2
        BY <3>1
      <4>3. Place(i + 1, 13) > 1 <=> Place(i, 13) # 13
        BY <3>1, RoundPlaces
      <4>4. QED  BY <1>7, <1>8, <3>1, <4>1, <4>2, <4>3, RoundPlaces
    <3>3. CASE Place(i, 13) = 13
      <4>1. i > 3
        BY <3>1, <3>3, RoundPlaces
      <4>2. H[i + 1] = H[i] \ {"blocks"}
        BY <3>2, <3>3, <4>1
      <4>3. u[i] = Free("blocks")
        BY <1>2, <3>1, <3>3
      <4>4. QED  BY <3>2, <4>2, <4>3, Effects DEF Arrays
    <3>4. CASE Place(i, 13) \in {3, 6, 9, 12}
      <4>1. i > 2
        BY <3>1, <3>4, RoundPlaces
      <4>2. H[i + 1] = H[i] \cup {"anchors"}
        BY <3>2, <3>4, <4>1
      <4>3. u[i] = Anchor
        BY <1>2, <3>1, <3>4
      <4>4. QED  BY <3>2, <4>2, <4>3, AnchorTakes
    <3>5. CASE Place(i, 13) \notin {3, 6, 9, 12, 13}
      <4>1. i > 3 <=> i > 2
        BY <3>1, <3>5, RoundPlaces
      <4>2. H[i + 1] = H[i] \cup {"blocks"}
        BY <3>2, <3>5, <4>1
      <4>3. u[i] \in Takers
        BY <1>2, <3>1, <3>5
      <4>4. QED  BY <3>2, <4>2, <4>3 DEF Takers
    <3>6. QED  BY <3>3, <3>4, <3>5
  <2>3. QED  BY <2>1, <2>2
<1>10. Len(u) = 417 /\ 417 \in Nat
  BY <1>6
<1>11. Tidy(u)
  <2>1. \A i \in 1..417 : H[i + 1] = After(u[i], H[i]) /\ Legal(u[i], H[i])
    BY <1>9
  <2>2. u \in Seq(Ops) /\ H[1] = {} /\ H[417 + 1] = {}
    BY <1>6, <1>7
  <2> DEFINE n == 417
  <2>a. n \in Nat /\ n # 0
    OBVIOUS
  <2>3. /\ n \in Nat /\ Len(u) = n /\ H[n + 1] = {}
        /\ \A i \in 1..n : H[i + 1] = After(u[i], H[i]) /\ Legal(u[i], H[i])
    BY <1>10, <2>1, <2>2
  <2> HIDE DEF n
  <2>4. QED  BY <2>a, <2>2, <2>3, TidyBy
<1>12. QED  BY <1>6, <1>11 DEF u

\* Every test gives back what it takes.
LEMMA SuiteTidy ==
  /\ Len(Suite) = 8
  /\ \A t \in 1..8 : Suite[t] \in Seq(Ops) /\ Tidy(Suite[t])
BY MmapTidy, MallocFree, AlignedTidy, UsableTidy, ReclaimTidy, MaxCapacityTidy, ShrinkTidy,
   ReallocTidy DEF Suite
-----------------------------------------------------------------------------
(***************************************************************************)
(* Dividing the heap into free and taken intervals.                        *)
(***************************************************************************)
\* Intervals of the heap.
Spans == [lo : Nat, hi : Nat]
Apart(i, j) == i.hi <= j.lo \/ j.hi <= i.lo
Within(x, i) == i.lo <= x /\ x < i.hi

\* The free intervals F and the taken ones T make up the heap of n bytes.
Divided(n, F, T) ==
  /\ F \subseteq Spans /\ T \subseteq Spans
  /\ \A g \in F \cup T : g.lo < g.hi /\ g.hi <= n
  /\ \A g, h \in F : g # h => g.hi < h.lo \/ h.hi < g.lo
  /\ \A g \in F, t \in T : Apart(g, t)
  /\ \A t, u \in T : t # u => Apart(t, u)
  /\ \A x \in Nat : x < n => \E g \in F \cup T : Within(x, g)

\* A heap of which nothing is taken is one free interval.
LEMMA NothingTaken ==
  ASSUME NEW n \in Nat \ {0}, NEW F, Divided(n, F, {})
  PROVE  F = {[lo |-> 0, hi |-> n]}
<1>1. PICK g \in F : Within(0, g)
  BY DEF Divided
<1>2. g \in Spans /\ g.lo = 0 /\ g.hi <= n /\ g.hi \in Nat
  BY <1>1 DEF Divided, Spans, Within
<1>3. g.hi = n
  <2>1. SUFFICES ASSUME g.hi < n  PROVE FALSE
    BY <1>2
  <2>2. PICK h \in F : Within(g.hi, h)
    BY <1>2, <2>1 DEF Divided
  <2>3. h \in Spans /\ h # g
    BY <1>2, <2>2 DEF Divided, Spans, Within
  <2>4. QED  BY <1>2, <2>2, <2>3 DEF Divided, Spans, Within
<1>4. \A h \in F : h = g
  BY <1>2, <1>3 DEF Divided, Spans
<1>5. g = [lo |-> 0, hi |-> n]
  BY <1>2, <1>3 DEF Spans
<1>6. QED  BY <1>4, <1>5

\* And the other way round.
LEMMA NothingYet ==
  ASSUME NEW n \in Nat \ {0}
  PROVE  Divided(n, {[lo |-> 0, hi |-> n]}, {})
BY DEF Divided, Spans, Within

\* A block from the start of a free interval is apart from all others, and leaves a divided heap.
LEMMA Taking ==
  ASSUME NEW n \in Nat, NEW F, NEW T, Divided(n, F, T),
         NEW h \in F, NEW c \in Spans, c.lo = h.lo, c.lo < c.hi, c.hi <= h.hi,
         NEW R, R = IF c.hi < h.hi THEN {[lo |-> c.hi, hi |-> h.hi]} ELSE {}
  PROVE  /\ \A t \in T : Apart(c, t) /\ c # t
         /\ Divided(n, (F \ {h}) \cup R, T \cup {c})
<1>1. h \in Spans /\ h.lo < h.hi /\ h.hi <= n
  BY DEF Divided
<1>2. ASSUME NEW t \in T  PROVE Apart(c, t) /\ c # t
  <2>1. t \in Spans /\ t.lo < t.hi /\ Apart(h, t)
    BY DEF Divided
  <2>2. QED  BY <1>1, <2>1 DEF Apart, Spans
<1> DEFINE G == (F \ {h}) \cup R
           U == T \cup {c}
<1>3. ASSUME NEW r \in R
      PROVE  r \in Spans /\ r.lo = c.hi /\ r.hi = h.hi /\ r.lo < r.hi /\ r.hi <= n
  BY <1>1 DEF Spans
<1>4. G \subseteq Spans /\ U \subseteq Spans
  BY <1>3 DEF Divided
<1>5. \A g \in G \cup U : g.lo < g.hi /\ g.hi <= n
  <2>1. c.hi <= n
    BY <1>1 DEF Spans
  <2>2. QED  BY <1>3, <2>1 DEF Divided
<1>6. ASSUME NEW g \in G, NEW f \in G, g # f  PROVE g.hi < f.lo \/ f.hi < g.lo
  <2>1. CASE g \in F \ {h} /\ f \in F \ {h}
    BY <1>6, <2>1 DEF Divided
  <2>2. CASE g \in R /\ f \in F \ {h}
    <3>1. h.hi < f.lo \/ f.hi < h.lo
      BY <2>2 DEF Divided
    <3>2. QED  BY <1>1, <1>3, <1>4, <2>2, <3>1 DEF Spans
  <2>3. CASE g \in F \ {h} /\ f \in R
    <3>1. h.hi < g.lo \/ g.hi < h.lo
      BY <2>3 DEF Divided
    <3>2. QED  BY <1>1, <1>3, <1>4, <2>3, <3>1 DEF Spans
  <2>4. QED  BY <1>6, <2>1, <2>2, <2>3
<1>7. ASSUME NEW g \in G, NEW t \in U  PROVE Apart(g, t)
  <2>1. CASE g \in F \ {h} /\ t \in T
    BY <2>1 DEF Divided
  <2>2. CASE g \in F \ {h} /\ t = c
    <3>1. h.hi < g.lo \/ g.hi < h.lo
      BY <2>2 DEF Divided
    <3>2. QED  BY <1>1, <1>4, <2>2, <3>1 DEF Spans, Apart
  <2>3. CASE g \in R /\ t \in T
    <3>1. Apart(h, t) /\ t \in Spans
      BY <2>3 DEF Divided
    <3>2. QED  BY <1>1, <1>3, <2>3, <3>1 DEF Spans, Apart
  <2>4. CASE g \in R /\ t = c
    BY <1>3, <2>4 DEF Spans, Apart
  <2>5. QED  BY <2>1, <2>2, <2>3, <2>4
<1>8. ASSUME NEW t \in U, NEW u \in U, t # u  PROVE Apart(t, u)
  <2>1. CASE t \in T /\ u \in T
    BY <1>8, <2>1 DEF Divided
  <2>2. CASE t = c /\ u \in T
    BY <1>2, <2>2
  <2>3. CASE t \in T /\ u = c
    BY <1>2, <2>3 DEF Apart
  <2>4. QED  BY <1>8, <2>1, <2>2, <2>3
<1>9. ASSUME NEW x \in Nat, x < n  PROVE \E g \in G \cup U : Within(x, g)
  <2>1. PICK g \in F \cup T : Within(x, g)
    BY <1>9 DEF Divided
  <2>2. CASE g # h
    BY <2>1, <2>2
  <2>3. CASE g = h /\ x < c.hi
    BY <2>1, <2>3 DEF Within
  <2>4. CASE g = h /\ ~(x < c.hi)
    <3>1. c.hi <= x /\ x < h.hi /\ c.hi < h.hi
      BY <1>1, <2>1, <2>4 DEF Within, Spans
    <3>2. [lo |-> c.hi, hi |-> h.hi] \in R
      BY <3>1
    <3>3. Within(x, [lo |-> c.hi, hi |-> h.hi])
      BY <3>1 DEF Within
    <3>4. QED  BY <3>2, <3>3
  <2>5. QED  BY <2>2, <2>3, <2>4
<1>10. Divided(n, G, U)
  BY <1>4, <1>5, <1>6, <1>7, <1>8, <1>9 DEF Divided
<1>11. QED  BY <1>2, <1>10

\* Where the first of some intervals starts and the last one ends.
LEMMA Extremes ==
  ASSUME NEW n \in Nat, NEW near \in SUBSET Spans, near # {},
         \A g \in near : g.hi <= n
  PROVE  /\ \E g \in near : Min({k.lo : k \in near}) = g.lo
         /\ \A g \in near : Min({k.lo : k \in near}) <= g.lo
         /\ \E g \in near : Max({k.hi : k \in near}) = g.hi
         /\ \A g \in near : g.hi <= Max({k.hi : k \in near})
<1> DEFINE L == {k.lo : k \in near}
           U == {k.hi : k \in near}
           V == {n - k.hi : k \in near}
<1>1. L \in SUBSET Nat /\ L # {} /\ U \in SUBSET Nat /\ V \in SUBSET Nat /\ V # {}
  BY DEF Spans
<1>2. \E x \in L : \A y \in L : x <= y
  BY <1>1, Least
<1>3. \E x \in U : \A y \in U : x >= y
  <2>1. PICK v \in V : \A y \in V : v <= y
    BY <1>1, Least
  <2>2. PICK k \in near : v = n - k.hi
    BY <2>1
  <2>3. k.hi \in U
    OBVIOUS
  <2>4. ASSUME NEW y \in U  PROVE k.hi >= y
    <3>1. PICK j \in near : y = j.hi
      OBVIOUS
    <3>2. n - j.hi \in V /\ j.hi \in Nat /\ k.hi \in Nat
      BY DEF Spans
    <3>3. n - k.hi <= n - j.hi
      BY <2>1, <2>2, <3>2
    <3>4. QED  BY <3>1, <3>2, <3>3
  <2>5. QED  BY <2>3, <2>4
<1>4. Min(L) \in L /\ \A y \in L : Min(L) <= y
  BY <1>2 DEF Min
<1>5. Max(U) \in U /\ \A y \in U : Max(U) >= y
  BY <1>3 DEF Max
<1>6. \A g \in near : g.lo \in L /\ g.hi \in U /\ g.lo \in Nat /\ g.hi \in Nat
  BY DEF Spans
<1>7. /\ \E g \in near : Min(L) = g.lo
      /\ \E g \in near : Max(U) = g.hi
  BY <1>4, <1>5
<1>8. /\ \A g \in near : Min(L) <= g.lo
      /\ \A g \in near : g.hi <= Max(U)
  BY <1>1, <1>4, <1>5, <1>6
<1>9. QED  BY <1>7, <1>8

\* So does giving one back, which becomes one interval with its free neighbours.
LEMMA Giving ==
  ASSUME NEW n \in Nat, NEW F, NEW T, Divided(n, F, T), NEW c \in T
  PROVE  Divided(n, Merged(F, c), T \ {c})
<1> DEFINE near == {g \in F : g.lo <= c.hi /\ c.lo <= g.hi} \cup {c}
           lo == Min({k.lo : k \in near})
           hi == Max({k.hi : k \in near})
           m == [lo |-> lo, hi |-> hi]
           G == (F \ near) \cup {m}
           U == T \ {c}
<1>1. near \in SUBSET Spans /\ near # {} /\ \A g \in near : g.lo < g.hi /\ g.hi <= n
  BY DEF Divided
<1>2. /\ \E g \in near : lo = g.lo
      /\ \A g \in near : lo <= g.lo
      /\ \E g \in near : hi = g.hi
      /\ \A g \in near : g.hi <= hi
  BY <1>1, Extremes
<1>3. Merged(F, c) = G
  BY DEF Merged
<1>4. c \in near /\ c \in Spans /\ c.lo < c.hi
  BY <1>1
<1>a. \A g \in near : g = c \/ (g \in F /\ g.lo <= c.hi /\ c.lo <= g.hi)
  OBVIOUS
<1>b. \A g \in F \ near : g \in F /\ (g.lo > c.hi \/ c.lo > g.hi)
  BY <1>4 DEF Divided, Spans
<1> HIDE DEF near, lo, hi
<1>5. PICK g1 \in near : lo = g1.lo
  BY <1>2
<1>6. PICK g2 \in near : hi = g2.hi
  BY <1>2
<1>7. g1 \in Spans /\ g2 \in Spans /\ lo \in Nat /\ hi \in Nat /\ lo <= c.lo /\ c.hi <= hi
      /\ lo < hi /\ hi <= n
  BY <1>1, <1>2, <1>4, <1>5, <1>6 DEF Spans
<1>8. m \in Spans /\ m.lo = lo /\ m.hi = hi
  BY <1>7 DEF Spans
<1>9. G \subseteq Spans /\ U \subseteq Spans
  BY <1>8 DEF Divided
<1>10. \A g \in G \cup U : g.lo < g.hi /\ g.hi <= n
  BY <1>7, <1>8 DEF Divided
<1> HIDE DEF m
<1>11. ASSUME NEW f \in F \ near  PROVE f.hi < m.lo \/ m.hi < f.lo
  <2>1. f \in Spans /\ f.lo < f.hi
    BY DEF Divided
  <2>2. f # g1 /\ f # g2
    OBVIOUS
  <2>3. CASE f.lo > c.hi
    <3>1. g2 = c \/ g2.hi < f.lo \/ f.hi < g2.lo
      BY <1>a, <2>2 DEF Divided
    <3>2. QED  BY <1>a, <1>4, <1>6, <1>7, <1>8, <2>1, <2>3, <3>1 DEF Spans
  <2>4. CASE c.lo > f.hi
    <3>1. g1 = c \/ g1.hi < f.lo \/ f.hi < g1.lo
      BY <1>a, <2>2 DEF Divided
    <3>2. QED  BY <1>a, <1>4, <1>5, <1>7, <1>8, <2>1, <2>4, <3>1 DEF Spans
  <2>5. QED  BY <1>b, <2>3, <2>4
<1>12. ASSUME NEW g \in G, NEW f \in G, g # f  PROVE g.hi < f.lo \/ f.hi < g.lo
  <2>1. CASE g \in F \ near /\ f \in F \ near
    BY <1>12, <2>1 DEF Divided
  <2>2. CASE g = m \/ f = m
    BY <1>11, <1>12, <2>2
  <2>3. QED  BY <2>1, <2>2
<1>13. ASSUME NEW t \in U  PROVE Apart(m, t)
  <2>1. t \in Spans /\ t.lo < t.hi /\ Apart(c, t)
    BY DEF Divided
  <2>2. g1 \in F => Apart(g1, t)
    BY DEF Divided
  <2>3. g2 \in F => Apart(g2, t)
    BY DEF Divided
  <2>4. CASE t.hi <= c.lo
    <3>1. t.hi <= g1.lo
      BY <1>a, <1>4, <1>7, <2>1, <2>2, <2>4 DEF Spans, Apart
    <3>2. QED  BY <1>5, <1>8, <3>1 DEF Apart
  <2>5. CASE c.hi <= t.lo
    <3>1. g2.hi <= t.lo
      BY <1>a, <1>4, <1>7, <2>1, <2>3, <2>5 DEF Spans, Apart
    <3>2. QED  BY <1>6, <1>8, <3>1 DEF Apart
  <2>6. QED  BY <2>1, <2>4, <2>5 DEF Apart
<1>14. ASSUME NEW g \in G, NEW t \in U  PROVE Apart(g, t)
  BY <1>13 DEF Divided
<1>15. \A t, u \in U : t # u => Apart(t, u)
  BY DEF Divided
<1>16. ASSUME NEW x \in Nat, x < n  PROVE \E g \in G \cup U : Within(x, g)
  <2>1. PICK g \in F \cup T : Within(x, g)
    BY <1>16 DEF Divided
  <2>2. CASE g \notin near
    BY <2>1, <2>2, <1>4
  <2>3. CASE g \in near
    <3>1. g \in Spans /\ lo <= g.lo /\ g.hi <= hi
      BY <1>1, <1>2, <2>3
    <3>2. Within(x, m)
      BY <1>7, <1>8, <2>1, <3>1 DEF Within, Spans
    <3>3. QED  BY <3>2
  <2>4. QED  BY <2>2, <2>3
<1>17. Divided(n, G, U)
  BY <1>9, <1>10, <1>12, <1>14, <1>15, <1>16 DEF Divided
<1>18. QED  BY <1>3, <1>17

\* Rounding up gives no less.
LEMMA RoundedUp ==
  ASSUME NEW n \in Nat, NEW m \in Positive
  PROVE  RoundUp(n, m) \in Nat /\ n <= RoundUp(n, m)
BY DEF RoundUp, Positive
-----------------------------------------------------------------------------
(***************************************************************************)
(* The blocks a test holds, wherever it holds them.                        *)
(***************************************************************************)
\* The blocks that nobody else was given any of, and what the test holds of them.
Blocks == [lo : Nat, at : Nat, hi : Nat, size : Nat, usable : Nat, first : Nat, sound : {TRUE}]
SpanOf(b) == [lo |-> b.lo, hi |-> b.hi]
Holdings == [Arrays -> Seq(Blocks)]
Taken(h) == {x \in Spans : \E a \in Arrays : \E k \in 1..Len(h[a]) : x = SpanOf(h[a][k])}
\* No two of the pointers are to one block.
Once(h) ==
  \A a, c \in Arrays : \A k \in 1..Len(h[a]), l \in 1..Len(h[c]) :
    SpanOf(h[a][k]) = SpanOf(h[c][l]) => a = c /\ k = l

\* The blocks in an array.
LEMMA HeldBlocks ==
  ASSUME NEW h \in Holdings, NEW a \in Arrays
  PROVE  /\ h[a] \in Seq(Blocks) /\ Len(h[a]) \in Nat /\ DOMAIN h[a] = 1..Len(h[a])
         /\ \A k \in 1..Len(h[a]) : /\ h[a][k] \in Blocks /\ SpanOf(h[a][k]) \in Spans
                                    /\ SpanOf(h[a][k]) \in Taken(h)
<1>1. h[a] \in Seq(Blocks) /\ Len(h[a]) \in Nat /\ DOMAIN h[a] = 1..Len(h[a])
  BY DEF Holdings
<1>2. ASSUME NEW k \in 1..Len(h[a])
      PROVE  h[a][k] \in Blocks /\ SpanOf(h[a][k]) \in Spans
  <2>1. h[a][k] \in Blocks
    BY <1>1
  <2>2. QED  BY <2>1 DEF Blocks, SpanOf, Spans
<1>3. QED  BY <1>1, <1>2 DEF Taken

\* Changing a field that says nothing of the place of the block.
LEMMA Alike ==
  ASSUME NEW h \in Holdings, NEW g \in Holdings,
         \A a \in Arrays : /\ Len(g[a]) = Len(h[a])
                           /\ \A k \in 1..Len(h[a]) : SpanOf(g[a][k]) = SpanOf(h[a][k])
  PROVE  Taken(g) = Taken(h) /\ (Once(h) => Once(g))
BY DEF Taken, Once

\* Writing to blocks moves none.
LEMMA Written ==
  ASSUME NEW h \in Holdings, NEW b, NEW n, NEW first \in Nat,
         Once(h)
  PROVE  /\ Write(b, n, first, h) \in Holdings /\ Once(Write(b, n, first, h))
         /\ Taken(Write(b, n, first, h)) = Taken(h)
         /\ \A a \in Arrays : Len(Write(b, n, first, h)[a]) = Len(h[a])
<1> DEFINE g == Write(b, n, first, h)
<1> DEFINE W(c) == IF c.at < b.at \/ c.at >= b.at + n THEN c
                   ELSE [c EXCEPT !.first = IF c.at = b.at THEN first ELSE 0]
<1>1. g = [a \in Arrays |-> [k \in DOMAIN h[a] |-> W(h[a][k])]]
  BY DEF Write, Each
<1> HIDE DEF g
<1>2. \A c \in Blocks : W(c) \in Blocks /\ SpanOf(W(c)) = SpanOf(c)
  <2>1. TAKE c \in Blocks
  <2>2. CASE c.at < b.at \/ c.at >= b.at + n
    BY <2>2
  <2>3. CASE ~(c.at < b.at \/ c.at >= b.at + n)
    <3>1. PICK f \in Nat : W(c) = [c EXCEPT !.first = f]
      BY <2>3
    <3> HIDE DEF W
    <3>2. QED  BY <3>1 DEF Blocks, SpanOf
  <2>4. QED  BY <2>2, <2>3
<1> HIDE DEF W
<1>3. ASSUME NEW a \in Arrays
      PROVE  /\ g[a] \in Seq(Blocks) /\ Len(g[a]) = Len(h[a])
             /\ \A k \in 1..Len(h[a]) : SpanOf(g[a][k]) = SpanOf(h[a][k])
  <2>1. g[a] = [k \in 1..Len(h[a]) |-> W(h[a][k])]
    BY <1>1, HeldBlocks
  <2>2. \A k \in 1..Len(h[a]) : h[a][k] \in Blocks
    BY HeldBlocks
  <2>3. Len(h[a]) \in Nat
    BY HeldBlocks
  <2>4. QED  BY <1>2, <2>1, <2>2, <2>3
<1>4. g \in Holdings
  BY <1>1, <1>3 DEF Holdings
<1>5. Taken(g) = Taken(h) /\ Once(g)
  BY <1>3, <1>4, Alike
<1>6. QED  BY <1>3, <1>4, <1>5 DEF g

\* A block apart from the others spoils none.
LEMMA Unspoilt ==
  ASSUME NEW h \in Holdings, NEW b,
         \A a \in Arrays : \A k \in 1..Len(h[a]) : ~Overlap(b, h[a][k])
  PROVE  Spoil(b, h) = h
<1>1. ASSUME NEW a \in Arrays  PROVE Spoil(b, h)[a] = h[a]
  <2>1. h[a] = [k \in 1..Len(h[a]) |-> h[a][k]]
    BY HeldBlocks
  <2>2. Spoil(b, h)[a] = [k \in 1..Len(h[a]) |-> h[a][k]]
    BY HeldBlocks DEF Spoil, Each
  <2>3. QED  BY <2>1, <2>2
<1>2. Spoil(b, h) = [a \in Arrays |-> Spoil(b, h)[a]]
  BY DEF Spoil, Each
<1>3. h = [a \in Arrays |-> h[a]]
  BY DEF Holdings
<1>4. QED  BY <1>1, <1>2, <1>3

\* The pointer is put at the end of the array, or the first one is taken out.
With(h, a, b) == [h EXCEPT ![a] = Append(@, b)]
Without(h, a) == [h EXCEPT ![a] = Tail(@)]

\* A block more is held.
LEMMA Put ==
  ASSUME NEW h \in Holdings, Once(h), NEW a \in Arrays, NEW b \in Blocks,
         SpanOf(b) \notin Taken(h)
  PROVE  /\ With(h, a, b) \in Holdings /\ Once(With(h, a, b))
         /\ Taken(With(h, a, b)) = Taken(h) \cup {SpanOf(b)}
         /\ Len(With(h, a, b)[a]) = Len(h[a]) + 1
         /\ \A c \in Arrays \ {a} : With(h, a, b)[c] = h[c]
<1> DEFINE g == With(h, a, b)
<1>1. /\ g[a] = Append(h[a], b) /\ \A c \in Arrays \ {a} : g[c] = h[c]
      /\ g = [c \in Arrays |-> g[c]]
  BY DEF Holdings, With
<1> HIDE DEF g
<1>2. h[a] \in Seq(Blocks) /\ Len(h[a]) \in Nat
  BY HeldBlocks
<1>3. /\ g[a] \in Seq(Blocks) /\ Len(g[a]) = Len(h[a]) + 1 /\ g[a][Len(h[a]) + 1] = b
      /\ \A k \in 1..Len(h[a]) : g[a][k] = h[a][k]
  BY <1>1, <1>2, AppendProperties
<1>4. g \in Holdings
  BY <1>1, <1>3 DEF Holdings
<1>5. ASSUME NEW c \in Arrays, NEW k \in 1..Len(g[c])
      PROVE  \/ c = a /\ k = Len(h[a]) + 1 /\ g[c][k] = b
             \/ k \in 1..Len(h[c]) /\ g[c][k] = h[c][k]
  BY <1>1, <1>2, <1>3
<1>6. ASSUME NEW c \in Arrays, NEW k \in 1..Len(h[c])
      PROVE  k \in 1..Len(g[c]) /\ g[c][k] = h[c][k]
  BY <1>1, <1>2, <1>3
<1>7. Len(h[a]) + 1 \in 1..Len(g[a])
  BY <1>2, <1>3
<1>8. SpanOf(b) \in Spans
  BY DEF SpanOf, Spans, Blocks
<1>9. Taken(g) = Taken(h) \cup {SpanOf(b)}
  BY <1>3, <1>5, <1>6, <1>7, <1>8 DEF Taken
<1>10. ASSUME NEW c \in Arrays, NEW d \in Arrays, NEW k \in 1..Len(g[c]), NEW l \in 1..Len(g[d]),
              SpanOf(g[c][k]) = SpanOf(g[d][l])
       PROVE  c = d /\ k = l
  <2>1. \A e \in Arrays : \A j \in 1..Len(h[e]) : SpanOf(h[e][j]) # SpanOf(b)
    BY HeldBlocks
  <2>2. QED  BY <1>5, <1>10, <2>1 DEF Once
<1>11. Once(g)
  BY <1>10 DEF Once
<1>12. QED  BY <1>1, <1>3, <1>4, <1>9, <1>11 DEF g

\* A block less is held.
LEMMA Drop ==
  ASSUME NEW h \in Holdings, Once(h), NEW a \in Arrays, h[a] # <<>>
  PROVE  /\ Head(h[a]) \in Blocks /\ SpanOf(Head(h[a])) \in Taken(h)
         /\ Head(h[a]) = h[a][1] /\ Len(h[a]) \in Nat \ {0}
         /\ Without(h, a) \in Holdings /\ Once(Without(h, a))
         /\ Taken(Without(h, a)) = Taken(h) \ {SpanOf(Head(h[a]))}
         /\ Len(Without(h, a)[a]) = Len(h[a]) - 1
         /\ \A c \in Arrays \ {a} : Without(h, a)[c] = h[c]
<1> DEFINE g == Without(h, a)
<1>1. /\ g[a] = Tail(h[a]) /\ \A c \in Arrays \ {a} : g[c] = h[c]
      /\ g = [c \in Arrays |-> g[c]]
  BY DEF Holdings, Without
<1> HIDE DEF g
<1>2. h[a] \in Seq(Blocks) /\ Len(h[a]) \in Nat \ {0}
  BY HeldBlocks, EmptySeq
<1>3. /\ g[a] \in Seq(Blocks) /\ Len(g[a]) = Len(h[a]) - 1
      /\ \A k \in 1..Len(h[a]) - 1 : g[a][k] = h[a][k + 1]
  BY <1>1, <1>2, HeadTailProperties
<1>4. 1 \in 1..Len(h[a]) /\ Head(h[a]) = h[a][1]
  BY <1>2
<1>5. Head(h[a]) \in Blocks /\ SpanOf(Head(h[a])) \in Taken(h)
  BY <1>4, HeldBlocks
<1>6. g \in Holdings
  BY <1>1, <1>3 DEF Holdings
<1> DEFINE From(c, k) == IF c = a THEN k + 1 ELSE k
<1>7. ASSUME NEW c \in Arrays, NEW k \in 1..Len(g[c])
      PROVE  /\ From(c, k) \in 1..Len(h[c]) /\ g[c][k] = h[c][From(c, k)]
             /\ ~(c = a /\ From(c, k) = 1)
  <2>1. CASE c = a
    BY <1>2, <1>3, <2>1
  <2>2. CASE c # a
    BY <1>1, <2>2
  <2>3. QED  BY <2>1, <2>2
<1>8. ASSUME NEW c \in Arrays, NEW k \in 1..Len(h[c]), ~(c = a /\ k = 1)
      PROVE  \E j \in 1..Len(g[c]) : g[c][j] = h[c][k]
  <2>1. CASE c = a
    <3>1. k - 1 \in 1..Len(h[a]) - 1 /\ (k - 1) + 1 = k
      BY <1>2, <1>8, <2>1
    <3>2. k - 1 \in 1..Len(g[a]) /\ g[a][k - 1] = h[a][k]
      BY <1>3, <3>1
    <3>3. QED  BY <2>1, <3>2
  <2>2. CASE c # a
    BY <1>1, <2>2
  <2>3. QED  BY <2>1, <2>2
<1>9. ASSUME NEW c \in Arrays, NEW k \in 1..Len(h[c]), ~(c = a /\ k = 1)
      PROVE  SpanOf(h[c][k]) # SpanOf(Head(h[a]))
  BY <1>4, <1>9 DEF Once
<1> HIDE DEF From
<1>10. Taken(g) \subseteq Taken(h) \ {SpanOf(Head(h[a]))}
  <2>1. SUFFICES ASSUME NEW x \in Taken(g)
                 PROVE  x \in Taken(h) /\ x # SpanOf(Head(h[a]))
    OBVIOUS
  <2>2. PICK c \in Arrays : \E k \in 1..Len(g[c]) : x = SpanOf(g[c][k])
    BY DEF Taken
  <2>a. PICK k \in 1..Len(g[c]) : x = SpanOf(g[c][k])
    BY <2>2
  <2>3. x = SpanOf(h[c][From(c, k)]) /\ From(c, k) \in 1..Len(h[c])
    BY <1>7, <2>a
  <2>4. QED  BY <1>7, <1>9, <2>a, <2>3, HeldBlocks
<1>11. Taken(h) \ {SpanOf(Head(h[a]))} \subseteq Taken(g)
  <2>1. SUFFICES ASSUME NEW x \in Taken(h), x # SpanOf(Head(h[a]))
                 PROVE  x \in Taken(g)
    OBVIOUS
  <2>2. PICK c \in Arrays : \E k \in 1..Len(h[c]) : x = SpanOf(h[c][k])
    BY DEF Taken
  <2>a. PICK k \in 1..Len(h[c]) : x = SpanOf(h[c][k])
    BY <2>2
  <2>3. ~(c = a /\ k = 1)
    BY <1>4, <2>1, <2>a
  <2>4. PICK j \in 1..Len(g[c]) : g[c][j] = h[c][k]
    BY <1>8, <2>3
  <2>5. x \in Spans
    BY DEF Taken
  <2>6. QED  BY <2>a, <2>4, <2>5 DEF Taken
<1>12. ASSUME NEW c \in Arrays, NEW d \in Arrays, NEW k \in 1..Len(g[c]), NEW l \in 1..Len(g[d]),
              SpanOf(g[c][k]) = SpanOf(g[d][l])
       PROVE  c = d /\ k = l
  <2>a. /\ From(c, k) \in 1..Len(h[c]) /\ From(d, l) \in 1..Len(h[d])
        /\ SpanOf(h[c][From(c, k)]) = SpanOf(h[d][From(d, l)])
    BY <1>7, <1>12
  <2>1. c = d /\ From(c, k) = From(d, l)
    BY <2>a DEF Once
  <2>2. QED  BY <2>1 DEF From
<1>13. Once(g)
  BY <1>12 DEF Once
<1>14. Taken(g) = Taken(h) \ {SpanOf(Head(h[a]))}
  BY <1>10, <1>11
<1>15. QED  BY <1>1, <1>2, <1>3, <1>4, <1>5, <1>6, <1>13, <1>14 DEF g
-----------------------------------------------------------------------------
(***************************************************************************)
(* The invariant.  Where the arrays should be empty the scripts tell,      *)
(* and where the heap is free the blocks in the arrays.                    *)
(***************************************************************************)
\* The parts of the invariant.
Worlds == [fault : Faults \cup {"none"}, capacity : Nat \ {0}, header : Headers,
           fit : {"first", "best"}]
InSuite ==
  test \in 1..8 /\ step \in 1..Len(Suite[test]) /\ turn \in Nat
HeapDivided ==
  held \in Holdings /\ Once(held) /\ Divided(world.capacity, free, Taken(held))

Loops == {"malloc", "fill", "free", "free_even"}
\* What the arrays hold, as far as the script tells.
AsScripted ==
  /\ status = "running" =>
       /\ \A a \in Arrays : held[a] # <<>> =>
            Holding(Suite[test], step, a) \/ (turn > 0 /\ Adds(Op, a))
       /\ Holding(Suite[test], step, "ptr") /\ ~Clears(Op, "ptr") => Len(held["ptr"]) = 1
       /\ turn > 0 => Op.op \in Loops
  /\ status = "ok" => \A a \in Arrays : held[a] = <<>>

\* The invariant, of a conforming allocator.
Conforming == world \in Worlds /\ world.fault = "none"
GivenBack == InSuite /\ HeapDivided /\ AsScripted
Inv == world \in Worlds /\ (world.fault = "none" => GivenBack)

\* The operation to be done is one of a tidy script.
LEMMA ScriptOps ==
  ASSUME InSuite
  PROVE  /\ Suite[test] \in Seq(Ops) /\ Tidy(Suite[test]) /\ Len(Suite[test]) \in Nat
         /\ Op \in Ops /\ Len(Suite) = 8
<1>1. Suite[test] \in Seq(Ops) /\ Tidy(Suite[test]) /\ Len(Suite) = 8
  BY SuiteTidy DEF InSuite
<1>2. QED  BY <1>1 DEF InSuite, Op

\* Going on to the next operation.
LEMMA GoingOn ==
  ASSUME InSuite, status = "running", GoOn,
         \A a \in Arrays : held'[a] # <<>> =>
           Adds(Op, a) \/ (Holding(Suite[test], step, a) /\ ~Clears(Op, a)),
         Adds(Op, "ptr") \/ (Holding(Suite[test], step, "ptr") /\ ~Clears(Op, "ptr"))
           => Len(held'["ptr"]) = 1
  PROVE  InSuite' /\ AsScripted'
<1>1. /\ Suite[test] \in Seq(Ops) /\ Tidy(Suite[test]) /\ Len(Suite[test]) \in Nat
      /\ Op \in Ops /\ Len(Suite) = 8
  BY ScriptOps
<1>2. ASSUME NEW a \in Arrays
      PROVE  Holding(Suite[test], step + 1, a) <=>
               Adds(Op, a) \/ (Holding(Suite[test], step, a) /\ ~Clears(Op, a))
  <2>1. step \in Nat \ {0}
    BY <1>1 DEF InSuite
  <2>2. Holding(Suite[test], step + 1, a) <=>
          Adds(Suite[test][step], a)
            \/ (Holding(Suite[test], step, a) /\ ~Clears(Suite[test][step], a))
    BY <2>1, HoldingStep, Zenon
  <2>3. QED  BY <2>2 DEF Op
<1>3. "ptr" \in Arrays
  BY DEF Arrays
<1>4. CASE step < Len(Suite[test])
  <2>1. test' = test /\ step' = step + 1 /\ turn' = 0 /\ status' = "running"
    BY <1>4 DEF GoOn, Goto
  <2>2. InSuite'
    BY <1>1, <1>4, <2>1 DEF InSuite
  <2>3. QED  BY <1>2, <1>3, <2>1, <2>2 DEF AsScripted
<1>5. CASE step = Len(Suite[test])
  <2>1. \A a \in Arrays : ~Holding(Suite[test], step + 1, a)
    BY <1>1, <1>5 DEF Tidy
  <2>2. \A a \in Arrays : held'[a] = <<>>
    BY <1>2, <2>1
  <2>3. CASE test < 8
    <3>1. test' = test + 1 /\ step' = 1 /\ turn' = 0 /\ status' = "running"
      BY <1>1, <1>5, <2>3 DEF GoOn, Goto
    <3>2. Suite[test + 1] \in Seq(Ops) /\ Len(Suite[test + 1]) # 0
      <4>1. test + 1 \in 1..8
        BY <2>3 DEF InSuite
      <4>2. QED  BY <4>1, SuiteTidy DEF Tidy
    <3>3. InSuite'
      BY <2>3, <3>1, <3>2 DEF InSuite
    <3>4. ~Holding(Suite[test'], step', "ptr")
      BY <3>1 DEF Holding
    <3>5. QED  BY <2>2, <3>1, <3>3, <3>4 DEF AsScripted
  <2>4. CASE ~(test < 8)
    <3>1. status' = "ok" /\ UNCHANGED <<test, step, turn>>
      BY <1>1, <1>5, <2>4 DEF GoOn
    <3>2. QED  BY <2>2, <3>1 DEF AsScripted, InSuite
  <2>5. QED  BY <2>3, <2>4
<1>6. QED  BY <1>1, <1>4, <1>5 DEF InSuite
-----------------------------------------------------------------------------
(***************************************************************************)
(* What the allocator does.                                                *)
(***************************************************************************)
\* The allocator of a fault-free world.
LEMMA NoFaults ==
  ASSUME Conforming
  PROVE  /\ \A f \in Faults : ~Fault(f)
         /\ \A n : Reserved(n)
         /\ \A F, b : FreeAfterFree(F, b) = Merged(F, SpanOf(b))
         /\ world.capacity \in Nat \ {0} /\ world.header \in Nat
<1>1. \A f \in Faults : ~Fault(f)
  BY DEF Conforming, Fault, Faults
<1>2. /\ ~Fault("unreserved") /\ ~Fault("small_unreserved") /\ ~Fault("free_leaks")
      /\ ~Fault("no_coalesce")
  BY <1>1 DEF Faults
<1>3. world.capacity \in Nat \ {0} /\ world.header \in Nat
  BY DEF Conforming, Worlds, Headers
<1>4. \A n : Reserved(n)
  BY <1>2 DEF Reserved
<1>5. \A F, b : FreeAfterFree(F, b) = Merged(F, SpanOf(b))
  BY <1>2 DEF FreeAfterFree, SpanOf
<1>6. QED  BY <1>1, <1>3, <1>4, <1>5

\* There is a first hole among some ...
LEMMA FirstOne ==
  ASSUME NEW H \in SUBSET Spans, H # {}
  PROVE  FirstOf(H) \in H
<1> DEFINE L == {h.lo : h \in H}
<1>1. L \in SUBSET Nat /\ L # {}
  BY DEF Spans
<1>2. PICK x \in L : \A y \in L : x <= y
  BY <1>1, Least
<1>3. \E h \in H : \A g \in H : h.lo <= g.lo
  BY <1>2
<1>4. QED  BY <1>3 DEF FirstOf

\* ... and a smallest one, so that the allocator finds one.
LEMMA BestOne ==
  ASSUME NEW H \in SUBSET Spans, H # {}, \A h \in H : h.lo < h.hi
  PROVE  Best(H) \in H
<1> DEFINE L == {h.hi - h.lo : h \in H}
           B == {h \in H : \A g \in H : h.hi - h.lo <= g.hi - g.lo}
<1>1. L \in SUBSET Nat /\ L # {}
  BY DEF Spans
<1>2. PICK x \in L : \A y \in L : x <= y
  BY <1>1, Least
<1>3. B # {}
  <2>1. PICK h \in H : x = h.hi - h.lo
    BY <1>2
  <2>2. \A g \in H : h.hi - h.lo <= g.hi - g.lo
    BY <1>2, <2>1
  <2>3. QED  BY <2>2
<1>4. B \in SUBSET Spans
  OBVIOUS
<1>5. Best(H) = IF world.fit = "first" THEN FirstOf(H) ELSE FirstOf(B)
  BY DEF Best
<1> HIDE DEF B
<1>6. FirstOf(H) \in H /\ FirstOf(B) \in B
  BY <1>3, <1>4, FirstOne
<1>7. B \subseteq H
  BY DEF B
<1>8. QED  BY <1>5, <1>6, <1>7

\* Where a block comes from, and what is left.
LEMMA Given ==
  ASSUME Conforming, HeapDivided, NEW n \in Positive, NEW al \in Positive,
         Fitting(n, al) # {},
         NEW h, h = Best(Fitting(n, al)), NEW b, b = BlockIn(h, n, al)
  PROVE  /\ b \in Blocks /\ b.size = n
         /\ SpanOf(b) \notin Taken(held)
         /\ \A t \in Taken(held) : Apart(SpanOf(b), t)
         /\ Divided(world.capacity, FreeAfterAlloc(h, b), Taken(held) \cup {SpanOf(b)})
<1>1. /\ free \subseteq Spans /\ \A g \in free : g.lo < g.hi
      /\ Divided(world.capacity, free, Taken(held))
  BY DEF HeapDivided, Divided
<1>2. h \in Fitting(n, al)
  <2>1. Fitting(n, al) \in SUBSET Spans /\ \A g \in Fitting(n, al) : g.lo < g.hi
    BY <1>1 DEF Fitting
  <2>2. QED  BY <2>1, BestOne
<1>3. h \in free /\ End(h, n, al) <= h.hi
  BY <1>2 DEF Fitting
<1>4. h \in Spans /\ h.lo \in Nat /\ h.hi \in Nat
  BY <1>1, <1>3 DEF Spans
<1>5. world.header \in Nat /\ world.capacity \in Nat /\ Reserved(n)
  BY NoFaults
<1>6. /\ At(h, al) \in Nat /\ h.lo <= At(h, al)
      /\ End(h, n, al) \in Nat /\ h.lo < End(h, n, al)
  <2>1. h.lo + world.header \in Nat /\ n \in Nat /\ n > 0 /\ 8 \in Positive
    BY <1>4, <1>5 DEF Positive
  <2>2. /\ RoundUp(h.lo + world.header, al) \in Nat
        /\ h.lo + world.header <= RoundUp(h.lo + world.header, al)
    BY <2>1, RoundedUp
  <2>3. RoundUp(n, 8) \in Nat /\ n <= RoundUp(n, 8)
    BY <2>1, RoundedUp
  <2>4. QED  BY <1>4, <1>5, <2>1, <2>2, <2>3 DEF At, End
<1>7. /\ b \in Blocks /\ b.lo = h.lo /\ b.hi = End(h, n, al) /\ b.size = n
  BY <1>4, <1>6 DEF BlockIn, Blocks, Positive
<1> DEFINE c == SpanOf(b)
           R == IF b.hi < h.hi THEN {[lo |-> b.hi, hi |-> h.hi]} ELSE {}
<1>8. c \in Spans /\ c.lo = h.lo /\ c.hi = b.hi /\ c.lo < c.hi /\ c.hi <= h.hi
  BY <1>3, <1>4, <1>6, <1>7 DEF SpanOf, Spans
<1>9. FreeAfterAlloc(h, b) = (free \ {h}) \cup R
  BY <1>5, <1>7 DEF FreeAfterAlloc
<1> HIDE DEF c
<1>10. R = IF c.hi < h.hi THEN {[lo |-> c.hi, hi |-> h.hi]} ELSE {}
  BY <1>8
<1> HIDE DEF R
<1>11. /\ \A t \in Taken(held) : Apart(c, t) /\ c # t
       /\ Divided(world.capacity, (free \ {h}) \cup R, Taken(held) \cup {c})
  <2> DEFINE T == Taken(held)
             N == world.capacity
  <2>1. Divided(N, free, T) /\ N \in Nat
    BY <1>1, <1>5
  <2> HIDE DEF T, N
  <2>2. /\ \A t \in T : Apart(c, t) /\ c # t
        /\ Divided(N, (free \ {h}) \cup R, T \cup {c})
    BY <1>3, <1>8, <1>10, <2>1, Taking
  <2>3. QED  BY <2>2 DEF T, N
<1>12. QED  BY <1>7, <1>9, <1>11 DEF c

\* The pointer to it is put away.
LEMMA PutAway ==
  ASSUME Conforming, HeapDivided, NEW b \in Blocks, NEW a \in Arrays,
         SpanOf(b) \notin Taken(held), \A t \in Taken(held) : Apart(SpanOf(b), t),
         NEW n, NEW first \in Nat,
         NEW g, g = Write(b, n, first, With(Spoil(b, held), a, b))
  PROVE  /\ g \in Holdings /\ Once(g) /\ Taken(g) = Taken(held) \cup {SpanOf(b)}
         /\ Len(g[a]) = Len(held[a]) + 1
         /\ \A c \in Arrays \ {a} : Len(g[c]) = Len(held[c])
<1>1. held \in Holdings /\ Once(held)
  BY DEF HeapDivided
<1>2. Spoil(b, held) = held
  <2>1. ASSUME NEW c \in Arrays, NEW k \in 1..Len(held[c])
        PROVE  ~Overlap(b, held[c][k])
    <3>1. held[c][k] \in Blocks /\ Apart(SpanOf(b), SpanOf(held[c][k]))
      BY <1>1, HeldBlocks
    <3>2. /\ b.hi \in Nat /\ b.lo \in Nat
          /\ held[c][k].hi \in Nat /\ held[c][k].lo \in Nat
      BY <3>1 DEF Blocks
    <3>3. b.hi <= held[c][k].lo \/ held[c][k].hi <= b.lo
      BY <3>1 DEF Apart, SpanOf
    <3>4. QED  BY <3>2, <3>3 DEF Overlap
  <2>2. QED  BY <1>1, <2>1, Unspoilt
<1> DEFINE h == With(held, a, b)
<1>3. /\ h \in Holdings /\ Once(h) /\ Taken(h) = Taken(held) \cup {SpanOf(b)}
      /\ Len(h[a]) = Len(held[a]) + 1 /\ \A c \in Arrays \ {a} : h[c] = held[c]
  BY <1>1, Put
<1>4. g = Write(b, n, first, h)
  BY <1>2
<1> HIDE DEF h
<1>5. /\ g \in Holdings /\ Taken(g) = Taken(h) /\ Once(g)
      /\ \A c \in Arrays : Len(g[c]) = Len(h[c])
  BY <1>3, <1>4, Written
<1>6. QED  BY <1>3, <1>5
-----------------------------------------------------------------------------
(***************************************************************************)
(* What the operations do.                                                 *)
(***************************************************************************)
\* A test that stops leaves the heap as it is.
LEMMA Stopping ==
  ASSUME GivenBack, NEW s \in {"aborted", "crashed"}, Stay(s), HeapDivided'
  PROVE  GivenBack'
BY DEF GivenBack, AsScripted, InSuite, Stay

\* Once more: what is held was, or is of the arrays the operation adds to.
LEMMA OnceMore ==
  ASSUME GivenBack, status = "running", Again, HeapDivided', Op.op \in Loops,
         \A a \in Arrays : held'[a] # <<>> => held[a] # <<>> \/ Adds(Op, a),
         ~Clears(Op, "ptr") => Len(held'["ptr"]) = Len(held["ptr"])
  PROVE  GivenBack'
<1>1. turn' = turn + 1 /\ turn \in Nat /\ turn' > 0 /\ UNCHANGED <<test, step, status>>
  BY DEF Again, GivenBack, InSuite
<1>2. Op' = Op
  BY <1>1 DEF Op
<1>3. InSuite'
  BY <1>1 DEF GivenBack, InSuite
<1> DEFINE H(a) == Holding(Suite[test], step, a)
<1>4. \A a \in Arrays : held[a] # <<>> => H(a) \/ Adds(Op, a)
  BY DEF GivenBack, AsScripted
<1>5. H("ptr") /\ ~Clears(Op, "ptr") => Len(held["ptr"]) = 1
  BY DEF GivenBack, AsScripted
<1>6. \A a \in Arrays : Holding(Suite[test], step, a)' = H(a)
  BY <1>1
<1>7. Holding(Suite[test], step, "ptr")' = H("ptr")
  BY <1>1
<1> HIDE DEF H
<1>8. AsScripted'
  BY <1>1, <1>2, <1>4, <1>5, <1>6, <1>7 DEF AsScripted
<1>9. QED  BY <1>3, <1>8 DEF GivenBack

\* An operation that is done with leaves the arrays as the script tells.
LEMMA MovingOn ==
  ASSUME GivenBack, status = "running", GoOn, HeapDivided',
         \A a \in Arrays : held'[a] # <<>> => Adds(Op, a) \/ (held[a] # <<>> /\ ~Clears(Op, a)),
         Adds(Op, "ptr") => Len(held'["ptr"]) = 1,
         ~Adds(Op, "ptr") /\ ~Clears(Op, "ptr") => Len(held'["ptr"]) = Len(held["ptr"])
  PROVE  GivenBack'
<1>1. \A a \in Arrays : held[a] # <<>> => Holding(Suite[test], step, a) \/ Adds(Op, a)
  BY DEF GivenBack, AsScripted
<1>2. Holding(Suite[test], step, "ptr") /\ ~Clears(Op, "ptr") => Len(held["ptr"]) = 1
  BY DEF GivenBack, AsScripted
<1>3. \A a \in Arrays : held'[a] # <<>> =>
        Adds(Op, a) \/ (Holding(Suite[test], step, a) /\ ~Clears(Op, a))
  BY <1>1
<1>4. Adds(Op, "ptr") \/ (Holding(Suite[test], step, "ptr") /\ ~Clears(Op, "ptr"))
        => Len(held'["ptr"]) = 1
  BY <1>2
<1>5. InSuite
  BY DEF GivenBack
<1>6. InSuite' /\ AsScripted'
  BY <1>3, <1>4, <1>5, GoingOn
<1>7. QED  BY <1>6 DEF GivenBack

\* Nothing happens to the heap.
LEMMA SameHeap ==
  ASSUME GivenBack, UNCHANGED <<world, heap>>
  PROVE  HeapDivided' /\ held' = held
BY DEF GivenBack, HeapDivided, heap

\* The operation adds to the pointer, which is free.
LEMMA OnePointer ==
  ASSUME GivenBack, status = "running", Adds(Op, "ptr")
  PROVE  /\ Op.n = 1 /\ Op.op # "fill" /\ Op.array = "ptr" /\ Op.op \in Allocation
         /\ turn = 0 => held["ptr"] = <<>>
<1>1. InSuite
  BY DEF GivenBack
<1>2. /\ Tidy(Suite[test]) /\ Len(Suite[test]) \in Nat /\ Op \in Ops
  BY <1>1, ScriptOps
<1>3. ~Holding(Suite[test], step, "ptr") /\ Op.n = 1 /\ Op.op # "fill"
  BY <1>1, <1>2 DEF Tidy, Op, InSuite
<1>4. turn = 0 => held["ptr"] = <<>>
  BY <1>3 DEF GivenBack, AsScripted, Arrays
<1>5. QED  BY <1>3, <1>4 DEF Adds

\* An operation that only looks at the heap.
LEMMA Plainly ==
  ASSUME GivenBack, status = "running", UNCHANGED <<world, held, free>>, GoOn,
         \A a \in Arrays : ~Adds(Op, a) /\ ~Clears(Op, a)
  PROVE  GivenBack'
<1>1. HeapDivided'
  BY DEF GivenBack, HeapDivided
<1>2. ~Adds(Op, "ptr") /\ ~Clears(Op, "ptr")
  BY DEF Arrays
<1>3. QED  BY <1>1, <1>2, MovingOn
-----------------------------------------------------------------------------
\* malloc(), aligned_alloc() and realloc(NULL) that find room.
LEMMA AllocateKeeps ==
  ASSUME Conforming, GivenBack, Allocate
  PROVE  GivenBack'
<1>0. InSuite /\ HeapDivided /\ status = "running" /\ Op.op \in Allocation /\ turn < Limit
      /\ Room # {} /\ UNCHANGED <<world, num_large>>
  BY DEF GivenBack, Allocate, Is
<1>1. Op \in Ops
  BY <1>0, ScriptOps
<1>2. /\ Op.array \in Arrays /\ Op.n \in Nat \ {0} /\ Op.align \in Nat \ {0}
      /\ Op.op # "reclaim" => Op.size \in Nat \ {0}
      /\ Op.op # "malloc" /\ Op.op # "fill" => Op.array = "ptr" /\ Op.n = 1
  BY <1>0, <1>1, OpsFields
<1>3. ~Fault("align_ignored") /\ ~Fault("realloc_null")
  BY NoFaults DEF Faults
<1>4. Size \in Positive
  <2>1. MB \in Positive /\ 2 * MB \in Positive
    BY DEF MB, KB, Positive
  <2>2. CASE Op.op # "reclaim"
    BY <1>2, <2>2 DEF Size, Positive
  <2>3. CASE Op.op = "reclaim"
    BY <2>1, <2>3 DEF Size
  <2>4. QED  BY <2>2, <2>3
<1>5. Align \in Positive
  BY <1>2, <1>3 DEF Align, Positive
<1>6. Room = Fitting(Size, Align)
  BY <1>3 DEF Room
<1> DEFINE h == Best(Fitting(Size, Align))
           b == BlockIn(h, Size, Align)
<1>7. /\ b \in Blocks /\ SpanOf(b) \notin Taken(held)
      /\ \A t \in Taken(held) : Apart(SpanOf(b), t)
      /\ Divided(world.capacity, FreeAfterAlloc(h, b), Taken(held) \cup {SpanOf(b)})
  BY <1>0, <1>4, <1>5, <1>6, Given
<1>8. free' = FreeAfterAlloc(h, b) /\ Hold(b)
  BY <1>6 DEF Allocate
<1> HIDE DEF h, b
<1>9. Len(Mine) \in Nat
  BY <1>0, <1>2, HeldBlocks DEF HeapDivided, Mine
<1>10. held' = Write(b, BytesWritten(b.size), Len(Mine), With(Spoil(b, held), Op.array, b))
  BY <1>8 DEF Hold, With
<1>11. /\ held' \in Holdings /\ Once(held') /\ Taken(held') = Taken(held) \cup {SpanOf(b)}
       /\ Len(held'[Op.array]) = Len(held[Op.array]) + 1
       /\ \A c \in Arrays \ {Op.array} : Len(held'[c]) = Len(held[c])
  BY <1>0, <1>2, <1>7, <1>9, <1>10, PutAway
<1>12. HeapDivided'
  BY <1>0, <1>7, <1>8, <1>11 DEF HeapDivided
<1>13. \A a \in Arrays : Adds(Op, a) <=> a = Op.array
  BY <1>0 DEF Adds, Allocation
<1>14. \A a \in Arrays : ~Clears(Op, a)
  BY <1>0 DEF Clears, Allocation
<1>15. \A a \in Arrays : held'[a] # <<>> => held[a] # <<>> \/ Adds(Op, a)
  <2>1. SUFFICES ASSUME NEW a \in Arrays, a # Op.array, held[a] = <<>>
                 PROVE  held'[a] = <<>>
    BY <1>13
  <2>2. Len(held'[a]) = 0
    BY <1>11, <2>1
  <2>3. held'[a] \in Seq(Blocks)
    BY <1>11 DEF Holdings
  <2>4. QED  BY <2>2, <2>3, EmptySeq
<1>16. "ptr" \in Arrays
  BY DEF Arrays
<1>17. Op.array = "ptr" => Limit = 1 /\ turn = 0 /\ held["ptr"] = <<>> /\ Op.op # "fill"
  <2>1. SUFFICES ASSUME Op.array = "ptr"
                 PROVE  Limit = 1 /\ turn = 0 /\ held["ptr"] = <<>> /\ Op.op # "fill"
    OBVIOUS
  <2>2. Adds(Op, "ptr")
    BY <1>13, <1>16, <2>1
  <2>3. Op.n = 1 /\ Op.op # "fill" /\ (turn = 0 => held["ptr"] = <<>>)
    BY <1>0, <2>2, OnePointer
  <2>4. Limit = 1
    BY <2>1, <2>3 DEF Limit
  <2>5. turn = 0
    BY <1>0, <2>4 DEF InSuite
  <2>6. QED  BY <2>3, <2>4, <2>5
<1>18. CASE Op.op = "fill" \/ turn + 1 < Limit
  <2>1. Again
    BY <1>18 DEF Allocate
  <2>2. Op.array # "ptr"
    BY <1>17, <1>18
  <2>3. Op.op \in Loops
    BY <1>0, <1>2, <2>2 DEF Loops, Allocation
  <2>4. Len(held'["ptr"]) = Len(held["ptr"])
    BY <1>11, <1>16, <2>2
  <2>5. QED  BY <1>0, <1>12, <1>15, <2>1, <2>3, <2>4, OnceMore
<1>19. CASE ~(Op.op = "fill" \/ turn + 1 < Limit)
  <2>1. GoOn
    BY <1>19 DEF Allocate
  <2>2. Op.array = "ptr" => Len(held'["ptr"]) = 1
    <3>1. Len(<<>>) + 1 = 1
      OBVIOUS
    <3>2. QED  BY <1>11, <1>17, <3>1
  <2>3. Op.array # "ptr" => Len(held'["ptr"]) = Len(held["ptr"])
    BY <1>11, <1>16
  <2>4. QED  BY <1>0, <1>12, <1>13, <1>14, <1>15, <1>16, <2>1, <2>2, <2>3, MovingOn
<1>20. QED  BY <1>18, <1>19

\* A loop that fills the heap ends, full or not.
LEMMA FillEnds ==
  ASSUME GivenBack, status = "running", Op.op = "fill", GoOn, UNCHANGED <<world, heap>>
  PROVE  GivenBack'
<1>1. ~Adds(Op, "ptr")
  BY OnePointer
<1>2. \A a \in Arrays : ~Clears(Op, a)
  BY DEF Clears
<1>3. QED  BY <1>1, <1>2, SameHeap, MovingOn

\* malloc() that finds none.
LEMMA AllocateFullKeeps ==
  ASSUME Conforming, GivenBack, AllocateFull
  PROVE  GivenBack'
<1>1. ~Fault("never_null")
  BY NoFaults DEF Faults
<1>2. status = "running" /\ UNCHANGED <<world, heap>>
  BY DEF AllocateFull, Is
<1>3. (Op.op = "fill" /\ GoOn) \/ Stay("aborted")
  BY <1>1 DEF AllocateFull
<1>4. CASE Op.op = "fill" /\ GoOn
  BY <1>2, <1>4, FillEnds
<1>5. CASE Stay("aborted")
  BY <1>2, <1>5, SameHeap, Stopping
<1>6. QED  BY <1>3, <1>4, <1>5

\* The loop has its number of blocks.
LEMMA FillDoneKeeps ==
  ASSUME GivenBack, FillDone
  PROVE  GivenBack'
BY FillEnds DEF FillDone, Is

\* free(), or an anchor is kept.
LEMMA FreeOneKeeps ==
  ASSUME Conforming, GivenBack, FreeOne
  PROVE  GivenBack'
<1>1. /\ InSuite /\ HeapDivided /\ status = "running" /\ Op.op \in {"free", "free_even"}
      /\ Mine # <<>> /\ UNCHANGED <<world, num_large>>
  BY DEF GivenBack, FreeOne, Is
<1>2. Op \in Ops
  BY <1>1, ScriptOps
<1>3. Op.array \in Arrays /\ (Op.op = "free_even" => Op.array = "blocks")
  BY <1>2, OpsFields
<1>4. Op.op \in Loops /\ Clears(Op, Op.array) /\ \A a \in Arrays : Clears(Op, a) => a = Op.array
  BY <1>1 DEF Loops, Clears
<1> DEFINE b == Head(held[Op.array])
           left == Without(held, Op.array)
<1>5. held \in Holdings /\ Once(held) /\ Divided(world.capacity, free, Taken(held))
      /\ held[Op.array] # <<>> /\ world.capacity \in Nat
  BY <1>1, NoFaults DEF HeapDivided, Mine
<1>6. /\ b \in Blocks /\ SpanOf(b) \in Taken(held)
      /\ Len(held[Op.array]) \in Nat \ {0}
      /\ left \in Holdings /\ Once(left)
      /\ Taken(left) = Taken(held) \ {SpanOf(b)}
      /\ Len(left[Op.array]) = Len(held[Op.array]) - 1
      /\ \A c \in Arrays \ {Op.array} : left[c] = held[c]
  BY <1>3, <1>5, Drop
<1>7. ~FreeRefuses(b)
  BY <1>6 DEF FreeRefuses, Blocks
<1>8. ~Fault("shrink_cuts")
  BY NoFaults DEF Faults
<1>9. \/ /\ Op.op = "free_even"
         /\ held' = With(left, "anchors", b) /\ Again /\ UNCHANGED free
      \/ /\ free' = FreeAfterFree(free, b) /\ held' = left /\ Again
  BY <1>7, <1>8 DEF FreeOne, Mine, With, Without
<1>10. "ptr" \in Arrays /\ "anchors" \in Arrays
  BY DEF Arrays
<1> HIDE DEF b, left
<1>11. CASE Op.op = "free_even" /\ held' = With(left, "anchors", b) /\ Again /\ UNCHANGED free
  <2>1. SpanOf(b) \notin Taken(left)
    BY <1>6
  <2>2. /\ held' \in Holdings /\ Once(held') /\ Taken(held') = Taken(left) \cup {SpanOf(b)}
        /\ \A c \in Arrays \ {"anchors"} : held'[c] = left[c]
    BY <1>6, <1>10, <1>11, <2>1, Put
  <2>3. Taken(held') = Taken(held)
    BY <1>6, <2>2
  <2>4. HeapDivided'
    BY <1>1, <1>5, <1>11, <2>2, <2>3 DEF HeapDivided
  <2>5. Adds(Op, "anchors")
    BY <1>11 DEF Adds
  <2>6. held'["ptr"] = held["ptr"]
    BY <1>3, <1>6, <1>10, <1>11, <2>2
  <2>7. ASSUME NEW a \in Arrays, held'[a] # <<>>  PROVE held[a] # <<>> \/ Adds(Op, a)
    BY <1>5, <1>6, <2>2, <2>5, <2>7
  <2>8. QED  BY <1>1, <1>4, <1>11, <2>4, <2>6, <2>7, OnceMore
<1>12. CASE free' = FreeAfterFree(free, b) /\ held' = left /\ Again
  <2>1. free' = Merged(free, SpanOf(b))
    BY <1>12, NoFaults
  <2>2. Divided(world.capacity, free', Taken(held'))
    BY <1>5, <1>6, <1>12, <2>1, Giving
  <2>3. HeapDivided'
    BY <1>1, <1>6, <1>12, <2>2 DEF HeapDivided
  <2>4. \A a \in Arrays : held'[a] # <<>> => held[a] # <<>>
    BY <1>5, <1>6, <1>12
  <2>5. ~Clears(Op, "ptr") => held'["ptr"] = held["ptr"]
    BY <1>4, <1>6, <1>10, <1>12
  <2>6. QED  BY <1>1, <1>4, <1>12, <2>3, <2>4, <2>5, OnceMore
<1>13. QED  BY <1>9, <1>11, <1>12

\* All of an array are freed.
LEMMA FreeDoneKeeps ==
  ASSUME GivenBack, FreeDone
  PROVE  GivenBack'
<1>1. /\ status = "running" /\ Op.op \in {"free", "free_even"} /\ held[Op.array] = <<>>
      /\ GoOn /\ UNCHANGED <<world, heap>>
  BY DEF FreeDone, Is, Mine
<1>2. ~Adds(Op, "ptr")
  BY <1>1 DEF Adds, Allocation
<1>3. \A a \in Arrays : Clears(Op, a) => held[a] = <<>>
  BY <1>1 DEF Clears
<1>4. QED  BY <1>1, <1>2, <1>3, SameHeap, MovingOn

\* memset() of the block.
LEMMA MemsetKeeps ==
  ASSUME GivenBack, MemsetPtr
  PROVE  GivenBack'
<1>1. /\ status = "running" /\ Op.op = "memset" /\ GoOn /\ UNCHANGED <<world, free>>
      /\ held' = Write(Mine[1], BytesWritten(Mine[1].size), 0, held)
  BY DEF MemsetPtr, Is
<1>2. held \in Holdings /\ Once(held) /\ Divided(world.capacity, free, Taken(held))
  BY DEF GivenBack, HeapDivided
<1>3. /\ held' \in Holdings /\ Once(held') /\ Taken(held') = Taken(held)
      /\ \A a \in Arrays : Len(held'[a]) = Len(held[a])
  BY <1>1, <1>2, Written
<1>4. HeapDivided'
  BY <1>1, <1>2, <1>3 DEF HeapDivided
<1>5. \A a \in Arrays : ~Adds(Op, a) /\ ~Clears(Op, a)
  BY <1>1 DEF Adds, Clears, Allocation
<1>6. \A a \in Arrays : held'[a] # <<>> => held[a] # <<>>
  <2>1. SUFFICES ASSUME NEW a \in Arrays, held[a] = <<>>  PROVE held'[a] = <<>>
    OBVIOUS
  <2>2. Len(held'[a]) = 0 /\ held'[a] \in Seq(Blocks)
    BY <1>3, <2>1 DEF Holdings
  <2>3. QED  BY <2>2, EmptySeq
<1>7. "ptr" \in Arrays
  BY DEF Arrays
<1>8. QED  BY <1>1, <1>3, <1>4, <1>5, <1>6, <1>7, MovingOn

\* realloc() takes the new block before it gives the old one back.
LEMMA ReallocKeeps ==
  ASSUME Conforming, GivenBack, ReallocPtr
  PROVE  GivenBack'
<1>1. /\ InSuite /\ HeapDivided /\ status = "running" /\ Op.op = "realloc"
      /\ UNCHANGED world
  BY DEF GivenBack, ReallocPtr, Is
<1>2. Op \in Ops /\ Tidy(Suite[test]) /\ Len(Suite[test]) \in Nat
  BY <1>1, ScriptOps
<1>3. Op.array = "ptr" /\ Op.size \in Positive /\ "ptr" \in Arrays /\ 8 \in Positive
  BY <1>1, <1>2, OpsFields DEF Arrays, Positive
<1>4. \A a \in Arrays : ~Adds(Op, a) /\ ~Clears(Op, a)
  BY <1>1 DEF Adds, Clears, Allocation
<1>5. Len(held["ptr"]) = 1
  <2>1. Holding(Suite[test], step, "ptr")
    BY <1>1, <1>2 DEF Tidy, UsesPtr, Op, InSuite
  <2>2. QED  BY <1>1, <1>3, <1>4, <2>1 DEF GivenBack, AsScripted
<1>6. ~Fault("realloc_no_copy") /\ ~Fault("usable_stale") /\ ~Fault("realloc_leaks")
  BY NoFaults DEF Faults
<1>7. held \in Holdings /\ Once(held) /\ Divided(world.capacity, free, Taken(held))
      /\ world.capacity \in Nat
  BY <1>1, NoFaults DEF HeapDivided
<1> DEFINE old == held["ptr"][1]
           holes == Fitting(Op.size, 8)
           h == Best(holes)
           c == BlockIn(h, Op.size, 8)
           b == [c EXCEPT !.first = old.first, !.usable = @]
<1>8. held["ptr"] # <<>>
  BY <1>5
<1>9. /\ Head(held["ptr"]) = old /\ old \in Blocks /\ SpanOf(old) \in Taken(held)
      /\ Without(held, "ptr") \in Holdings /\ Once(Without(held, "ptr"))
      /\ Taken(Without(held, "ptr")) = Taken(held) \ {SpanOf(old)}
      /\ Len(Without(held, "ptr")["ptr"]) = 0
      /\ \A a \in Arrays \ {"ptr"} : Without(held, "ptr")[a] = held[a]
  <2> HIDE DEF b
  <2>1. /\ Head(held["ptr"]) \in Blocks /\ SpanOf(Head(held["ptr"])) \in Taken(held)
        /\ Head(held["ptr"]) = held["ptr"][1]
        /\ Without(held, "ptr") \in Holdings /\ Once(Without(held, "ptr"))
        /\ Taken(Without(held, "ptr")) = Taken(held) \ {SpanOf(Head(held["ptr"]))}
        /\ Len(Without(held, "ptr")["ptr"]) = Len(held["ptr"]) - 1
        /\ \A a \in Arrays \ {"ptr"} : Without(held, "ptr")[a] = held[a]
    BY <1>3, <1>7, <1>8, Drop
  <2>2. Len(held["ptr"]) - 1 = 0
    BY <1>5
  <2>3. QED  BY <2>1, <2>2
<1>10. CASE UNCHANGED heap /\ Stay("aborted")
  BY <1>1, <1>10, SameHeap, Stopping
<1>11. CASE ~(UNCHANGED heap /\ Stay("aborted"))
  <2>1. /\ holes # {}
        /\ free' = FreeAfterFree(FreeAfterAlloc(h, b), old)
        /\ held' = [held EXCEPT !["ptr"] = <<b>>]
        /\ AssertThat(Op.compare => b.first = old.first)
    BY <1>3, <1>6, <1>11 DEF ReallocPtr, Mine
  <2>2. /\ c \in Blocks /\ c.size = Op.size
        /\ SpanOf(c) \notin Taken(held)
        /\ \A t \in Taken(held) : Apart(SpanOf(c), t)
        /\ Divided(world.capacity, FreeAfterAlloc(h, c), Taken(held) \cup {SpanOf(c)})
    BY <1>1, <1>3, <2>1, Given
  <2> HIDE DEF c, h, holes, old
  <2>3. b \in Blocks /\ SpanOf(b) = SpanOf(c) /\ b.first = old.first /\ b.hi = c.hi /\ b.lo = c.lo
        /\ b.size = c.size
    BY <1>9, <2>2 DEF Blocks, SpanOf
  <2>4. GoOn
    BY <2>1, <2>3 DEF AssertThat
  <2> HIDE DEF b
  <2>5. FreeAfterAlloc(h, b) = FreeAfterAlloc(h, c)
    BY <2>3 DEF FreeAfterAlloc
  <2>6. free' = Merged(FreeAfterAlloc(h, c), SpanOf(old))
    BY <2>1, <2>5, NoFaults
  <2> DEFINE T == Taken(held) \cup {SpanOf(c)}
  <2>7. SpanOf(old) \in T
    BY <1>9
  <2>8. Divided(world.capacity, free', T \ {SpanOf(old)})
    BY <1>7, <2>2, <2>6, <2>7, Giving
  <2> DEFINE w == Without(held, "ptr")
  <2>9. SpanOf(b) \notin Taken(w)
    BY <1>9, <2>2, <2>3
  <2>10. /\ With(w, "ptr", b) \in Holdings /\ Once(With(w, "ptr", b))
         /\ Taken(With(w, "ptr", b)) = Taken(w) \cup {SpanOf(b)}
         /\ Len(With(w, "ptr", b)["ptr"]) = 1
         /\ \A a \in Arrays \ {"ptr"} : With(w, "ptr", b)[a] = w[a]
    <3>1. w \in Holdings /\ Once(w) /\ Len(w["ptr"]) + 1 = 1
      BY <1>9
    <3> HIDE DEF w
    <3>2. /\ With(w, "ptr", b) \in Holdings /\ Once(With(w, "ptr", b))
          /\ Taken(With(w, "ptr", b)) = Taken(w) \cup {SpanOf(b)}
          /\ Len(With(w, "ptr", b)["ptr"]) = Len(w["ptr"]) + 1
          /\ \A a \in Arrays \ {"ptr"} : With(w, "ptr", b)[a] = w[a]
      BY <1>3, <2>3, <2>9, <3>1, Put
    <3>3. QED  BY <3>1, <3>2
  <2>11. held' = With(w, "ptr", b)
    <3>1. w["ptr"] \in Seq(Blocks)
      BY <1>3, <1>9 DEF Holdings
    <3>2. w["ptr"] = <<>>
      BY <1>9, <3>1, EmptySeq
    <3>3. Append(<<>>, b) = <<b>>
      OBVIOUS
    <3>4. With(w, "ptr", b)["ptr"] = <<b>>
      BY <1>3, <1>9, <3>2, <3>3 DEF With, Holdings
    <3>5. held'["ptr"] = <<b>> /\ \A a \in Arrays \ {"ptr"} : held'[a] = held[a]
      BY <1>3, <1>7, <2>1 DEF Holdings
    <3>6. \A a \in Arrays : held'[a] = With(w, "ptr", b)[a]
      BY <1>9, <2>10, <3>4, <3>5
    <3>7. held' = [a \in Arrays |-> held'[a]]
      BY <1>7, <2>1 DEF Holdings
    <3>8. With(w, "ptr", b) = [a \in Arrays |-> With(w, "ptr", b)[a]]
      BY <2>10 DEF Holdings
    <3> HIDE DEF w
    <3>9. QED  BY <3>6, <3>7, <3>8
  <2>12. Taken(held') = T \ {SpanOf(old)}
    <3>1. SpanOf(old) # SpanOf(c)
      BY <1>9, <2>2
    <3>2. QED  BY <1>9, <2>3, <2>10, <2>11, <3>1
  <2>13. HeapDivided'
    BY <1>1, <2>8, <2>10, <2>11, <2>12 DEF HeapDivided
  <2>14. \A a \in Arrays : held'[a] # <<>> => held[a] # <<>>
    BY <1>8, <1>9, <2>10, <2>11
  <2>15. Len(held'["ptr"]) = Len(held["ptr"])
    BY <1>5, <2>10, <2>11
  <2>16. QED  BY <1>1, <1>3, <1>4, <2>4, <2>13, <2>14, <2>15, MovingOn
<1>12. QED  BY <1>10, <1>11

\* The asserts.
LEMMA AssertOnlyKeeps ==
  ASSUME GivenBack, AssertOnly
  PROVE  GivenBack'
<1>1. /\ status = "running" /\ UNCHANGED <<world, heap>>
      /\ Op.op \in {"check", "check_align", "usable", "usable_null", "some_gaps", "munmap"}
      /\ GoOn \/ Stay("aborted")
  BY DEF AssertOnly, Is, AssertThat
<1>2. \A a \in Arrays : ~Adds(Op, a) /\ ~Clears(Op, a)
  BY <1>1 DEF Adds, Clears, Allocation
<1>3. CASE GoOn
  BY <1>1, <1>2, <1>3, Plainly DEF heap
<1>4. CASE Stay("aborted")
  BY <1>1, <1>4, SameHeap, Stopping
<1>5. QED  BY <1>1, <1>3, <1>4

\* The count of the large blocks.
LEMMA CountLargeKeeps ==
  ASSUME GivenBack, CountLarge
  PROVE  GivenBack'
<1>1. /\ status = "running" /\ UNCHANGED <<world, free, held>>
      /\ Op.op = "some_blocks" /\ (GoOn \/ Stay("aborted"))
  BY DEF CountLarge, Is, AssertThat
<1>2. \A a \in Arrays : ~Adds(Op, a) /\ ~Clears(Op, a)
  BY <1>1 DEF Adds, Clears, Allocation
<1>3. CASE GoOn
  BY <1>1, <1>2, <1>3, Plainly
<1>4. CASE Stay("aborted")
  <2>1. HeapDivided'
    BY <1>1 DEF GivenBack, HeapDivided
  <2>2. QED  BY <1>4, <2>1, Stopping
<1>5. QED  BY <1>1, <1>3, <1>4

\* mmap() of a page.
LEMMA MmapKeeps ==
  ASSUME GivenBack, MmapPage
  PROVE  GivenBack'
<1>1. /\ status = "running" /\ UNCHANGED <<world, heap>> /\ Op.op = "mmap"
      /\ GoOn \/ Stay("crashed")
  BY DEF MmapPage, Is
<1>2. \A a \in Arrays : ~Adds(Op, a) /\ ~Clears(Op, a)
  BY <1>1 DEF Adds, Clears, Allocation
<1>3. CASE GoOn
  BY <1>1, <1>2, <1>3, Plainly DEF heap
<1>4. CASE Stay("crashed")
  BY <1>1, <1>4, SameHeap, Stopping
<1>5. QED  BY <1>1, <1>3, <1>4
-----------------------------------------------------------------------------
\* With no fault in the allocator the heap is at all times divided into free intervals
\* that do not touch and blocks that do not overlap, each held once, and the arrays hold
\* what the scripts tell, for any sizes of heap.
THEOREM HeapIsDivided == Spec => []Inv
<1>1. Init => Inv
  <2>1. SUFFICES ASSUME Init  PROVE Inv
    OBVIOUS
  <2>2. world \in Worlds /\ world.capacity \in Nat \ {0}
    BY <2>1, CapacitiesAssumption DEF Init, Worlds
  <2>3. held \in Holdings /\ \A a \in Arrays : held[a] = <<>>
    BY <2>1 DEF Init, Holdings
  <2>4. Taken(held) = {} /\ Once(held)
    BY <2>3 DEF Taken, Once
  <2>5. HeapDivided
    BY <2>1, <2>2, <2>3, <2>4, NothingYet DEF Init, HeapDivided
  <2>6. test = 1 /\ step = 1 /\ turn = 0 /\ status = "running"
    BY <2>1 DEF Init
  <2>7. InSuite
    <3>1. Suite[1] \in Seq(Ops) /\ Len(Suite[1]) # 0
      BY SuiteTidy DEF Tidy
    <3>2. QED  BY <2>6, <3>1 DEF InSuite
  <2>8. ~Holding(Suite[test], step, "ptr")
    BY <2>6 DEF Holding
  <2>9. AsScripted
    BY <2>3, <2>6, <2>8 DEF AsScripted
  <2>10. QED  BY <2>2, <2>5, <2>7, <2>9 DEF Inv, GivenBack
<1>2. Inv /\ [Next]_vars => Inv'
  <2>1. SUFFICES ASSUME Inv, [Next]_vars  PROVE Inv'
    OBVIOUS
  <2>2. CASE UNCHANGED vars
    BY <2>1, <2>2 DEF Inv, GivenBack, InSuite, HeapDivided, AsScripted, Op, vars, heap, where
  <2>3. CASE Operation
    <3>1. UNCHANGED world
      BY <2>3 DEF Operation, Allocate, AllocateFull, FillDone, FreeOne, FreeDone, MemsetPtr,
                  ReallocPtr, AssertOnly, CountLarge, MmapPage
    <3>2. SUFFICES ASSUME world.fault = "none"  PROVE GivenBack'
      BY <2>1, <3>1 DEF Inv
    <3>3. Conforming /\ GivenBack
      BY <2>1, <3>2 DEF Inv, Conforming
    <3>4. QED
      BY <2>3, <3>3, AllocateKeeps, AllocateFullKeeps, FillDoneKeeps, FreeOneKeeps,
         FreeDoneKeeps, MemsetKeeps, ReallocKeeps, AssertOnlyKeeps, CountLargeKeeps, MmapKeeps
         DEF Operation
  <2>4. QED  BY <2>1, <2>2, <2>3 DEF Next, Stop
<1>3. QED  BY <1>1, <1>2, PTL DEF Spec

\* Each test gives back what it took, and the heap is one free interval before the next
\* and after the last, however the rounds of heap_stress.c:126 and the phases of
\* heap_shrink.c:173 cut it up, for any sizes of heap, with headers or without, and for
\* first fit and best fit.
THEOREM Drained == Spec => []DrainedBetween
<1>1. Inv => DrainedBetween
  <2>1. SUFFICES ASSUME Inv, world.fault = "none",
                        status = "ok" \/ (status = "running" /\ step = 1 /\ turn = 0)
                 PROVE  /\ free = {[lo |-> 0, hi |-> world.capacity]}
                        /\ \A a \in Arrays : held[a] = <<>>
    BY DEF DrainedBetween
  <2>2. GivenBack /\ world.capacity \in Nat \ {0}
    BY <2>1 DEF Inv, Worlds
  <2>3. \A a \in Arrays : ~Holding(Suite[test], 1, a)
    BY DEF Holding
  <2>4. \A a \in Arrays : held[a] = <<>>
    BY <2>1, <2>2, <2>3 DEF GivenBack, AsScripted
  <2>5. Taken(held) = {}
    BY <2>4 DEF Taken
  <2>6. Divided(world.capacity, free, {})
    BY <2>2, <2>5 DEF GivenBack, HeapDivided
  <2>7. QED  BY <2>2, <2>4, <2>6, NothingTaken
<1>2. QED  BY <1>1, HeapIsDivided, PTL
=============================================================================
