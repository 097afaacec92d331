--------------------------- MODULE Masters_proofs ---------------------------
(***************************************************************************)
(* Type correctness of the master data and what a request that ran alone   *)
(* may do, for all numbers of records, names and requests.                 *)
(*                                                                         *)
(* The invariant says of every request still alone that what it will write *)
(* is harmless to the rows as they are (Harmless): its first action        *)
(* checked just that, and nothing has come between.  What the checks of    *)
(* the fifteen kinds amount to is one predicate, Checked; why a write that *)
(* passed it is harmless depends only on the kind of write.                *)
(***************************************************************************)
EXTENDS Masters, FiniteSetTheorems, TLAPS

(***************************************************************************)
(* The invariant.                                                          *)
(***************************************************************************)

(* Rows as the database may hold them. *)
Proper(W) ==
    /\ W \in [Rows -> Record]
    /\ \A x \in Kept(W) : W[x].name \in Names /\ InColumns(Kind[x], W[x].refs)
    /\ ReferencesExist(W)

(* A record to be added in slot x. *)
Addable(x, r) ==
    /\ r \in Record
    /\ r.life = "live" /\ r.name \in Names /\ InColumns(Kind[x], r.refs) /\ r.primes <= 1

Made(W, x) == x \in Rows /\ W[x].life # "unused"

(* What a request is about: slots never used for what it adds, others for  *)
(* the rest.                                                               *)
Shape(W, r) ==
    /\ DOMAIN r = {"op", "at", "put", "given", "gone", "primes", "alone"}
    /\ r.op \in {"none", "lookup", "create", "import", "update", "set", "delete",
                 "restore", "contact", "hardDelete", "purge"}
    /\ r.alone \in BOOLEAN
    /\ r.op \in {"create", "import"} =>
        \A x \in DOMAIN r.put : x \in Rows /\ W[x].life = "unused" /\ Addable(x, r.put[x])
    /\ r.op \in {"update", "set"} =>
        /\ r.primes \in {0, 1}
        /\ r.put[r.at] \in Record
        /\ InColumns(Kind[r.at], r.put[r.at].refs)
        /\ "name" \in r.given => r.put[r.at].name \in Names
    /\ r.op \in Writes => Made(W, r.at)
    /\ r.op \in {"hardDelete", "purge"} => \A x \in r.gone : Made(W, x)
    /\ r.op = "lookup" => r.at \in Kinds /\ r.put.dropdown \in BOOLEAN /\ DOMAIN r.put.names \subseteq Of(r.at)

Adds(r) == r.op \in {"create", "import"}
Apart(R) == \A p, q \in Requests : p # q /\ Adds(R[p]) /\ Adds(R[q]) => DOMAIN R[p].put \cap DOMAIN R[q].put = {}

(* Updates that found no primary contact of x and may yet add one. *)
Adders(R, x) == {q \in Requests : R[q].op = "update" /\ R[q].at = x /\ R[q].primes = 0}
Counted(W, R) == \A x \in Rows : W[x].primes + Cardinality(Adders(R, x)) <= Cardinality(Requests)

Shelf(C) ==
    /\ DOMAIN C = Kinds
    /\ \A k \in Kinds : C[k].dropdown => DOMAIN C[k].names \subseteq Of(k)

(* What the properties ask of a request that writes N where there was W. *)
Worthy(r, W, N) ==
    /\ r.op # "restore" => Dangling(N) \subseteq Dangling(W)
    /\ ~Moves(r) => Disagreeing(N) \subseteq Disagreeing(W)
    /\ ChecksNames(r) => Twins(N) \subseteq Twins(W)
    /\ \A x \in Kept(W) : N[x].life # "purged" /\ W[x].primes <= 1 => N[x].primes \in {W[x].primes, 1}
Shown(r, W, N, C) == r.op # "hardDelete" =>
    \A k \in Kinds : C[k].dropdown => LiveNames(N, k) = LiveNames(W, k)

(* A request that ran alone so far: what it will write is harmless to the  *)
(* rows and dropdowns as they are.                                         *)
Harmless(q) ==
    /\ \A o \in Requests \ {q} : req[o].op = "none"
    /\ req[q].op = "lookup" => req[q].put.names = LiveNames(row, req[q].at)
    /\ req[q].op # "lookup" =>
        Worthy(req[q], row, Outcome(req[q])) /\ Shown(req[q], row, Outcome(req[q]), cache)

IInv ==
    /\ Proper(row)
    /\ NamesDiffer(row)
    /\ DOMAIN req = Requests
    /\ \A q \in Requests : Shape(row, req[q])
    /\ \A q \in Requests : req[q].op = "none" => req[q] = Idle
    /\ Apart(req)
    /\ Counted(row, req)
    /\ Shelf(cache)
    /\ \A q \in Requests : req[q].alone /\ req[q].op # "none" => Harmless(q)

(***************************************************************************)
(* Records and references.                                                 *)
(***************************************************************************)
LEMMA ToRefs ==
    ASSUME NEW r \in Record, NEW role, NEW s
    PROVE  s \in To(r, role) <=> <<role, s>> \in r.refs
<1>1. r.refs \subseteq RoleNames \X Rows
    BY DEF Record
<1>2. ASSUME NEW p \in r.refs PROVE p = <<p[1], p[2]>>
    BY <1>1
<1> QED BY <1>1, <1>2 DEF To

LEMMA RefPairs ==
    ASSUME NEW r \in Record, NEW p \in r.refs
    PROVE  p = <<p[1], p[2]>> /\ p[2] \in Rows /\ p[2] \in To(r, p[1])
<1>1. p \in RoleNames \X Rows
    BY DEF Record
<1>2. p = <<p[1], p[2]>> /\ p[2] \in Rows
    BY <1>1
<1> QED BY <1>2, ToRefs

LEMMA GuardedRoles ==
    ASSUME NEW k, NEW role
    PROVE  <<k, role>> \in Guarded <=>
            \/ k = "state" /\ role = "country"
            \/ k = "city" /\ role = "state"
            \/ k = "subcategory" /\ role = "category"
            \/ k = "supplier" /\ role = "product"
            \/ k = "product" /\ role \in {"category", "subcategory", "brand", "hsn", "uom"}
BY DEF Guarded

LEMMA RolesOf ==
    /\ Roles("state") = {"country"}
    /\ Roles("city") = {"country", "state"}
    /\ Roles("subcategory") = {"category"}
    /\ Roles("product") = {"category", "uom", "subcategory", "brand", "hsn", "secondary"}
    /\ Roles("supplier") = {"country", "state", "city", "category", "subcategory", "product"}
    /\ Roles("buyer") = {"country", "category", "subcategory"}
    /\ \A k \in Kinds \ {"state", "city", "subcategory", "product", "supplier", "buyer"} : Roles(k) = {}
BY DEF Roles, Mandatory, Optional, Links, Kinds

LEMMA KeptRows ==
    ASSUME NEW W, NEW x
    PROVE  x \in Kept(W) <=> x \in Rows /\ W[x].life \in {"live", "trashed"}
BY DEF Kept

-----------------------------------------------------------------------------
(* Records whose columns agree with each other, given the rows W.          *)
Agrees(W, k, r) ==
    /\ \A s \in To(r, "state") : To(W[s], "country") = To(r, "country")
    /\ \A c \in To(r, "city") : To(W[c], "state") = To(r, "state")
    /\ k = "product" => \A s \in To(r, "subcategory") : To(W[s], "category") = To(r, "category")

LEMMA DisagreeingRows ==
    ASSUME NEW W, NEW x
    PROVE  x \in Disagreeing(W) <=> x \in Rows /\ W[x].life = "live" /\ ~Agrees(W, Kind[x], W[x])
BY DEF Disagreeing, Agrees

LEMMA DanglingRefs ==
    ASSUME NEW W, NEW d
    PROVE  d \in Dangling(W) <=> \E y \in Rows : \E p \in W[y].refs :
                d = <<y, p>> /\ W[y].life = "live" /\ <<Kind[y], p[1]>> \in Guarded /\ W[p[2]].life # "live"
<1> DEFINE Bad(y) == {o \in W[y].refs : <<Kind[y], o[1]>> \in Guarded /\ W[o[2]].life # "live"}
           Alive == {z \in Rows : W[z].life = "live"}
<1>1. d \in Dangling(W) <=> \E y \in Alive : d \in {<<y, p>> : p \in Bad(y)}
    BY DEF Dangling
<1>2. ASSUME NEW y PROVE d \in {<<y, p>> : p \in Bad(y)} <=> \E p \in Bad(y) : d = <<y, p>>
    OBVIOUS
<1> HIDE DEF Bad
<1>3. d \in Dangling(W) <=> \E y \in Alive : \E p \in Bad(y) : d = <<y, p>>
    BY <1>1, <1>2
<1> QED BY <1>3 DEF Bad

(* Another record goes by the name of r, case aside. *)
Claimed(W, x, r, roles) == \E y \in Kept(W) \ {x} :
    Kind[y] = Kind[x] /\ Fold[W[y].name] = Fold[r.name] /\ SameScope(W[y], r, roles)

LEMMA TwinRows ==
    ASSUME NEW W, NEW T
    PROVE  T \in Twins(W) <=> T \in Kept(W) \X Kept(W) /\ T[1] # T[2]
            /\ Kind[T[1]] = Kind[T[2]] /\ Fold[W[T[1]].name] = Fold[W[T[2]].name]
            /\ SameScope(W[T[1]], W[T[2]], SameName(Kind[T[1]]))
BY DEF Twins

LEMMA ScopeSym ==
    ASSUME NEW r, NEW s, NEW roles, SameScope(r, s, roles)
    PROVE  SameScope(s, r, roles)
BY DEF SameScope

(***************************************************************************)
(* Records added to slots never used.                                      *)
(***************************************************************************)
With(W, S, f) == [y \in Rows |-> IF y \in S THEN f[y] ELSE W[y]]
AddedTo(W, k, S, f) ==
    /\ S \subseteq Of(k)
    /\ \A x \in S : W[x].life = "unused" /\ Addable(x, f[x])
    /\ \A x \in S : \A p \in f[x].refs : p[2] \in Kept(W)

LEMMA WithRows ==
    ASSUME NEW W, NEW k, NEW S, NEW f, Proper(W), AddedTo(W, k, S, f)
    PROVE  /\ \A y \in S : y \in Rows /\ Kind[y] = k /\ With(W, S, f)[y] = f[y] /\ f[y] \in Record
                            /\ f[y].life = "live" /\ y \notin Kept(W)
           /\ \A y \in Rows \ S : With(W, S, f)[y] = W[y] /\ W[y] \in Record
           /\ \A y \in Rows : \A p \in With(W, S, f)[y].refs : y \in Kept(With(W, S, f)) =>
                p[2] \in Kept(W) /\ With(W, S, f)[p[2]] = W[p[2]]
           /\ Kept(With(W, S, f)) = Kept(W) \cup S
<1>1. \A y \in S : y \in Rows /\ Kind[y] = k
    BY DEF AddedTo, Of
<1>2. \A y \in S : With(W, S, f)[y] = f[y] /\ f[y] \in Record /\ f[y].life = "live" /\ y \notin Kept(W)
    BY <1>1 DEF AddedTo, Addable, With, Kept
<1>3. \A y \in Rows \ S : With(W, S, f)[y] = W[y] /\ W[y] \in Record
    BY DEF With, Proper
<1>4. Kept(With(W, S, f)) = Kept(W) \cup S
    BY <1>1, <1>2, <1>3 DEF Kept
<1>5. \A y \in Kept(W) : y \in Rows /\ y \notin S
    BY <1>2 DEF Kept
<1>6. ASSUME NEW y \in Kept(With(W, S, f)), NEW p \in With(W, S, f)[y].refs
      PROVE  p[2] \in Kept(W) /\ With(W, S, f)[p[2]] = W[p[2]]
    <2>1. p[2] \in Kept(W)
        <3>1. CASE y \in S
            BY <1>2, <1>6, <3>1 DEF AddedTo
        <3>2. CASE y \in Kept(W)
            BY <1>3, <1>5, <1>6, <3>2 DEF Proper, ReferencesExist
        <3> QED BY <1>4, <3>1, <3>2
    <2> QED BY <2>1, <1>3, <1>5
<1> QED BY <1>1, <1>2, <1>3, <1>4, <1>6

LEMMA AddingDangles ==
    ASSUME NEW W, NEW k, NEW S, NEW f, Proper(W), AddedTo(W, k, S, f),
           \A x \in S : \A p \in f[x].refs : <<k, p[1]>> \in Guarded => W[p[2]].life = "live"
    PROVE  Dangling(With(W, S, f)) \subseteq Dangling(W)
<1> DEFINE N == With(W, S, f)
<1>1. SUFFICES ASSUME NEW d \in Dangling(N) PROVE d \in Dangling(W)
    OBVIOUS
<1>2. PICK y \in Rows : \E p \in N[y].refs : 
                d = <<y, p>> /\ N[y].life = "live" /\ <<Kind[y], p[1]>> \in Guarded /\ N[p[2]].life # "live"
    BY <1>1, DanglingRefs
<1>3. PICK p \in N[y].refs :
                d = <<y, p>> /\ N[y].life = "live" /\ <<Kind[y], p[1]>> \in Guarded /\ N[p[2]].life # "live"
    BY <1>2
<1>4. y \in Kept(N)
    BY <1>3 DEF Kept
<1>5. W[p[2]].life # "live"
    BY <1>3, <1>4, WithRows
<1>6. y \notin S
    BY <1>3, <1>5, WithRows
<1>7. N[y] = W[y]
    BY <1>6, WithRows
<1> HIDE DEF N
<1> QED BY <1>3, <1>5, <1>7, DanglingRefs

LEMMA AgreesInAdded ==
    ASSUME NEW W, NEW k, NEW S, NEW f, Proper(W), AddedTo(W, k, S, f),
           NEW y \in Kept(With(W, S, f))
    PROVE  LET N == With(W, S, f) IN Agrees(N, Kind[y], N[y]) <=> Agrees(W, Kind[y], N[y])
<1> DEFINE N == With(W, S, f)
<1>0. y \in Rows /\ N[y] \in Record
    BY WithRows DEF Kept
<1>1. \A role : \A s \in To(N[y], role) : N[s] = W[s]
    <2>1. SUFFICES ASSUME NEW role, NEW s \in To(N[y], role) PROVE N[s] = W[s]
        OBVIOUS
    <2>2. <<role, s>> \in N[y].refs
        BY <1>0, <2>1, ToRefs
    <2>3. N[<<role, s>>[2]] = W[<<role, s>>[2]]
        BY <1>0, <2>2, WithRows
    <2> QED BY <2>3
<1> HIDE DEF N
<1>2. Agrees(N, Kind[y], N[y]) <=> Agrees(W, Kind[y], N[y])
    BY <1>1 DEF Agrees
<1> QED BY <1>2 DEF N

LEMMA AddingDisagrees ==
    ASSUME NEW W, NEW k, NEW S, NEW f, Proper(W), AddedTo(W, k, S, f),
           \A x \in S : Agrees(W, k, f[x])
    PROVE  Disagreeing(With(W, S, f)) \subseteq Disagreeing(W)
<1> DEFINE N == With(W, S, f)
<1>1. SUFFICES ASSUME NEW y \in Disagreeing(N) PROVE y \in Disagreeing(W)
    OBVIOUS
<1>2. y \in Rows /\ N[y].life = "live" /\ ~Agrees(N, Kind[y], N[y])
    BY <1>1, DisagreeingRows
<1>3. y \in Kept(N)
    BY <1>2 DEF Kept
<1>4. ~Agrees(W, Kind[y], N[y])
    BY <1>2, <1>3, AgreesInAdded
<1>5. y \notin S
    BY <1>4, WithRows
<1>6. N[y] = W[y]
    BY <1>2, <1>5, WithRows
<1> HIDE DEF N
<1> QED BY <1>2, <1>4, <1>6, DisagreeingRows

LEMMA AddingTwins ==
    ASSUME NEW W, NEW k, NEW S, NEW f, Proper(W), AddedTo(W, k, S, f),
           \A x \in S : ~Claimed(W, x, f[x], SameName(k)),
           \A x, y \in S : x # y => Fold[f[x].name] # Fold[f[y].name]
    PROVE  Twins(With(W, S, f)) \subseteq Twins(W)
<1> DEFINE N == With(W, S, f)
<1>1. SUFFICES ASSUME NEW T \in Twins(N) PROVE T \in Twins(W)
    OBVIOUS
<1>2. /\ T \in Kept(N) \X Kept(N) /\ T[1] # T[2] /\ Kind[T[1]] = Kind[T[2]]
      /\ Fold[N[T[1]].name] = Fold[N[T[2]].name]
      /\ SameScope(N[T[1]], N[T[2]], SameName(Kind[T[1]]))
    BY <1>1, TwinRows
<1>3. PICK a \in Kept(N), b \in Kept(N) : T = <<a, b>>
    BY <1>2
<1>4. /\ a # b /\ Kind[a] = Kind[b] /\ Fold[N[a].name] = Fold[N[b].name]
      /\ SameScope(N[a], N[b], SameName(Kind[a]))
    BY <1>2, <1>3
<1>5. \A x \in S : N[x] = f[x] /\ Kind[x] = k
    BY WithRows
<1>6. \A x \in Kept(N) : x \in S \/ (x \in Kept(W) /\ N[x] = W[x])
    <2>1. Kept(N) = Kept(W) \cup S
        BY WithRows
    <2>2. \A x \in Rows \ S : N[x] = W[x]
        BY WithRows
    <2>3. \A x \in Kept(W) : x \in Rows
        BY DEF Kept
    <2> HIDE DEF N
    <2> QED BY <2>1, <2>2, <2>3
<1> HIDE DEF N
<1>7. a \notin S
    <2>1. SUFFICES ASSUME a \in S PROVE FALSE
        OBVIOUS
    <2>2. CASE b \in S
        BY <1>4, <1>5, <2>1, <2>2
    <2>3. CASE b \notin S
        <3>1. b \in Kept(W) /\ N[b] = W[b]
            BY <1>6, <2>3
        <3>2. SameScope(W[b], f[a], SameName(k))
            BY <1>4, <1>5, <2>1, <3>1, ScopeSym
        <3>3. Claimed(W, a, f[a], SameName(k))
            BY <1>4, <1>5, <2>1, <3>1, <3>2 DEF Claimed
        <3> QED BY <2>1, <3>3
    <2> QED BY <2>2, <2>3
<1>8. b \notin S
    <2>1. SUFFICES ASSUME b \in S PROVE FALSE
        OBVIOUS
    <2>2. a \in Kept(W) /\ N[a] = W[a]
        BY <1>6, <1>7
    <2>3. Claimed(W, b, f[b], SameName(k))
        BY <1>4, <1>5, <2>1, <2>2 DEF Claimed
    <2> QED BY <2>1, <2>3
<1>9. a \in Kept(W) /\ b \in Kept(W) /\ N[a] = W[a] /\ N[b] = W[b]
    BY <1>6, <1>7, <1>8
<1> QED BY <1>3, <1>4, <1>9, TwinRows

LEMMA AddingShows ==
    ASSUME NEW W, NEW k, NEW S, NEW f, Proper(W), AddedTo(W, k, S, f)
    PROVE  /\ \A j \in Kinds \ {k} : LiveNames(With(W, S, f), j) = LiveNames(W, j)
           /\ \A x \in Kept(W) : With(W, S, f)[x].primes = W[x].primes
<1> DEFINE N == With(W, S, f)
<1>1. \A j \in Kinds \ {k} : \A y \in Of(j) : N[y] = W[y]
    BY WithRows DEF Of
<1>2. \A x \in Kept(W) : N[x] = W[x]
    BY WithRows DEF Kept
<1> HIDE DEF N
<1>3. ASSUME NEW j \in Kinds \ {k} PROVE LiveNames(N, j) = LiveNames(W, j)
    <2>1. {y \in Of(j) : N[y].life = "live"} = {y \in Of(j) : W[y].life = "live"}
        BY <1>1
    <2>2. \A y \in {z \in Of(j) : W[z].life = "live"} : N[y].name = W[y].name
        BY <1>1
    <2> QED BY <2>1, <2>2 DEF LiveNames
<1> QED BY <1>2, <1>3 DEF N

(***************************************************************************)
(* Records written over in columns that carry no name, reference, life or  *)
(* count.                                                                  *)
(***************************************************************************)
Alike(W, N) == \A x \in Rows :
    /\ N[x].life = W[x].life /\ N[x].name = W[x].name
    /\ N[x].refs = W[x].refs /\ N[x].primes = W[x].primes

LEMMA AlikeRows ==
    ASSUME NEW W \in [Rows -> Record], NEW N, Alike(W, N), ReferencesExist(W)
    PROVE  /\ Kept(N) = Kept(W)
           /\ \A role : \A x \in Rows : To(N[x], role) = To(W[x], role)
           /\ \A x \in Kept(W) : \A role : To(W[x], role) \subseteq Kept(W)
<1>1. Kept(N) = Kept(W)
    BY DEF Kept, Alike
<1>2. \A role : \A x \in Rows : To(N[x], role) = To(W[x], role)
    BY DEF To, Alike
<1>3. ASSUME NEW x \in Kept(W), NEW role, NEW s \in To(W[x], role) PROVE s \in Kept(W)
    <2>1. <<role, s>> \in W[x].refs
        BY <1>3, ToRefs DEF Kept
    <2>2. <<role, s>>[2] \in Kept(W)
        BY <2>1 DEF ReferencesExist
    <2> QED BY <2>2
<1> QED BY <1>1, <1>2, <1>3

LEMMA AlikeIsHarmless ==
    ASSUME NEW W \in [Rows -> Record], NEW N, Alike(W, N), ReferencesExist(W)
    PROVE  /\ Dangling(N) \subseteq Dangling(W) /\ Disagreeing(N) \subseteq Disagreeing(W)
           /\ Twins(N) \subseteq Twins(W)
           /\ \A x \in Kept(W) : N[x].primes = W[x].primes
           /\ \A k \in Kinds : LiveNames(N, k) = LiveNames(W, k)
<1>1. ASSUME NEW d \in Dangling(N) PROVE d \in Dangling(W)
    <2>1. PICK y \in Rows : \E p \in N[y].refs : 
                d = <<y, p>> /\ N[y].life = "live" /\ <<Kind[y], p[1]>> \in Guarded /\ N[p[2]].life # "live"
        BY <1>1, DanglingRefs
    <2>2. PICK p \in N[y].refs :
                d = <<y, p>> /\ N[y].life = "live" /\ <<Kind[y], p[1]>> \in Guarded /\ N[p[2]].life # "live"
        BY <2>1
    <2>3. p \in W[y].refs /\ W[y].life = "live"
        BY <2>2 DEF Alike
    <2>4. p[2] \in Rows
        BY <2>3, RefPairs
    <2>5. W[p[2]].life # "live"
        BY <2>2, <2>4 DEF Alike
    <2> QED BY <2>2, <2>3, <2>5, DanglingRefs
<1>2. ASSUME NEW y \in Disagreeing(N) PROVE y \in Disagreeing(W)
    <2>1. y \in Rows /\ N[y].life = "live" /\ ~Agrees(N, Kind[y], N[y])
        BY <1>2, DisagreeingRows
    <2>2. W[y].life = "live" /\ y \in Kept(W)
        BY <2>1 DEF Alike, Kept
    <2>3. \A role : To(N[y], role) = To(W[y], role) /\ \A s \in To(W[y], role) : s \in Rows
        BY <2>1, <2>2, AlikeRows DEF Kept
    <2>4. Agrees(W, Kind[y], W[y]) => Agrees(N, Kind[y], N[y])
        BY <2>3, AlikeRows DEF Agrees
    <2> QED BY <2>1, <2>2, <2>4, DisagreeingRows
<1>3. ASSUME NEW T \in Twins(N) PROVE T \in Twins(W)
    <2>1. /\ T \in Kept(N) \X Kept(N) /\ T[1] # T[2] /\ Kind[T[1]] = Kind[T[2]]
          /\ Fold[N[T[1]].name] = Fold[N[T[2]].name]
          /\ SameScope(N[T[1]], N[T[2]], SameName(Kind[T[1]]))
        BY <1>3, TwinRows
    <2>2. T[1] \in Rows /\ T[2] \in Rows
        BY <2>1 DEF Kept
    <2>3. SameScope(W[T[1]], W[T[2]], SameName(Kind[T[1]]))
        BY <2>1, <2>2, AlikeRows DEF SameScope
    <2>4. Fold[W[T[1]].name] = Fold[W[T[2]].name]
        BY <2>1, <2>2 DEF Alike
    <2>5. T \in Kept(W) \X Kept(W)
        BY <2>1, AlikeRows
    <2> QED BY <2>1, <2>3, <2>4, <2>5, TwinRows
<1>4. \A x \in Kept(W) : N[x].primes = W[x].primes
    BY DEF Alike, Kept
<1>5. ASSUME NEW k \in Kinds PROVE LiveNames(N, k) = LiveNames(W, k)
    <2>1. \A y \in Of(k) : N[y].name = W[y].name /\ N[y].life = W[y].life
        BY DEF Alike, Of
    <2> QED BY <2>1 DEF LiveNames
<1> QED BY <1>1, <1>2, <1>3, <1>4, <1>5

(***************************************************************************)
(* A record moved to the trash or taken out of it.                         *)
(***************************************************************************)
Lives(W, x, life, N) == life \in {"live", "trashed"} /\ x \in Kept(W) /\ N = [W EXCEPT ![x].life = life]

OnlyLife(W, x, life, N) ==
    /\ Kept(N) = Kept(W)
    /\ \A y \in Rows : /\ N[y].name = W[y].name /\ N[y].refs = W[y].refs /\ N[y].primes = W[y].primes
                       /\ y # x => N[y].life = W[y].life
                       /\ \A role : To(N[y], role) = To(W[y], role)
    /\ N[x].life = life
    /\ N \in [Rows -> Record]

LEMMA LifeRows ==
    ASSUME NEW W \in [Rows -> Record], NEW x, NEW life, NEW N,
           Lives(W, x, life, N)
    PROVE  OnlyLife(W, x, life, N)
<1>1. x \in Rows /\ W[x].life \in {"live", "trashed"} /\ life \in {"live", "trashed"}
    BY DEF Kept, Lives
<1>2. PICK r \in Record : r = W[x]
    BY <1>1
<1>3. PICK z \in Record : z = [r EXCEPT !.life = life]
    BY ONLY r \in Record, <1>1 DEF Record
<1>4. z.life = life /\ z.name = r.name /\ z.refs = r.refs /\ z.primes = r.primes
    BY <1>3 DEF Record
<1>5. N = [W EXCEPT ![x] = z]
    BY <1>2, <1>3 DEF Lives
<1>6. N[x] = z /\ \A y \in Rows \ {x} : N[y] = W[y]
    BY <1>1, <1>5
<1>7. N \in [Rows -> Record]
    BY <1>1, <1>5
<1>8. Kept(N) = Kept(W)
    BY <1>1, <1>4, <1>6 DEF Kept
<1>9. \A y \in Rows : N[y].name = W[y].name /\ N[y].refs = W[y].refs /\ N[y].primes = W[y].primes
                              /\ (y # x => N[y].life = W[y].life)
    BY <1>2, <1>4, <1>6
<1>10. \A y \in Rows : \A role : To(N[y], role) = To(W[y], role)
    BY <1>9 DEF To
<1> QED BY <1>4, <1>6, <1>7, <1>8, <1>9, <1>10 DEF OnlyLife

LEMMA LifeTwins ==
    ASSUME NEW W \in [Rows -> Record], NEW x, NEW life, NEW N,
           Lives(W, x, life, N)
    PROVE  /\ Twins(N) \subseteq Twins(W)
           /\ \A y \in Kept(W) : N[y].primes = W[y].primes
           /\ \A k \in Kinds \ {Kind[x]} : LiveNames(N, k) = LiveNames(W, k)
<1>. OnlyLife(W, x, life, N)
    BY LifeRows
<1>0. /\ Kept(N) = Kept(W)
      /\ \A y \in Rows : /\ N[y].name = W[y].name /\ N[y].refs = W[y].refs /\ N[y].primes = W[y].primes
                         /\ y # x => N[y].life = W[y].life
                         /\ \A role : To(N[y], role) = To(W[y], role)
      /\ N[x].life = life
    BY DEF OnlyLife
<1>1. ASSUME NEW T \in Twins(N) PROVE T \in Twins(W)
    <2>1. /\ T \in Kept(N) \X Kept(N) /\ T[1] # T[2] /\ Kind[T[1]] = Kind[T[2]]
          /\ Fold[N[T[1]].name] = Fold[N[T[2]].name]
          /\ SameScope(N[T[1]], N[T[2]], SameName(Kind[T[1]]))
        BY <1>1, TwinRows
    <2>2. T[1] \in Rows /\ T[2] \in Rows
        BY <2>1 DEF Kept
    <2>3. SameScope(W[T[1]], W[T[2]], SameName(Kind[T[1]]))
        BY <2>1, <2>2, <1>0 DEF SameScope
    <2>4. Fold[W[T[1]].name] = Fold[W[T[2]].name]
        BY <2>1, <2>2, <1>0
    <2>5. T \in Kept(W) \X Kept(W)
        BY <2>1, <1>0
    <2> QED BY <2>1, <2>3, <2>4, <2>5, TwinRows
<1>2. \A y \in Kept(W) : N[y].primes = W[y].primes
    BY <1>0 DEF Kept
<1>3. ASSUME NEW k \in Kinds \ {Kind[x]} PROVE LiveNames(N, k) = LiveNames(W, k)
    <2>1. \A y \in Of(k) : N[y].name = W[y].name /\ N[y].life = W[y].life
        BY <1>0 DEF Of
    <2> QED BY <2>1 DEF LiveNames
<1> QED BY <1>1, <1>2, <1>3

LEMMA TrashingIsHarmless ==
    ASSUME NEW W \in [Rows -> Record], NEW x, NEW N, Lives(W, x, "trashed", N),
           \A y \in Rows : \A p \in W[y].refs : W[y].life = "live" /\ <<Kind[y], p[1]>> \in Guarded => p[2] # x
    PROVE  Dangling(N) \subseteq Dangling(W) /\ Disagreeing(N) \subseteq Disagreeing(W)
<1>. OnlyLife(W, x, "trashed", N)
    BY LifeRows
<1>0. /\ Kept(N) = Kept(W)
      /\ \A y \in Rows : /\ N[y].name = W[y].name /\ N[y].refs = W[y].refs /\ N[y].primes = W[y].primes
                         /\ y # x => N[y].life = W[y].life
                         /\ \A role : To(N[y], role) = To(W[y], role)
      /\ N[x].life = "trashed"
    BY DEF OnlyLife
<1>1. ASSUME NEW d \in Dangling(N) PROVE d \in Dangling(W)
    <2>1. PICK y \in Rows : \E p \in N[y].refs : 
                d = <<y, p>> /\ N[y].life = "live" /\ <<Kind[y], p[1]>> \in Guarded /\ N[p[2]].life # "live"
        BY <1>1, DanglingRefs
    <2>2. PICK p \in N[y].refs :
                d = <<y, p>> /\ N[y].life = "live" /\ <<Kind[y], p[1]>> \in Guarded /\ N[p[2]].life # "live"
        BY <2>1
    <2>3. p \in W[y].refs /\ W[y].life = "live" /\ y # x
        BY <2>2, <1>0
    <2>4. p[2] \in Rows /\ p[2] # x
        BY <2>2, <2>3, RefPairs
    <2>5. W[p[2]].life # "live"
        BY <2>2, <2>4, <1>0
    <2> QED BY <2>2, <2>3, <2>5, DanglingRefs
<1>2. ASSUME NEW y \in Disagreeing(N) PROVE y \in Disagreeing(W)
    <2>1. y \in Rows /\ N[y].life = "live" /\ ~Agrees(N, Kind[y], N[y])
        BY <1>2, DisagreeingRows
    <2>2. W[y].life = "live"
        BY <2>1, <1>0
    <2>3. \A role : To(N[y], role) = To(W[y], role)
        BY <2>1, <1>0
    <2>4. \A role : \A s \in To(W[y], role) : s \in Rows
        <3>1. ASSUME NEW role, NEW s \in To(W[y], role) PROVE s \in Rows
            <4>1. <<role, s>> \in W[y].refs
                BY <2>1, <3>1, ToRefs
            <4> QED BY <2>1, <4>1, RefPairs
        <3> QED BY <3>1
    <2>5. Agrees(W, Kind[y], W[y]) => Agrees(N, Kind[y], N[y])
        BY <2>3, <2>4, <1>0 DEF Agrees
    <2> QED BY <2>1, <2>2, <2>5, DisagreeingRows
<1> QED BY <1>1, <1>2

(***************************************************************************)
(* Records deleted for good.                                               *)
(***************************************************************************)
Without(W, G) == [y \in Rows |-> IF y \in G THEN Gone ELSE W[y]]
Unreferred(W, G) == \A y \in Kept(W) : \A p \in W[y].refs : p[2] \in G => y \in G

LEMMA RemovingIsHarmless ==
    ASSUME NEW W \in [Rows -> Record], NEW G, Unreferred(W, G)
    PROVE  /\ Dangling(Without(W, G)) \subseteq Dangling(W)
           /\ Disagreeing(Without(W, G)) \subseteq Disagreeing(W)
           /\ Twins(Without(W, G)) \subseteq Twins(W)
           /\ \A x \in Kept(W) : Without(W, G)[x].life # "purged" => Without(W, G)[x].primes = W[x].primes
           /\ (\A x \in G : W[x].life # "live") => \A k \in Kinds : LiveNames(Without(W, G), k) = LiveNames(W, k)
<1> DEFINE N == Without(W, G)
<1>1. /\ \A y \in Rows : y \in G => N[y].life = "purged"
      /\ \A y \in Rows : y \notin G => N[y] = W[y]
    BY DEF Without, Gone, Blank
<1> HIDE DEF N
<1>2. \A y \in Kept(N) : y \in Rows /\ y \notin G /\ N[y] = W[y] /\ y \in Kept(W)
    BY <1>1 DEF Kept
<1>3. \A y \in Rows : N[y].life = "live" => y \in Kept(N)
    BY DEF Kept
<1>4. ASSUME NEW y \in Kept(N), NEW p \in W[y].refs PROVE N[p[2]] = W[p[2]]
    <2>1. p[2] \notin G
        BY <1>2, <1>4 DEF Unreferred
    <2>2. p[2] \in Rows
        BY <1>2, <1>4, RefPairs
    <2> QED BY <1>1, <2>1, <2>2
<1>5. ASSUME NEW d \in Dangling(N) PROVE d \in Dangling(W)
    <2>1. PICK y \in Rows : \E p \in N[y].refs : 
                d = <<y, p>> /\ N[y].life = "live" /\ <<Kind[y], p[1]>> \in Guarded /\ N[p[2]].life # "live"
        BY <1>5, DanglingRefs
    <2>2. PICK p \in N[y].refs :
                d = <<y, p>> /\ N[y].life = "live" /\ <<Kind[y], p[1]>> \in Guarded /\ N[p[2]].life # "live"
        BY <2>1
    <2>3. y \in Kept(N) /\ N[y] = W[y]
        BY <1>2, <1>3, <2>2
    <2>4. W[p[2]].life # "live"
        BY <1>4, <2>2, <2>3
    <2> QED BY <2>2, <2>3, <2>4, DanglingRefs
<1>6. ASSUME NEW y \in Disagreeing(N) PROVE y \in Disagreeing(W)
    <2>1. y \in Rows /\ N[y].life = "live" /\ ~Agrees(N, Kind[y], N[y])
        BY <1>6, DisagreeingRows
    <2>2. y \in Kept(N) /\ N[y] = W[y]
        BY <1>2, <1>3, <2>1
    <2>3. ASSUME NEW role, NEW s \in To(W[y], role) PROVE N[s] = W[s]
        <3>1. <<role, s>> \in W[y].refs
            BY <2>1, <2>3, ToRefs
        <3>2. N[<<role, s>>[2]] = W[<<role, s>>[2]]
            BY <1>4, <2>2, <3>1
        <3> QED BY <3>2
    <2>4. Agrees(W, Kind[y], W[y]) => Agrees(N, Kind[y], W[y])
        BY <2>3 DEF Agrees
    <2> QED BY <2>1, <2>2, <2>4, DisagreeingRows
<1>7. ASSUME NEW T \in Twins(N) PROVE T \in Twins(W)
    <2>1. /\ T \in Kept(N) \X Kept(N) /\ T[1] # T[2] /\ Kind[T[1]] = Kind[T[2]]
          /\ Fold[N[T[1]].name] = Fold[N[T[2]].name]
          /\ SameScope(N[T[1]], N[T[2]], SameName(Kind[T[1]]))
        BY <1>7, TwinRows
    <2>2. N[T[1]] = W[T[1]] /\ N[T[2]] = W[T[2]] /\ T \in Kept(W) \X Kept(W)
        BY <1>2, <2>1
    <2> QED BY <2>1, <2>2, TwinRows
<1>8. \A x \in Kept(W) : N[x].life # "purged" => N[x].primes = W[x].primes
    BY <1>1 DEF Kept
<1>9. ASSUME \A x \in G : W[x].life # "live", NEW k \in Kinds PROVE LiveNames(N, k) = LiveNames(W, k)
    <2>1. \A y \in Of(k) : N[y].life = "live" <=> W[y].life = "live"
        BY <1>1, <1>9 DEF Of
    <2>2. \A y \in Of(k) : N[y].life = "live" => N[y] = W[y]
        BY <1>1 DEF Of
    <2>3. {y \in Of(k) : N[y].life = "live"} = {y \in Of(k) : W[y].life = "live"}
        BY <2>1
    <2> QED BY <2>2, <2>3 DEF LiveNames
<1> QED BY <1>5, <1>6, <1>7, <1>8, <1>9 DEF N

(***************************************************************************)
(* A record revised in the columns G.                                      *)
(***************************************************************************)
Revises(W, x, m, G, N) ==
    /\ x \in Rows /\ W[x].life = "live"
    /\ m \in Record /\ m.life = "live"
    /\ \A p \in m.refs : p[1] \in G \/ p \in W[x].refs
    /\ \A p \in W[x].refs : p[1] \in G \/ p \in m.refs
    /\ "name" \in G \/ m.name = W[x].name
    /\ N = [W EXCEPT ![x] = m]

LEMMA RevisedRows ==
    ASSUME NEW W \in [Rows -> Record], NEW x, NEW m, NEW G, NEW N, Revises(W, x, m, G, N)
    PROVE  /\ x \in Rows /\ x \in Kept(W) /\ N[x] = m
           /\ \A y \in Rows : y # x => N[y] = W[y]
           /\ \A y \in Rows : N[y] \in Record /\ N[y].life = W[y].life
           /\ Kept(N) = Kept(W)
<1>1. x \in Rows /\ N[x] = m
    BY DEF Revises
<1>2. \A y \in Rows : y # x => N[y] = W[y]
    BY DEF Revises
<1>3. \A y \in Rows : N[y] \in Record /\ N[y].life = W[y].life
    BY <1>1, <1>2 DEF Revises
<1>4. Kept(N) = Kept(W)
    BY <1>3 DEF Kept
<1>5. x \in Kept(W)
    BY DEF Kept, Revises
<1> QED BY <1>1, <1>2, <1>3, <1>4, <1>5

LEMMA SameTo ==
    ASSUME NEW W \in [Rows -> Record], NEW x, NEW m, NEW G, NEW N, Revises(W, x, m, G, N),
           NEW role, role \notin G
    PROVE  To(m, role) = To(W[x], role)
<1>1. m \in Record /\ W[x] \in Record
    BY DEF Revises
<1>2. ASSUME NEW s PROVE s \in To(m, role) <=> s \in To(W[x], role)
    <2>1. <<role, s>> \in m.refs <=> <<role, s>> \in W[x].refs
        BY DEF Revises
    <2> QED BY <1>1, <2>1, ToRefs
<1> QED BY <1>2

LEMMA RevisingDangles ==
    ASSUME NEW W \in [Rows -> Record], NEW x, NEW m, NEW G, NEW N, Revises(W, x, m, G, N),
           \A p \in m.refs : p[1] \in G /\ <<Kind[x], p[1]>> \in Guarded => W[p[2]].life = "live"
    PROVE  Dangling(N) \subseteq Dangling(W)
<1>1. ASSUME NEW d \in Dangling(N) PROVE d \in Dangling(W)
    <2>1. PICK y \in Rows : \E p \in N[y].refs : 
                d = <<y, p>> /\ N[y].life = "live" /\ <<Kind[y], p[1]>> \in Guarded /\ N[p[2]].life # "live"
        BY <1>1, DanglingRefs
    <2>2. PICK p \in N[y].refs :
                d = <<y, p>> /\ N[y].life = "live" /\ <<Kind[y], p[1]>> \in Guarded /\ N[p[2]].life # "live"
        BY <2>1
    <2>3. p[2] \in Rows /\ W[y].life = "live"
        BY <2>2, RevisedRows, RefPairs
    <2>4. W[p[2]].life # "live"
        BY <2>2, <2>3, RevisedRows
    <2>5. p \in W[y].refs
        <3>1. CASE y # x
            BY <2>2, <3>1, RevisedRows
        <3>2. CASE y = x
            <4>1. p \in m.refs
                BY <2>2, <3>2, RevisedRows
            <4>2. p[1] \notin G
                BY <2>2, <2>4, <3>2, <4>1
            <4> QED BY <3>2, <4>1, <4>2 DEF Revises
        <3> QED BY <3>1, <3>2
    <2> QED BY <2>2, <2>3, <2>4, <2>5, DanglingRefs
<1> QED BY <1>1

LEMMA RevisingTwins ==
    ASSUME NEW W \in [Rows -> Record], NEW x, NEW m, NEW G, NEW N, Revises(W, x, m, G, N),
           ("name" \notin G /\ G \cap SameName(Kind[x]) = {}) \/ ~Claimed(W, x, m, SameName(Kind[x]))
    PROVE  Twins(N) \subseteq Twins(W)
<1>1. SUFFICES ASSUME NEW T \in Twins(N) PROVE T \in Twins(W)
    OBVIOUS
<1>2. /\ T \in Kept(N) \X Kept(N) /\ T[1] # T[2] /\ Kind[T[1]] = Kind[T[2]]
      /\ Fold[N[T[1]].name] = Fold[N[T[2]].name]
      /\ SameScope(N[T[1]], N[T[2]], SameName(Kind[T[1]]))
    BY <1>1, TwinRows
<1>3. PICK a \in Kept(N), b \in Kept(N) : T = <<a, b>>
    BY <1>2
<1>4. /\ a # b /\ Kind[a] = Kind[b] /\ Fold[N[a].name] = Fold[N[b].name]
      /\ SameScope(N[a], N[b], SameName(Kind[a]))
    BY <1>2, <1>3
<1>5. a \in Kept(W) /\ b \in Kept(W) /\ a \in Rows /\ b \in Rows
    BY RevisedRows DEF Kept
<1>6. CASE "name" \notin G /\ G \cap SameName(Kind[x]) = {}
    <2>1. m.name = W[x].name
        BY <1>6 DEF Revises
    <2>2. \A role \in SameName(Kind[x]) : To(m, role) = To(W[x], role)
        BY <1>6, SameTo
    <2>3. \A y \in Rows : N[y].name = W[y].name
        BY <2>1, RevisedRows
    <2>4. \A y \in Rows : Kind[y] = Kind[x] => \A role \in SameName(Kind[x]) : To(N[y], role) = To(W[y], role)
        BY <2>2, RevisedRows
    <2>5. \A y \in Rows : Kind[y] # Kind[x] => N[y] = W[y]
        BY RevisedRows
    <2>6. SameScope(W[a], W[b], SameName(Kind[a]))
        BY <1>4, <1>5, <2>4, <2>5 DEF SameScope
    <2> QED BY <1>3, <1>4, <1>5, <2>3, <2>6, TwinRows
<1>7. CASE ~Claimed(W, x, m, SameName(Kind[x]))
    <2>1. N[x] = m /\ \A y \in Rows : y # x => N[y] = W[y]
        BY RevisedRows
    <2>2. a # x
        <3>1. SUFFICES ASSUME a = x PROVE FALSE
            OBVIOUS
        <3>2. N[b] = W[b]
            BY <1>4, <1>5, <2>1, <3>1
        <3>3. SameScope(W[b], m, SameName(Kind[x]))
            BY <1>4, <2>1, <3>1, <3>2, ScopeSym
        <3>4. Claimed(W, x, m, SameName(Kind[x]))
            BY <1>4, <1>5, <2>1, <3>1, <3>2, <3>3 DEF Claimed
        <3> QED BY <1>7, <3>4
    <2>3. b # x
        <3>1. SUFFICES ASSUME b = x PROVE FALSE
            OBVIOUS
        <3>2. N[a] = W[a]
            BY <1>4, <1>5, <2>1, <3>1
        <3>3. Claimed(W, x, m, SameName(Kind[x]))
            BY <1>4, <1>5, <2>1, <3>1, <3>2 DEF Claimed
        <3> QED BY <1>7, <3>3
    <2> QED BY <1>3, <1>4, <1>5, <2>1, <2>2, <2>3, TwinRows
<1> QED BY <1>6, <1>7

LEMMA RevisingShows ==
    ASSUME NEW W \in [Rows -> Record], NEW x, NEW m, NEW G, NEW N, Revises(W, x, m, G, N)
    PROVE  \A k \in Kinds \ {Kind[x]} : LiveNames(N, k) = LiveNames(W, k)
<1>1. ASSUME NEW k \in Kinds \ {Kind[x]} PROVE LiveNames(N, k) = LiveNames(W, k)
    <2>1. \A y \in Of(k) : y \in Rows /\ y # x
        BY <1>1 DEF Of
    <2>2. \A y \in Of(k) : N[y] = W[y]
        BY <2>1, RevisedRows
    <2>3. {y \in Of(k) : N[y].life = "live"} = {y \in Of(k) : W[y].life = "live"}
        BY <2>2
    <2> QED BY <2>2, <2>3 DEF LiveNames
<1> QED BY <1>1

LEMMA ToKind ==
    ASSUME NEW k, NEW r \in Record, InColumns(k, r.refs), NEW role, NEW s \in To(r, role)
    PROVE  Kind[s] = Target(role) /\ s \in Rows /\ role \in Roles(k)
<1>1. <<role, s>> \in r.refs
    BY ToRefs
<1>2. Kind[<<role, s>>[2]] = Target(<<role, s>>[1]) /\ <<role, s>>[1] \in Roles(k)
    BY <1>1 DEF InColumns
<1>3. <<role, s>>[2] \in Rows
    BY <1>1, RefPairs
<1> QED BY <1>2, <1>3

Parental == {"state", "city", "subcategory"}

LEMMA RevisingDisagrees ==
    ASSUME NEW W \in [Rows -> Record], NEW x, NEW m, NEW G, NEW N, Revises(W, x, m, G, N),
           \A y \in Kept(W) : InColumns(Kind[y], W[y].refs), InColumns(Kind[x], m.refs),
           Kind[x] \in Parental => \A role : To(m, role) = To(W[x], role),
           Kind[x] \notin Parental => Agrees(W, Kind[x], m)
    PROVE  Disagreeing(N) \subseteq Disagreeing(W)
<1>1. SUFFICES ASSUME NEW y \in Disagreeing(N) PROVE y \in Disagreeing(W)
    OBVIOUS
<1>2. y \in Rows /\ N[y].life = "live" /\ ~Agrees(N, Kind[y], N[y])
    BY <1>1, DisagreeingRows
<1>3. W[y].life = "live" /\ y \in Kept(W) /\ N[y] \in Record /\ InColumns(Kind[y], N[y].refs)
    <2>1. W[y].life = "live" /\ N[y] \in Record
        BY <1>2, RevisedRows
    <2>2. y \in Kept(W)
        BY <1>2, <2>1 DEF Kept
    <2>3. InColumns(Kind[y], N[y].refs)
        <3>1. CASE y = x
            BY <3>1, RevisedRows
        <3>2. CASE y # x
            BY <1>2, <2>2, <3>2, RevisedRows
        <3> QED BY <3>1, <3>2
    <2> QED BY <2>1, <2>2, <2>3
<1>4. N[x] = m /\ \A z \in Rows : z # x => N[z] = W[z]
    BY RevisedRows
<1>5. CASE Kind[x] \in Parental
    <2>1. \A z \in Rows : \A role : To(N[z], role) = To(W[z], role)
        BY <1>4, <1>5
    <2>2. \A role : \A s \in To(N[y], role) : s \in Rows
        BY <1>3, ToKind
    <2>3. \A role : \A s \in To(W[y], role) : s \in Rows
        BY <1>2, <2>1, <2>2
    <2>4. \A role : To(N[y], role) = To(W[y], role)
        BY <1>2, <2>1
    <2>5. Agrees(W, Kind[y], W[y]) => Agrees(N, Kind[y], N[y])
        BY <2>1, <2>3, <2>4 DEF Agrees
    <2> QED BY <1>2, <1>3, <2>5, DisagreeingRows
<1>6. CASE Kind[x] \notin Parental
    <2>1. \A role \in {"state", "city", "subcategory"} : \A s \in To(N[y], role) : N[s] = W[s]
        <3>1. ASSUME NEW role \in {"state", "city", "subcategory"}, NEW s \in To(N[y], role) PROVE N[s] = W[s]
            <4>1. s \in Rows /\ Kind[s] = Target(role)
                BY <1>3, <3>1, ToKind
            <4>2. Kind[s] \in Parental
                BY <3>1, <4>1 DEF Target, Parental
            <4> QED BY <1>4, <1>6, <4>1, <4>2
        <3> QED BY <3>1
    <2>2. Agrees(N, Kind[y], N[y]) <=> Agrees(W, Kind[y], N[y])
        BY <2>1 DEF Agrees
    <2>3. y # x
        BY <1>2, <1>4, <1>6, <2>2
    <2> QED BY <1>2, <1>3, <1>4, <2>2, <2>3, DisagreeingRows
<1> QED BY <1>5, <1>6

(***************************************************************************)
(* What the checks amount to.                                              *)
(***************************************************************************)
Checks(k) == {"name"} \cup (IF k = "supplier" THEN {"city"} ELSE {})
FilesCheckNames == {"company", "product", "supplier", "buyer"}

LiveIn(W, r, roles) == \A p \in r.refs : p[1] \in roles => W[p[2]].life = "live"
GuardedOf(k) == {role \in Roles(k) : <<k, role>> \in Guarded}

(* Of create and update, ... *)
Checked(W, k, x, r, given) ==
    /\ LiveIn(W, r, given \cap GuardedOf(k))
    /\ k \notin Parental \/ Roles(k) \subseteq given => Agrees(W, k, r)
    /\ Checks(k) \cap given # {} => ~Claimed(W, x, r, SameName(k))
(* ... of the rows of a file, ... *)
Filable(W, k, x, r) ==
    /\ LiveIn(W, r, GuardedOf(k))
    /\ Agrees(W, k, r)
    /\ k \in FilesCheckNames => ~Claimed(W, x, r, SameName(k))
(* ... and of delete. *)
Spared(W, x) == \A y \in Rows : \A p \in W[y].refs :
    W[y].life = "live" /\ <<Kind[y], p[1]>> \in Guarded => p[2] # x

LEMMA TakenIsClaimed ==
    ASSUME NEW x, NEW r, NEW roles
    PROVE  Taken(x, r, roles) <=> Claimed(row, x, r, roles)
BY DEF Taken, Claimed, Kept, Of, Exists

LEMMA LiveInRows ==
    ASSUME NEW r, NEW roles, NEW some, AllLive(r, roles), some \subseteq roles
    PROVE  LiveIn(row, r, some)
BY DEF AllLive, LiveIn, Live

LEMMA GuardedHere ==
    /\ GuardedOf("state") = {"country"}
    /\ GuardedOf("city") = {"state"}
    /\ GuardedOf("subcategory") = {"category"}
    /\ GuardedOf("supplier") = {"product"}
    /\ GuardedOf("product") = {"category", "subcategory", "brand", "hsn", "uom"}
    /\ \A k \in Kinds \ {"state", "city", "subcategory", "supplier", "product"} : GuardedOf(k) = {}
<1>1. GuardedOf("state") = {"country"} /\ GuardedOf("city") = {"state"}
    BY GuardedRoles, RolesOf DEF GuardedOf
<1>2. GuardedOf("subcategory") = {"category"} /\ GuardedOf("supplier") = {"product"}
    BY GuardedRoles, RolesOf DEF GuardedOf
<1>3. GuardedOf("product") = {"category", "subcategory", "brand", "hsn", "uom"}
    BY GuardedRoles, RolesOf DEF GuardedOf
<1>4. \A k \in Kinds \ {"state", "city", "subcategory", "supplier", "product"} : GuardedOf(k) = {}
    BY GuardedRoles DEF GuardedOf
<1> QED BY <1>1, <1>2, <1>3, <1>4

LEMMA SameNameOf ==
    /\ SameName("state") = {"country"} /\ SameName("city") = {"state"}
    /\ SameName("subcategory") = {"category"} /\ SameName("supplier") = {"city"}
    /\ \A k \in Kinds \ {"state", "city", "subcategory", "supplier"} : SameName(k) = {}
BY DEF SameName, UniqueWithin, Kinds

LEMMA NoRole ==
    ASSUME NEW k, NEW r \in Record, InColumns(k, r.refs), NEW role, role \notin Roles(k)
    PROVE  To(r, role) = {}
<1>1. ASSUME NEW s \in To(r, role) PROVE FALSE
    BY <1>1, ToKind
<1> QED BY <1>1

LEMMA PlainAgrees ==
    ASSUME NEW W, NEW k \in Kinds \ {"city", "supplier", "product"}, NEW r \in Record, InColumns(k, r.refs)
    PROVE  Agrees(W, k, r)
<1>1. "state" \notin Roles(k) /\ "city" \notin Roles(k)
    BY RolesOf
<1>2. To(r, "state") = {} /\ To(r, "city") = {}
    BY <1>1, NoRole
<1> QED BY <1>2 DEF Agrees

(* Kinds that refer to nothing guarded and carry a name only. *)
LEMMA PlainChecks ==
    ASSUME NEW k \in Kinds \ {"state", "city", "subcategory", "supplier", "product"},
           NEW x, NEW r \in Record, InColumns(k, r.refs), NEW given,
           "name" \in given => ~Taken(x, r, {})
    PROVE  Checked(row, k, x, r, given)
<1>1. LiveIn(row, r, given \cap GuardedOf(k))
    BY GuardedHere DEF LiveIn
<1>2. Agrees(row, k, r)
    BY PlainAgrees
<1>3. Checks(k) = {"name"} /\ SameName(k) = {}
    BY SameNameOf DEF Checks
<1>4. Checks(k) \cap given # {} => ~Claimed(row, x, r, SameName(k))
    BY <1>3, TakenIsClaimed
<1> QED BY <1>1, <1>2, <1>4 DEF Checked

LEMMA PlainFiles ==
    ASSUME NEW k \in Kinds \ {"state", "city", "subcategory", "supplier", "product"},
           NEW x, NEW r \in Record, InColumns(k, r.refs), k \in FilesCheckNames => ~Taken(x, r, {})
    PROVE  Filable(row, k, x, r)
<1>1. LiveIn(row, r, GuardedOf(k))
    BY GuardedHere DEF LiveIn
<1>2. Agrees(row, k, r)
    BY PlainAgrees
<1>3. SameName(k) = {}
    BY SameNameOf
<1>4. k \in FilesCheckNames => ~Claimed(row, x, r, SameName(k))
    BY <1>3, TakenIsClaimed
<1> QED BY <1>1, <1>2, <1>4 DEF Filable

LEMMA CountryChecks ==
    ASSUME NEW x, NEW r \in Record, InColumns("country", r.refs), NEW given
    PROVE  CountryFits(x, r, given) => Checked(row, "country", x, r, given)
BY PlainChecks DEF CountryFits, NameFits, Kinds

LEMMA CategoryChecks ==
    ASSUME NEW x, NEW r \in Record, InColumns("category", r.refs), NEW given
    PROVE  CategoryFits(x, r, given) => Checked(row, "category", x, r, given)
BY PlainChecks DEF CategoryFits, NameFits, Kinds

LEMMA BrandChecks ==
    ASSUME NEW x, NEW r \in Record, InColumns("brand", r.refs), NEW given
    PROVE  BrandFits(x, r, given) => Checked(row, "brand", x, r, given)
BY PlainChecks DEF BrandFits, NameFits, Kinds

LEMMA HsnChecks ==
    ASSUME NEW x, NEW r \in Record, InColumns("hsn", r.refs), NEW given
    PROVE  HsnFits(x, r, given) => Checked(row, "hsn", x, r, given)
BY PlainChecks DEF HsnFits, NameFits, Kinds

LEMMA UomChecks ==
    ASSUME NEW x, NEW r \in Record, InColumns("uom", r.refs), NEW given
    PROVE  UomFits(x, r, given) => Checked(row, "uom", x, r, given)
BY PlainChecks DEF UomFits, NameFits, Kinds

LEMMA CurrencyChecks ==
    ASSUME NEW x, NEW r \in Record, InColumns("currency", r.refs), NEW given
    PROVE  CurrencyFits(x, r, given) => Checked(row, "currency", x, r, given)
BY PlainChecks DEF CurrencyFits, NameFits, Kinds

LEMMA SupplierTypeChecks ==
    ASSUME NEW x, NEW r \in Record, InColumns("supplierType", r.refs), NEW given
    PROVE  SupplierTypeFits(x, r, given) => Checked(row, "supplierType", x, r, given)
BY PlainChecks DEF SupplierTypeFits, NameFits, Kinds

LEMMA BuyerTypeChecks ==
    ASSUME NEW x, NEW r \in Record, InColumns("buyerType", r.refs), NEW given
    PROVE  BuyerTypeFits(x, r, given) => Checked(row, "buyerType", x, r, given)
BY PlainChecks DEF BuyerTypeFits, NameFits, Kinds

LEMMA CompanyChecks ==
    ASSUME NEW x, NEW r \in Record, InColumns("company", r.refs), NEW given
    PROVE  CompanyFits(x, r, given) => Checked(row, "company", x, r, given)
BY PlainChecks DEF CompanyFits, NameFits, Kinds

LEMMA StateChecks ==
    ASSUME NEW x, NEW r \in Record, InColumns("state", r.refs), NEW given
    PROVE  StateFits(x, r, given) => Checked(row, "state", x, r, given)
<1>1. SUFFICES ASSUME StateFits(x, r, given) PROVE Checked(row, "state", x, r, given)
    OBVIOUS
<1>2. LiveIn(row, r, given \cap GuardedOf("state"))
    BY <1>1, GuardedHere DEF StateFits, AllLive, LiveIn, Live
<1>3. Agrees(row, "state", r)
    BY PlainAgrees DEF Kinds
<1>4. Checks("state") \cap given # {} => ~Claimed(row, x, r, SameName("state"))
    BY <1>1, SameNameOf, TakenIsClaimed DEF Checks, StateFits, NameFits
<1> QED BY <1>2, <1>3, <1>4 DEF Checked

LEMMA CityChecks ==
    ASSUME NEW x, NEW r \in Record, InColumns("city", r.refs), NEW given
    PROVE  CityFits(x, r, given) => Checked(row, "city", x, r, given)
<1>1. SUFFICES ASSUME CityFits(x, r, given) PROVE Checked(row, "city", x, r, given)
    OBVIOUS
<1>2. LiveIn(row, r, given \cap GuardedOf("city"))
    BY <1>1, GuardedHere DEF CityFits, AllLive, LiveIn, Live
<1>3. ASSUME Roles("city") \subseteq given PROVE Agrees(row, "city", r)
    <2>1. \A s \in To(r, "state") : To(row[s], "country") = To(r, "country")
        BY <1>1, <1>3, RolesOf DEF CityFits
    <2>2. To(r, "city") = {}
        BY NoRole, RolesOf
    <2> QED BY <2>1, <2>2 DEF Agrees
<1>4. Checks("city") \cap given # {} => ~Claimed(row, x, r, SameName("city"))
    BY <1>1, SameNameOf, TakenIsClaimed DEF Checks, CityFits, NameFits
<1> QED BY <1>2, <1>3, <1>4 DEF Checked, Parental

LEMMA SubCategoryChecks ==
    ASSUME NEW x, NEW r \in Record, InColumns("subcategory", r.refs), NEW given
    PROVE  SubCategoryFits(x, r, given) => Checked(row, "subcategory", x, r, given)
<1>1. SUFFICES ASSUME SubCategoryFits(x, r, given) PROVE Checked(row, "subcategory", x, r, given)
    OBVIOUS
<1>2. LiveIn(row, r, given \cap GuardedOf("subcategory"))
    BY <1>1, GuardedHere DEF SubCategoryFits, AllLive, LiveIn, Live
<1>3. Agrees(row, "subcategory", r)
    BY PlainAgrees DEF Kinds
<1>4. Checks("subcategory") \cap given # {} => ~Claimed(row, x, r, SameName("subcategory"))
    BY <1>1, SameNameOf, TakenIsClaimed DEF Checks, SubCategoryFits, NameFits
<1> QED BY <1>2, <1>3, <1>4 DEF Checked

LEMMA ValidProduct ==
    ASSUME NEW r \in Record, InColumns("product", r.refs), NEW given, ValidReferences(r, given)
    PROVE  LiveIn(row, r, GuardedOf("product")) /\ Agrees(row, "product", r)
<1>1. LiveIn(row, r, GuardedOf("product"))
    BY DEF ValidReferences, AllLive, LiveIn, Live, GuardedOf
<1>2. To(r, "state") = {} /\ To(r, "city") = {}
    BY NoRole, RolesOf
<1>3. Agrees(row, "product", r)
    BY <1>2 DEF Agrees, ValidReferences
<1> QED BY <1>1, <1>3

LEMMA ProductChecks ==
    ASSUME NEW x, NEW r \in Record, InColumns("product", r.refs), NEW given
    PROVE  ProductFits(x, r, given) => Checked(row, "product", x, r, given)
<1>1. SUFFICES ASSUME ProductFits(x, r, given) PROVE Checked(row, "product", x, r, given)
    OBVIOUS
<1>2. LiveIn(row, r, GuardedOf("product")) /\ Agrees(row, "product", r)
    BY <1>1, ValidProduct DEF ProductFits
<1>3. LiveIn(row, r, given \cap GuardedOf("product"))
    BY <1>2 DEF LiveIn
<1>4. Checks("product") \cap given # {} => ~Claimed(row, x, r, SameName("product"))
    BY <1>1, SameNameOf, TakenIsClaimed DEF Checks, ProductFits, NameFits, Kinds
<1> QED BY <1>2, <1>3, <1>4 DEF Checked

LEMMA SupplierChecks ==
    ASSUME NEW x, NEW r \in Record, InColumns("supplier", r.refs), NEW given
    PROVE  SupplierFits(x, r, given) => Checked(row, "supplier", x, r, given)
<1>1. SUFFICES ASSUME SupplierFits(x, r, given) PROVE Checked(row, "supplier", x, r, given)
    OBVIOUS
<1>2. AllLive(r, given \cap Links("supplier"))
    BY <1>1 DEF SupplierFits
<1>3. "product" \in Links("supplier")
    BY DEF Links
<1>4. LiveIn(row, r, given \cap GuardedOf("supplier"))
    BY <1>2, <1>3, GuardedHere DEF AllLive, LiveIn, Live
<1>5. Agrees(row, "supplier", r)
    BY <1>1 DEF SupplierFits, GeographyFits, Agrees
<1>6. Checks("supplier") \cap given # {} => ~Claimed(row, x, r, SameName("supplier"))
    <2>1. {"name", "city"} \cap given # {} => ~Taken(x, r, {"city"})
        BY <1>1 DEF SupplierFits
    <2> QED BY <2>1, SameNameOf, TakenIsClaimed DEF Checks
<1> QED BY <1>4, <1>5, <1>6 DEF Checked

LEMMA BuyerChecks ==
    ASSUME NEW x, NEW r \in Record, InColumns("buyer", r.refs), NEW given
    PROVE  BuyerFits(x, r, given) => Checked(row, "buyer", x, r, given)
BY PlainChecks DEF BuyerFits, Kinds

LEMMA CountryFiles ==
    ASSUME NEW x, NEW r \in Record, InColumns("country", r.refs)
    PROVE  CountryImports(x, r) => Filable(row, "country", x, r)
BY PlainFiles DEF FilesCheckNames, Kinds

LEMMA CategoryFiles ==
    ASSUME NEW x, NEW r \in Record, InColumns("category", r.refs)
    PROVE  CategoryImports(x, r) => Filable(row, "category", x, r)
BY PlainFiles DEF FilesCheckNames, Kinds

LEMMA BrandFiles ==
    ASSUME NEW x, NEW r \in Record, InColumns("brand", r.refs)
    PROVE  BrandImports(x, r) => Filable(row, "brand", x, r)
BY PlainFiles DEF FilesCheckNames, Kinds

LEMMA HsnFiles ==
    ASSUME NEW x, NEW r \in Record, InColumns("hsn", r.refs)
    PROVE  HsnImports(x, r) => Filable(row, "hsn", x, r)
BY PlainFiles DEF FilesCheckNames, Kinds

LEMMA UomFiles ==
    ASSUME NEW x, NEW r \in Record, InColumns("uom", r.refs)
    PROVE  UomImports(x, r) => Filable(row, "uom", x, r)
BY PlainFiles DEF FilesCheckNames, Kinds

LEMMA CurrencyFiles ==
    ASSUME NEW x, NEW r \in Record, InColumns("currency", r.refs)
    PROVE  CurrencyImports(x, r) => Filable(row, "currency", x, r)
BY PlainFiles DEF FilesCheckNames, Kinds

LEMMA SupplierTypeFiles ==
    ASSUME NEW x, NEW r \in Record, InColumns("supplierType", r.refs)
    PROVE  SupplierTypeImports(x, r) => Filable(row, "supplierType", x, r)
BY PlainFiles DEF FilesCheckNames, Kinds

LEMMA BuyerTypeFiles ==
    ASSUME NEW x, NEW r \in Record, InColumns("buyerType", r.refs)
    PROVE  BuyerTypeImports(x, r) => Filable(row, "buyerType", x, r)
BY PlainFiles DEF FilesCheckNames, Kinds

LEMMA CompanyFiles ==
    ASSUME NEW x, NEW r \in Record, InColumns("company", r.refs)
    PROVE  CompanyImports(x, r) => Filable(row, "company", x, r)
BY PlainFiles DEF CompanyImports, Kinds

LEMMA BuyerFiles ==
    ASSUME NEW x, NEW r \in Record, InColumns("buyer", r.refs)
    PROVE  BuyerImports(x, r) => Filable(row, "buyer", x, r)
BY PlainFiles DEF BuyerImports, BuyerFits, Kinds

LEMMA StateFiles ==
    ASSUME NEW x, NEW r \in Record, InColumns("state", r.refs)
    PROVE  StateImports(x, r) => Filable(row, "state", x, r)
<1>1. StateImports(x, r) => LiveIn(row, r, GuardedOf("state"))
    BY GuardedHere DEF StateImports, AllLive, LiveIn, Live
<1> QED BY <1>1, PlainAgrees DEF Filable, FilesCheckNames, Kinds

LEMMA CityFiles ==
    ASSUME NEW x, NEW r \in Record, InColumns("city", r.refs)
    PROVE  CityImports(x, r) => Filable(row, "city", x, r)
<1>1. SUFFICES ASSUME CityImports(x, r) PROVE Filable(row, "city", x, r)
    OBVIOUS
<1>2. LiveIn(row, r, GuardedOf("city"))
    BY <1>1, GuardedHere DEF CityImports, AllLive, LiveIn, Live
<1>3. To(r, "city") = {}
    BY NoRole, RolesOf
<1>4. Agrees(row, "city", r)
    BY <1>1, <1>3 DEF Agrees, CityImports
<1> QED BY <1>2, <1>4 DEF Filable, FilesCheckNames

LEMMA SubCategoryFiles ==
    ASSUME NEW x, NEW r \in Record, InColumns("subcategory", r.refs)
    PROVE  SubCategoryImports(x, r) => Filable(row, "subcategory", x, r)
<1>1. SubCategoryImports(x, r) => LiveIn(row, r, GuardedOf("subcategory"))
    BY GuardedHere DEF SubCategoryImports, AllLive, LiveIn, Live
<1> QED BY <1>1, PlainAgrees DEF Filable, FilesCheckNames, Kinds

LEMMA ProductFiles ==
    ASSUME NEW x, NEW r \in Record, InColumns("product", r.refs)
    PROVE  ProductImports(x, r) => Filable(row, "product", x, r)
<1>1. SUFFICES ASSUME ProductImports(x, r) PROVE Filable(row, "product", x, r)
    OBVIOUS
<1>2. LiveIn(row, r, GuardedOf("product")) /\ Agrees(row, "product", r)
    BY <1>1, ValidProduct DEF ProductImports
<1>3. ~Claimed(row, x, r, SameName("product"))
    BY <1>1, SameNameOf, TakenIsClaimed DEF ProductImports, Kinds
<1> QED BY <1>2, <1>3 DEF Filable

LEMMA SupplierFiles ==
    ASSUME NEW x, NEW r \in Record, InColumns("supplier", r.refs)
    PROVE  SupplierImports(x, r) => Filable(row, "supplier", x, r)
<1>1. SUFFICES ASSUME SupplierImports(x, r) PROVE Filable(row, "supplier", x, r)
    OBVIOUS
<1>2. Checked(row, "supplier", x, r, Roles("supplier") \cup {"name"})
    BY <1>1, SupplierChecks DEF SupplierImports
<1>3. LiveIn(row, r, GuardedOf("supplier"))
    BY <1>2 DEF Checked, LiveIn, GuardedOf
<1>4. Agrees(row, "supplier", r)
    BY <1>2 DEF Checked, Parental
<1>5. ~Claimed(row, x, r, SameName("supplier"))
    BY <1>2 DEF Checked, Checks
<1> QED BY <1>3, <1>4, <1>5 DEF Filable

-----------------------------------------------------------------------------
LEMMA UnusedIsSpared ==
    ASSUME Proper(row), NEW x,
           \A k, role : <<k, role>> \in Guarded /\ Target(role) = Kind[x] => ~Used(x, k, role)
    PROVE  Spared(row, x)
<1>1. SUFFICES ASSUME NEW y \in Rows, NEW p \in row[y].refs, row[y].life = "live",
                      <<Kind[y], p[1]>> \in Guarded, p[2] = x
               PROVE  FALSE
    BY DEF Spared
<1>2. y \in Kept(row) /\ row[y] \in Record
    BY <1>1 DEF Kept, Proper
<1>3. Kind[p[2]] = Target(p[1])
    BY <1>2 DEF Proper, InColumns
<1>4. x \in To(row[y], p[1])
    BY <1>1, <1>2, RefPairs
<1>5. Used(x, Kind[y], p[1])
    BY <1>1, <1>4 DEF Used, Of, Live
<1> QED BY <1>1, <1>3, <1>5

LEMMA GuardedTargets ==
    ASSUME NEW k, NEW role, <<k, role>> \in Guarded
    PROVE  /\ Target(role) = role
           /\ \/ role = "country" /\ k = "state"
              \/ role = "state" /\ k = "city"
              \/ role = "category" /\ k \in {"subcategory", "product"}
              \/ role \in {"subcategory", "brand", "hsn", "uom"} /\ k = "product"
              \/ role = "product" /\ k = "supplier"
BY GuardedRoles DEF Target

LEMMA CountrySpares ==
    ASSUME Proper(row), NEW x \in Of("country")
    PROVE  CountryGoes(x) => Spared(row, x)
BY UnusedIsSpared, GuardedTargets DEF Of, CountryGoes, CountryInUse

LEMMA StateSpares ==
    ASSUME Proper(row), NEW x \in Of("state")
    PROVE  StateGoes(x) => Spared(row, x)
BY UnusedIsSpared, GuardedTargets DEF Of, StateGoes, StateInUse

LEMMA CitySpares ==
    ASSUME Proper(row), NEW x \in Of("city")
    PROVE  CityGoes(x) => Spared(row, x)
BY UnusedIsSpared, GuardedTargets DEF Of

LEMMA CategorySpares ==
    ASSUME Proper(row), NEW x \in Of("category")
    PROVE  CategoryGoes(x) => Spared(row, x)
BY UnusedIsSpared, GuardedTargets DEF Of, CategoryGoes, CategoryInUse

LEMMA SubCategorySpares ==
    ASSUME Proper(row), NEW x \in Of("subcategory")
    PROVE  SubCategoryGoes(x) => Spared(row, x)
BY UnusedIsSpared, GuardedTargets DEF Of, SubCategoryGoes, SubCategoryInUse

LEMMA BrandSpares ==
    ASSUME Proper(row), NEW x \in Of("brand")
    PROVE  BrandGoes(x) => Spared(row, x)
BY UnusedIsSpared, GuardedTargets DEF Of, BrandGoes, BrandInUse

LEMMA HsnSpares ==
    ASSUME Proper(row), NEW x \in Of("hsn")
    PROVE  HsnGoes(x) => Spared(row, x)
BY UnusedIsSpared, GuardedTargets DEF Of, HsnGoes, HsnInUse

LEMMA UomSpares ==
    ASSUME Proper(row), NEW x \in Of("uom")
    PROVE  UomGoes(x) => Spared(row, x)
BY UnusedIsSpared, GuardedTargets DEF Of, UomGoes, UomInUse

LEMMA CurrencySpares ==
    ASSUME Proper(row), NEW x \in Of("currency")
    PROVE  CurrencyGoes(x) => Spared(row, x)
BY UnusedIsSpared, GuardedTargets DEF Of

LEMMA SupplierTypeSpares ==
    ASSUME Proper(row), NEW x \in Of("supplierType")
    PROVE  SupplierTypeGoes(x) => Spared(row, x)
BY UnusedIsSpared, GuardedTargets DEF Of

LEMMA BuyerTypeSpares ==
    ASSUME Proper(row), NEW x \in Of("buyerType")
    PROVE  BuyerTypeGoes(x) => Spared(row, x)
BY UnusedIsSpared, GuardedTargets DEF Of

LEMMA CompanySpares ==
    ASSUME Proper(row), NEW x \in Of("company")
    PROVE  CompanyGoes(x) => Spared(row, x)
BY UnusedIsSpared, GuardedTargets DEF Of

LEMMA ProductSpares ==
    ASSUME Proper(row), NEW x \in Of("product")
    PROVE  ProductGoes(x) => Spared(row, x)
<1>1. ProductGoes(x) => ~Used(x, "supplier", "product")
    BY DEF ProductGoes, ProductInUse, Used, Live, Exists
<1> QED BY <1>1, UnusedIsSpared, GuardedTargets DEF Of

LEMMA SupplierSpares ==
    ASSUME Proper(row), NEW x \in Of("supplier")
    PROVE  SupplierGoes(x) => Spared(row, x)
BY UnusedIsSpared, GuardedTargets DEF Of

LEMMA BuyerSpares ==
    ASSUME Proper(row), NEW x \in Of("buyer")
    PROVE  BuyerGoes(x) => Spared(row, x)
BY UnusedIsSpared, GuardedTargets DEF Of

(***************************************************************************)
(* What each kind of request will write is harmless when it begins.        *)
(***************************************************************************)
Cleared(k) == [cache EXCEPT ![k] = None]

LEMMA ClearedShelf ==
    ASSUME NEW k \in Kinds, Shelf(cache)
    PROVE  \A j \in Kinds : Cleared(k)[j].dropdown => j # k /\ cache[j].dropdown
BY DEF Cleared, Shelf, None

LEMMA AddsHarmless ==
    ASSUME Proper(row), Shelf(cache), NEW k \in Kinds, NEW r, Adds(r),
           AddedTo(row, k, DOMAIN r.put, r.put),
           \A x \in DOMAIN r.put : LiveIn(row, r.put[x], GuardedOf(k)) /\ Agrees(row, k, r.put[x]),
           ChecksNames(r) =>
                /\ \A x \in DOMAIN r.put : ~Claimed(row, x, r.put[x], SameName(k))
                /\ \A x, y \in DOMAIN r.put : x # y => Fold[r.put[x].name] # Fold[r.put[y].name]
    PROVE  Worthy(r, row, Outcome(r)) /\ Shown(r, row, Outcome(r), Cleared(k))
<1> DEFINE S == DOMAIN r.put
           N == With(row, S, r.put)
<1>1. Outcome(r) = N
    BY DEF Outcome, With, Adds
<1>2. \A x \in S : \A p \in r.put[x].refs : <<k, p[1]>> \in Guarded => row[p[2]].life = "live"
    <2>1. SUFFICES ASSUME NEW x \in S, NEW p \in r.put[x].refs, <<k, p[1]>> \in Guarded PROVE row[p[2]].life = "live"
        OBVIOUS
    <2>2. Kind[x] = k /\ InColumns(Kind[x], r.put[x].refs)
        BY DEF AddedTo, Addable, Of
    <2>3. p[1] \in GuardedOf(k)
        BY <2>1, <2>2 DEF InColumns, GuardedOf
    <2> QED BY <2>3 DEF LiveIn
<1>3. Dangling(N) \subseteq Dangling(row)
    BY <1>2, AddingDangles
<1>4. Disagreeing(N) \subseteq Disagreeing(row)
    BY AddingDisagrees
<1>5. ChecksNames(r) => Twins(N) \subseteq Twins(row)
    BY AddingTwins
<1>6. /\ \A j \in Kinds \ {k} : LiveNames(N, j) = LiveNames(row, j)
      /\ \A x \in Kept(row) : N[x].primes = row[x].primes
    BY AddingShows
<1> HIDE DEF N
<1>7. Worthy(r, row, N)
    BY <1>3, <1>4, <1>5, <1>6 DEF Worthy
<1>8. Shown(r, row, N, Cleared(k))
    BY <1>6, ClearedShelf DEF Shown
<1> QED BY <1>1, <1>7, <1>8

LEMMA MergedRecord ==
    ASSUME NEW old \in Record, NEW r \in Record, NEW given
    PROVE  LET m == Merged(old, r, given) IN
           /\ m \in Record /\ m.life = old.life /\ m.primes = old.primes /\ m.copy = old.copy
           /\ m.refs = {p \in old.refs : p[1] \notin given} \cup {p \in r.refs : p[1] \in given}
           /\ m.name = IF "name" \in given THEN r.name ELSE old.name
<1> DEFINE S == {p \in old.refs : p[1] \notin given} \cup {p \in r.refs : p[1] \in given}
           n == IF "name" \in given THEN r.name ELSE old.name
           st == IF "status" \in given THEN r.status ELSE old.status
           w == IF "wanted" \in given THEN r.wanted ELSE old.wanted
           ph == IF "phone" \in given THEN r.phone ELSE old.phone
<1>1. S \in SUBSET (RoleNames \X Rows)
    BY DEF Record
<1>2. /\ n \in Names \cup {""} /\ st \in {"active", "inactive", "unset", "new", "existing"}
      /\ w \in BOOLEAN /\ ph \in {0, 1}
    BY DEF Record
<1>3. Merged(old, r, given) = [old EXCEPT !.refs = S, !.name = n, !.status = st, !.wanted = w, !.phone = ph]
    BY DEF Merged
<1> HIDE DEF S, n, st, w, ph
<1>4. PICK a \in Record : a = [old EXCEPT !.refs = S]
    BY ONLY <1>1, old \in Record DEF Record
<1>5. PICK b \in Record : b = [a EXCEPT !.name = n]
    BY ONLY <1>2, a \in Record DEF Record
<1>6. PICK c \in Record : c = [b EXCEPT !.status = st]
    BY ONLY <1>2, b \in Record DEF Record
<1>7. PICK d \in Record : d = [c EXCEPT !.wanted = w]
    BY ONLY <1>2, c \in Record DEF Record
<1>8. PICK m \in Record : m = [d EXCEPT !.phone = ph]
    BY ONLY <1>2, d \in Record DEF Record
<1>9. m.refs = S /\ m.name = n /\ m.life = old.life /\ m.primes = old.primes /\ m.copy = old.copy
    <2>0. \A z \in Record : DOMAIN z = {"life", "name", "refs", "status", "wanted", "primes", "phone", "copy"}
        BY DEF Record
    <2>1. a.refs = S /\ a.life = old.life /\ a.primes = old.primes /\ a.copy = old.copy
        BY <2>0, <1>4
    <2>2. b.refs = a.refs /\ b.name = n /\ b.life = a.life /\ b.primes = a.primes /\ b.copy = a.copy
        BY <2>0, <1>5
    <2>3. c.refs = b.refs /\ c.name = b.name /\ c.life = b.life /\ c.primes = b.primes /\ c.copy = b.copy
        BY <2>0, <1>6
    <2>4. d.refs = c.refs /\ d.name = c.name /\ d.life = c.life /\ d.primes = c.primes /\ d.copy = c.copy
        BY <2>0, <1>7
    <2>5. m.refs = d.refs /\ m.name = d.name /\ m.life = d.life /\ m.primes = d.primes /\ m.copy = d.copy
        BY <2>0, <1>8
    <2> QED BY <2>1, <2>2, <2>3, <2>4, <2>5
<1>10. m = Merged(old, r, given)
    BY <1>3, <1>4, <1>5, <1>6, <1>7, <1>8
<1> QED BY <1>9, <1>10 DEF S, n

LEMMA SyncedRecord ==
    ASSUME NEW old \in Record, NEW r \in Record, NEW request, request.primes \in Nat
    PROVE  LET m == ContactSynced(old, r, request) IN
           /\ m \in Record /\ m.life = old.life /\ m.refs = old.refs /\ m.name = old.name
           /\ m.primes = IF request.primes # 1 /\ "contact" \in request.given THEN old.primes + 1 ELSE old.primes
<1>1. CASE request.primes = 1
    <2> DEFINE c == IF "phone" \in request.given THEN r.phone ELSE 0
    <2>1. c \in {0, 1}
        BY DEF Record
    <2>2. ContactSynced(old, r, request) = [old EXCEPT !.copy = c]
        BY <1>1 DEF ContactSynced
    <2> HIDE DEF c
    <2>3. PICK m \in Record : m = [old EXCEPT !.copy = c]
        BY ONLY <2>1, old \in Record DEF Record
    <2>4. m.life = old.life /\ m.refs = old.refs /\ m.name = old.name /\ m.primes = old.primes
        BY <2>3 DEF Record
    <2> QED BY <1>1, <2>2, <2>3, <2>4
<1>2. CASE request.primes # 1 /\ "contact" \in request.given
    <2>1. r.phone \in {0, 1} /\ old.primes \in Nat
        BY DEF Record
    <2>2. PICK n \in Nat : n = old.primes + 1
        BY <2>1
    <2>3. PICK c \in {0, 1} : c = r.phone
        BY <2>1
    <2>4. ContactSynced(old, r, request) = [old EXCEPT !.primes = n, !.copy = c]
        BY <1>2, <2>2, <2>3 DEF ContactSynced
    <2>5. PICK m \in Record : m = [old EXCEPT !.primes = n, !.copy = c]
        BY ONLY n \in Nat, c \in {0, 1}, old \in Record DEF Record
    <2>6. m.life = old.life /\ m.refs = old.refs /\ m.name = old.name /\ m.primes = n
        BY <2>5 DEF Record
    <2> QED BY <1>2, <2>2, <2>4, <2>5, <2>6
<1>3. CASE request.primes # 1 /\ "contact" \notin request.given
    BY <1>3 DEF ContactSynced
<1> QED BY <1>1, <1>2, <1>3

(***************************************************************************)
(* An update writes m, alike the record r it was checked as.               *)
(***************************************************************************)
UpdateOf(W, x, r, given, request, m) ==
    /\ W[x].life = "live" /\ x \in Rows
    /\ m \in Record /\ m.life = "live"
    /\ m.refs = {p \in W[x].refs : p[1] \notin request.given} \cup {p \in r.refs : p[1] \in request.given}
    /\ m.name = IF "name" \in request.given THEN r.name ELSE W[x].name
    /\ r \in Record /\ InColumns(Kind[x], r.refs)
    /\ \A role \in Roles(Kind[x]) : role \in given \/ To(W[x], role) = To(r, role)
    /\ "name" \in given \/ r.name = W[x].name
    /\ request.given \ {"contact"} = given \ {"contact"}
    /\ Outcome(request) = [W EXCEPT ![x] = m]
    /\ request.at = x /\ request.op = "update"

LEMMA ContactIsNoRole ==
    ASSUME NEW k \in Kinds
    PROVE  "contact" \notin Roles(k) /\ "name" \notin Roles(k)
BY RolesOf

LEMMA UpdatedRecord ==
    ASSUME Proper(row), NEW x, NEW r, NEW given, NEW request, NEW m,
           UpdateOf(row, x, r, given, request, m)
    PROVE  /\ Revises(row, x, m, request.given, Outcome(request))
           /\ InColumns(Kind[x], m.refs)
           /\ m.name = r.name
           /\ \A role : To(m, role) = To(r, role)
<1> DEFINE G == request.given
           k == Kind[x]
<1>0. row \in [Rows -> Record] /\ x \in Rows /\ row[x].life = "live" /\ x \in Kept(row) /\ k \in Kinds
    BY RowsAssumption DEF Proper, UpdateOf, Kept
<1>1. /\ m \in Record /\ r \in Record /\ m.life = "live"
      /\ m.refs = {p \in row[x].refs : p[1] \notin G} \cup {p \in r.refs : p[1] \in G}
    BY DEF UpdateOf
<1>2. \A f : f # "contact" => (f \in G <=> f \in given)
    <2>1. G \ {"contact"} = given \ {"contact"}
        BY DEF UpdateOf
    <2> QED BY <2>1
<1>3. "name" \in G \/ m.name = row[x].name
    BY DEF UpdateOf
<1>4. m.name = r.name
    <2>1. "name" \in given <=> "name" \in G
        BY <1>2
    <2> QED BY <2>1 DEF UpdateOf
<1>5. Revises(row, x, m, G, Outcome(request))
    <2>1. \A p \in m.refs : p[1] \in G \/ p \in row[x].refs
        BY <1>1
    <2>2. \A p \in row[x].refs : p[1] \in G \/ p \in m.refs
        BY <1>1
    <2>3. Outcome(request) = [row EXCEPT ![x] = m]
        BY DEF UpdateOf
    <2> HIDE DEF G
    <2> QED BY <1>0, <1>1, <1>3, <2>1, <2>2, <2>3 DEF Revises
<1>6. InColumns(k, row[x].refs) /\ InColumns(k, r.refs)
    BY <1>0 DEF Proper, UpdateOf
<1>7. InColumns(k, m.refs)
    BY <1>1, <1>6 DEF InColumns
<1>8. ASSUME NEW role PROVE To(m, role) = To(r, role)
    <2>1. CASE role \in G
        <3>1. ASSUME NEW s PROVE s \in To(m, role) <=> s \in To(r, role)
            <4>1. <<role, s>> \in m.refs <=> <<role, s>> \in r.refs
                BY <1>1, <2>1
            <4> QED BY <1>1, <4>1, ToRefs
        <3> QED BY <3>1
    <2>2. CASE role \notin G /\ role \in Roles(k)
        <3>1. To(m, role) = To(row[x], role)
            BY <1>0, <1>5, <2>2, SameTo
        <3>2. role # "contact"
            BY <1>0, <2>2, ContactIsNoRole
        <3>3. role \notin given
            BY <1>2, <2>2, <3>2
        <3>4. To(row[x], role) = To(r, role)
            BY <2>2, <3>3 DEF UpdateOf
        <3> QED BY <3>1, <3>4
    <2>3. CASE role \notin Roles(k)
        BY <1>1, <1>6, <1>7, <2>3, NoRole
    <2> QED BY <2>1, <2>2, <2>3
<1> QED BY <1>4, <1>5, <1>7, <1>8

LEMMA UpdateHarmless ==
    ASSUME Proper(row), Shelf(cache), NEW x, NEW r, NEW given, NEW request, NEW m,
           UpdateOf(row, x, r, given, request, m), Checked(row, Kind[x], x, r, given),
           row[x].primes <= 1 => m.primes \in {row[x].primes, 1}
    PROVE  /\ Worthy(request, row, Outcome(request))
           /\ Shown(request, row, Outcome(request), Cleared(Kind[x]))
<1> DEFINE G == request.given
           k == Kind[x]
           N == Outcome(request)
<1>0. /\ row \in [Rows -> Record] /\ x \in Rows /\ k \in Kinds
      /\ \A y \in Kept(row) : InColumns(Kind[y], row[y].refs)
    BY RowsAssumption DEF Proper, UpdateOf
<1>1. /\ Revises(row, x, m, G, N) /\ InColumns(k, m.refs) /\ m.name = r.name
      /\ \A role : To(m, role) = To(r, role)
    BY UpdatedRecord
<1>2. \A f : f # "contact" => (f \in G <=> f \in given)
    <2>1. G \ {"contact"} = given \ {"contact"}
        BY DEF UpdateOf
    <2> QED BY <2>1
<1>3. m \in Record /\ r \in Record /\ request.at = x /\ request.op = "update"
    BY DEF UpdateOf
<1> HIDE DEF N
<1>4. Dangling(N) \subseteq Dangling(row)
    <2>1. ASSUME NEW p \in m.refs, p[1] \in G, <<k, p[1]>> \in Guarded PROVE row[p[2]].life = "live"
        <3>1. p[1] \in Roles(k)
            BY <1>1, <2>1 DEF InColumns
        <3>2. p[1] # "contact"
            BY <1>0, <3>1, ContactIsNoRole
        <3>3. p[1] \in given \cap GuardedOf(k)
            BY <1>2, <2>1, <3>1, <3>2 DEF GuardedOf
        <3>4. p \in r.refs
            <4>1. m.refs = {o \in row[x].refs : o[1] \notin G} \cup {o \in r.refs : o[1] \in G}
                BY DEF UpdateOf
            <4> QED BY <2>1, <4>1
        <3> QED BY <3>3, <3>4 DEF Checked, LiveIn
    <2> QED BY <1>0, <1>1, <2>1, RevisingDangles
<1>5. ~Moves(request) => Disagreeing(N) \subseteq Disagreeing(row)
    <2>1. SUFFICES ASSUME ~Moves(request) PROVE Disagreeing(N) \subseteq Disagreeing(row)
        OBVIOUS
    <2>2. k \in Parental => \A role : To(m, role) = To(row[x], role)
        <3>1. SUFFICES ASSUME k \in Parental, NEW role PROVE To(m, role) = To(row[x], role)
            OBVIOUS
        <3>2. G \ {"name"} = {}
            BY <1>3, <2>1, <3>1 DEF Moves, Parental
        <3>3. CASE role \notin G
            BY <1>0, <1>1, <3>3, SameTo
        <3>4. CASE role \in G
            <4>1. role = "name"
                BY <3>2, <3>4
            <4>2. role \notin Roles(k)
                BY <1>0, <4>1, ContactIsNoRole
            <4>3. InColumns(k, row[x].refs) /\ row[x] \in Record
                BY <1>0, <1>1 DEF Revises, Kept
            <4> QED BY <1>1, <1>3, <4>2, <4>3, NoRole
        <3> QED BY <3>3, <3>4
    <2>3. k \notin Parental => Agrees(row, k, m)
        BY <1>1 DEF Checked, Agrees
    <2> QED BY <1>0, <1>1, <2>2, <2>3, RevisingDisagrees
<1>6. ChecksNames(request) => Twins(N) \subseteq Twins(row)
    <2>1. SUFFICES ASSUME ChecksNames(request) PROVE Twins(N) \subseteq Twins(row)
        OBVIOUS
    <2>2. k = "supplier" \/ G \cap SameName(k) = {}
        BY <1>3, <2>1 DEF ChecksNames
    <2>3. Claimed(row, x, m, SameName(k)) <=> Claimed(row, x, r, SameName(k))
        BY <1>1 DEF Claimed, SameScope
    <2>4. ("name" \notin G /\ G \cap SameName(k) = {}) \/ Checks(k) \cap given # {}
        <3>1. CASE k = "supplier"
            BY <1>2, <3>1, SameNameOf DEF Checks
        <3>2. CASE k # "supplier"
            BY <1>2, <2>2, <3>2 DEF Checks
        <3> QED BY <3>1, <3>2
    <2>5. ("name" \notin G /\ G \cap SameName(k) = {}) \/ ~Claimed(row, x, m, SameName(k))
        BY <2>3, <2>4 DEF Checked
    <2> QED BY <1>0, <1>1, <2>5, RevisingTwins
<1>7. \A y \in Kept(row) : row[y].primes <= 1 => N[y].primes \in {row[y].primes, 1}
    BY <1>0, <1>1, RevisedRows DEF Kept
<1>8. Worthy(request, row, N)
    BY <1>4, <1>5, <1>6, <1>7 DEF Worthy
<1>9. Shown(request, row, N, Cleared(k))
    BY <1>0, <1>1, RevisingShows, ClearedShelf DEF Shown
<1> QED BY <1>8, <1>9 DEF N

(***************************************************************************)
(* The other requests.                                                     *)
(***************************************************************************)
LEMMA AlikeWorthy ==
    ASSUME Proper(row), NEW r, Alike(row, Outcome(r)), NEW C
    PROVE  Worthy(r, row, Outcome(r)) /\ Shown(r, row, Outcome(r), C)
<1>1. row \in [Rows -> Record] /\ ReferencesExist(row)
    BY DEF Proper
<1>2. PICK N : N = Outcome(r)
    OBVIOUS
<1>3. /\ Dangling(N) \subseteq Dangling(row) /\ Disagreeing(N) \subseteq Disagreeing(row)
      /\ Twins(N) \subseteq Twins(row)
      /\ \A x \in Kept(row) : N[x].primes = row[x].primes
      /\ \A k \in Kinds : LiveNames(N, k) = LiveNames(row, k)
    BY <1>1, <1>2, AlikeIsHarmless
<1>4. Worthy(r, row, N) /\ Shown(r, row, N, C)
    BY <1>3 DEF Worthy, Shown
<1> QED BY <1>2, <1>4

LEMMA SetHarmless ==
    ASSUME Proper(row), NEW r, r.op = "set", r.at \in Kept(row), r.put[r.at] \in Record, r.put[r.at].refs = {},
           r.given \subseteq {"wanted", "status"}, NEW C
    PROVE  Worthy(r, row, Outcome(r)) /\ Shown(r, row, Outcome(r), C)
<1> DEFINE x == r.at
           m == Merged(row[x], r.put[x], r.given)
<1>1. Outcome(r) = [row EXCEPT ![x] = m]
    BY DEF Outcome
<1>2. row \in [Rows -> Record] /\ x \in Rows /\ row[x] \in Record /\ InColumns(Kind[x], row[x].refs)
    BY DEF Proper, Kept
<1>3. /\ m.life = row[x].life /\ m.primes = row[x].primes
      /\ m.refs = {p \in row[x].refs : p[1] \notin r.given} \cup {p \in r.put[x].refs : p[1] \in r.given}
      /\ m.name = IF "name" \in r.given THEN r.put[x].name ELSE row[x].name
    BY <1>2, MergedRecord
<1> HIDE DEF m
<1>4. m.refs = row[x].refs /\ m.name = row[x].name
    <2>1. Kind[x] \in Kinds
        BY <1>2, RowsAssumption
    <2>2. \A p \in row[x].refs : p[1] \notin r.given
        <3>1. \A p \in row[x].refs : p[1] \in Roles(Kind[x])
            BY <1>2 DEF InColumns
        <3>2. "wanted" \notin Roles(Kind[x]) /\ "status" \notin Roles(Kind[x])
            BY <2>1, RolesOf
        <3> QED BY <3>1, <3>2
    <2> QED BY <1>3, <2>2
<1>5. Alike(row, Outcome(r))
    BY <1>1, <1>2, <1>3, <1>4 DEF Alike
<1> QED BY <1>5, AlikeWorthy

LEMMA ContactHarmless ==
    ASSUME Proper(row), NEW r, r.op = "contact", r.at \in Rows, NEW C
    PROVE  Worthy(r, row, Outcome(r)) /\ Shown(r, row, Outcome(r), C)
<1> DEFINE x == r.at
           m == [row[x] EXCEPT !.copy = 1]
<1>1. Outcome(r) = [row EXCEPT ![x] = m]
    BY DEF Outcome
<1>2. row \in [Rows -> Record] /\ x \in Rows /\ row[x] \in Record
    BY DEF Proper
<1>3. m.life = row[x].life /\ m.primes = row[x].primes /\ m.refs = row[x].refs /\ m.name = row[x].name
    <2>1. DOMAIN row[x] = {"life", "name", "refs", "status", "wanted", "primes", "phone", "copy"}
        BY <1>2 DEF Record
    <2> QED BY <2>1
<1> HIDE DEF m
<1>4. Alike(row, Outcome(r))
    BY <1>1, <1>2, <1>3 DEF Alike
<1> QED BY <1>4, AlikeWorthy

LEMMA DeleteHarmless ==
    ASSUME Proper(row), Shelf(cache), NEW r, r.op = "delete", r.at \in Kept(row), Spared(row, r.at)
    PROVE  Worthy(r, row, Outcome(r)) /\ Shown(r, row, Outcome(r), Cleared(Kind[r.at]))
<1>1. PICK N : N = Outcome(r)
    OBVIOUS
<1>2. Lives(row, r.at, "trashed", N)
    BY <1>1 DEF Outcome, Lives
<1>3. row \in [Rows -> Record] /\ Kind[r.at] \in Kinds
    BY RowsAssumption DEF Proper, Kept
<1>4. Dangling(N) \subseteq Dangling(row) /\ Disagreeing(N) \subseteq Disagreeing(row)
    BY <1>2, <1>3, TrashingIsHarmless DEF Spared
<1>5. /\ Twins(N) \subseteq Twins(row)
      /\ \A y \in Kept(row) : N[y].primes = row[y].primes
      /\ \A k \in Kinds \ {Kind[r.at]} : LiveNames(N, k) = LiveNames(row, k)
    BY <1>2, <1>3, LifeTwins
<1>6. Worthy(r, row, N)
    BY <1>4, <1>5 DEF Worthy
<1>7. Shown(r, row, N, Cleared(Kind[r.at]))
    BY <1>3, <1>5, ClearedShelf DEF Shown
<1> QED BY <1>1, <1>6, <1>7

LEMMA RestoreHarmless ==
    ASSUME Proper(row), NEW r, r.op = "restore", r.at \in Kept(row)
    PROVE  Worthy(r, row, Outcome(r)) /\ Shown(r, row, Outcome(r), [k \in Kinds |-> None])
<1>1. PICK N : N = Outcome(r)
    OBVIOUS
<1>2. Lives(row, r.at, "live", N)
    BY <1>1 DEF Outcome, Lives
<1>3. row \in [Rows -> Record]
    BY DEF Proper
<1>4. /\ Twins(N) \subseteq Twins(row)
      /\ \A y \in Kept(row) : N[y].primes = row[y].primes
    BY <1>2, <1>3, LifeTwins
<1>5. Worthy(r, row, N)
    BY <1>4 DEF Worthy, Moves
<1>6. Shown(r, row, N, [k \in Kinds |-> None])
    BY DEF Shown, None
<1> QED BY <1>1, <1>5, <1>6

LEMMA PurgingIsHarmless ==
    ASSUME Proper(row), NEW r, r.op \in {"hardDelete", "purge"}, MayPurge(r.gone),
           r.op = "purge" => \A x \in r.gone : row[x].life # "live", NEW C
    PROVE  Worthy(r, row, Outcome(r)) /\ Shown(r, row, Outcome(r), C)
<1> DEFINE N == Without(row, r.gone)
<1>1. Outcome(r) = N
    <2>1. CASE r.op = "hardDelete"
        BY <2>1 DEF Outcome, Without
    <2>2. CASE r.op = "purge"
        <3>1. \A y \in Rows : (y \in r.gone /\ ~Live(y)) <=> y \in r.gone
            BY <2>2 DEF Live
        <3>2. Outcome(r) = [y \in Rows |-> IF y \in r.gone /\ ~Live(y) THEN Gone ELSE row[y]]
            BY <2>2 DEF Outcome
        <3> QED BY <3>1, <3>2 DEF Without
    <2> QED BY <2>1, <2>2
<1>2. Unreferred(row, r.gone)
    BY DEF Unreferred, MayPurge
<1>3. row \in [Rows -> Record]
    BY DEF Proper
<1>4. /\ Dangling(N) \subseteq Dangling(row) /\ Disagreeing(N) \subseteq Disagreeing(row)
      /\ Twins(N) \subseteq Twins(row)
      /\ \A x \in Kept(row) : N[x].life # "purged" => N[x].primes = row[x].primes
      /\ r.op = "purge" => \A k \in Kinds : LiveNames(N, k) = LiveNames(row, k)
    BY <1>2, <1>3, RemovingIsHarmless
<1> HIDE DEF N
<1>5. Worthy(r, row, N) /\ Shown(r, row, N, C)
    BY <1>4 DEF Worthy, Shown
<1> QED BY <1>1, <1>5

(***************************************************************************)
(* A request that begins.                                                  *)
(***************************************************************************)
SameRequest(z, r) ==
    /\ z.op = r.op /\ z.at = r.at /\ z.put = r.put
    /\ z.given = r.given /\ z.gone = r.gone /\ z.primes = r.primes
    /\ DOMAIN z = DOMAIN r

LEMMA AloneOrNot ==
    ASSUME NEW r, DOMAIN r = {"op", "at", "put", "given", "gone", "primes", "alone"}, NEW b, NEW z,
           z = [r EXCEPT !.alone = b]
    PROVE  SameRequest(z, r) /\ z.alone = b
BY DEF SameRequest

LEMMA SameShape ==
    ASSUME NEW W, NEW r, NEW z, SameRequest(z, r), Shape(W, r), z.alone \in BOOLEAN
    PROVE  Shape(W, z)
BY DEF SameRequest, Shape

LEMMA SameOutcome ==
    ASSUME NEW r, NEW z, SameRequest(z, r)
    PROVE  /\ Outcome(z) = Outcome(r)
           /\ \A W, N : Worthy(z, W, N) <=> Worthy(r, W, N)
           /\ \A W, N, C : Shown(z, W, N, C) <=> Shown(r, W, N, C)
<1>1. Outcome(z) = Outcome(r)
    BY DEF SameRequest, Outcome
<1>2. Moves(z) <=> Moves(r)
    BY DEF SameRequest, Moves
<1>3. ChecksNames(z) <=> ChecksNames(r)
    BY DEF SameRequest, ChecksNames
<1>4. z.op = r.op
    BY DEF SameRequest
<1>5. \A W, N : Worthy(z, W, N) <=> Worthy(r, W, N)
    BY <1>2, <1>3, <1>4 DEF Worthy
<1>6. \A W, N, C : Shown(z, W, N, C) <=> Shown(r, W, N, C)
    BY <1>4 DEF Shown
<1> QED BY <1>1, <1>5, <1>6

LEMMA OutcomeOfSameRows ==
    ASSUME NEW z, row' = row
    PROVE  Outcome(z)' = Outcome(z)
BY DEF Outcome, Live

Settles(r, C) ==
    /\ r.op = "lookup" => r.put.names = LiveNames(row, r.at)
    /\ r.op # "lookup" => Worthy(r, row, Outcome(r)) /\ Shown(r, row, Outcome(r), C)

Opening(r, C) ==
    /\ r.op # "none"
    /\ Shape(row, r)
    /\ Adds(r) => \A x \in DOMAIN r.put : \A o \in Requests : x \notin DOMAIN req[o].put
    /\ r.op = "update" => r.primes = row[r.at].primes /\ r.primes <= 1
    /\ Settles(r, C)

Forgets(C) == DOMAIN C = Kinds /\ \A k \in Kinds : C[k].dropdown => C[k] = cache[k]

Opens(q) == Forgets(cache') /\ \E r : Begin(q, r) /\ Opening(r, cache')

LEMMA BegunRequests ==
    ASSUME IInv, NEW q \in Requests, req[q] = Idle, NEW r, Begin(q, r), Shape(row, r)
    PROVE  /\ SameRequest(req'[q], r) /\ Shape(row, req'[q])
           /\ req'[q].alone => \A o \in Requests : req[o] = Idle
           /\ \A o \in Requests \ {q} : SameRequest(req'[o], req[o]) /\ Shape(row, req'[o])
           /\ \A o \in Requests \ {q} : req[o] = Idle => req'[o] = Idle
           /\ \A o \in Requests \ {q} : req[o] # Idle => ~req'[o].alone
           /\ DOMAIN req' = Requests
<1>1. PICK quiet \in BOOLEAN : quiet = \A o \in Requests : req[o] = Idle
    OBVIOUS
<1>2. req' = [o \in Requests |->
                IF o = q THEN [r EXCEPT !.alone = quiet]
                ELSE IF req[o] = Idle THEN Idle ELSE [req[o] EXCEPT !.alone = FALSE]]
    BY <1>1 DEF Begin
<1>3. SameRequest(req'[q], r) /\ req'[q].alone = quiet
    <2>1. req'[q] = [r EXCEPT !.alone = quiet]
        BY <1>2
    <2> QED BY <2>1, AloneOrNot DEF Shape
<1>4. Shape(row, req'[q])
    BY <1>3, SameShape
<1>5. ASSUME NEW o \in Requests \ {q}, req[o] = Idle
      PROVE  SameRequest(req'[o], req[o]) /\ Shape(row, req'[o]) /\ req'[o] = Idle
    BY <1>2, <1>5 DEF SameRequest, IInv
<1>6. ASSUME NEW o \in Requests \ {q}, req[o] # Idle
      PROVE  SameRequest(req'[o], req[o]) /\ Shape(row, req'[o]) /\ req'[o].alone = FALSE
    <2>1. req'[o] = [req[o] EXCEPT !.alone = FALSE]
        BY <1>2, <1>6
    <2>2. Shape(row, req[o])
        BY DEF IInv
    <2>3. SameRequest(req'[o], req[o]) /\ req'[o].alone = FALSE
        BY <2>1, <2>2, AloneOrNot DEF Shape
    <2> QED BY <2>2, <2>3, SameShape
<1> QED BY <1>1, <1>2, <1>3, <1>4, <1>5, <1>6

LEMMA BeginCounts ==
    ASSUME IInv, NEW q \in Requests, req[q] = Idle, NEW r, Begin(q, r), Opening(r, cache')
    PROVE  Counted(row, req')
<1>1. SUFFICES ASSUME NEW x \in Rows PROVE row[x].primes + Cardinality(Adders(req', x)) <= Cardinality(Requests)
    BY DEF Counted
<1>2. /\ SameRequest(req'[q], r)
      /\ \A o \in Requests \ {q} : SameRequest(req'[o], req[o])
    BY BegunRequests DEF Opening
<1>3. /\ IsFiniteSet(Adders(req', x)) /\ Cardinality(Adders(req', x)) \in Nat
      /\ Cardinality(Requests) \in Nat /\ Cardinality(Adders(req', x)) <= Cardinality(Requests)
    <2>1. Adders(req', x) \subseteq Requests
        BY DEF Adders
    <2> QED BY <2>1, RequestsAssumption, FS_Subset, FS_CardinalityType
<1>4. row[x].primes + Cardinality(Adders(req, x)) <= Cardinality(Requests)
    BY DEF IInv, Counted
<1>5. CASE r.op = "update" /\ r.at = x /\ r.primes = 0
    <2>1. row[x].primes = 0
        BY <1>5 DEF Opening
    <2> QED BY <1>3, <2>1
<1>6. CASE ~(r.op = "update" /\ r.at = x /\ r.primes = 0)
    <2>1. q \notin Adders(req', x)
        BY <1>2, <1>6 DEF Adders, SameRequest
    <2>2. q \notin Adders(req, x)
        BY DEF Adders, Idle
    <2>3. \A o \in Requests \ {q} : o \in Adders(req', x) <=> o \in Adders(req, x)
        BY <1>2 DEF Adders, SameRequest
    <2>4. Adders(req', x) = Adders(req, x)
        BY <2>1, <2>2, <2>3 DEF Adders
    <2> QED BY <1>4, <2>4
<1> QED BY <1>5, <1>6

LEMMA BeginKeeps ==
    ASSUME IInv, NEW q \in Requests, req[q] = Idle, Opens(q)
    PROVE  IInv'
<1>1. PICK r : Begin(q, r) /\ Opening(r, cache')
    BY DEF Opens
<1>2. row' = row /\ Forgets(cache')
    BY <1>1 DEF Begin, Opens
<1>3. Shape(row, r) /\ r.op # "none"
    BY <1>1 DEF Opening
<1>4. /\ SameRequest(req'[q], r) /\ Shape(row, req'[q])
      /\ req'[q].alone => \A o \in Requests : req[o] = Idle
      /\ \A o \in Requests \ {q} : SameRequest(req'[o], req[o]) /\ Shape(row, req'[o])
      /\ \A o \in Requests \ {q} : req[o] = Idle => req'[o] = Idle
      /\ \A o \in Requests \ {q} : req[o] # Idle => ~req'[o].alone
      /\ DOMAIN req' = Requests
    BY <1>1, <1>3, BegunRequests
<1>5. Proper(row') /\ NamesDiffer(row')
    BY <1>2 DEF IInv
<1>6. \A o \in Requests : Shape(row', req'[o])
    BY <1>2, <1>4
<1>7. \A o \in Requests : req'[o].op = "none" => req'[o] = Idle
    BY <1>3, <1>4 DEF SameRequest, IInv
<1>8. Apart(req')
    <2>1. SUFFICES ASSUME NEW o \in Requests, NEW p \in Requests, o # p, Adds(req'[o]), Adds(req'[p])
                   PROVE  DOMAIN req'[o].put \cap DOMAIN req'[p].put = {}
        BY DEF Apart
    <2>2. \A u \in Requests \ {q} : DOMAIN req'[u].put = DOMAIN req[u].put /\ (Adds(req'[u]) <=> Adds(req[u]))
        BY <1>4 DEF SameRequest, Adds
    <2>3. DOMAIN req'[q].put = DOMAIN r.put /\ (Adds(req'[q]) <=> Adds(r))
        BY <1>4 DEF SameRequest, Adds
    <2>4. Adds(r) => \A u \in Requests : DOMAIN r.put \cap DOMAIN req[u].put = {}
        BY <1>1 DEF Opening
    <2>5. CASE o # q /\ p # q
        BY <2>1, <2>2, <2>5 DEF IInv, Apart
    <2>6. CASE o = q
        BY <2>1, <2>2, <2>3, <2>4, <2>6
    <2>7. CASE p = q
        BY <2>1, <2>2, <2>3, <2>4, <2>7
    <2> QED BY <2>5, <2>6, <2>7
<1>9. Counted(row', req')
    BY <1>1, <1>2, BeginCounts
<1>10. Shelf(cache')
    BY <1>2 DEF Forgets, Shelf, IInv
<1>11. ASSUME NEW o \in Requests, req'[o].alone, req'[o].op # "none" PROVE Harmless(o)'
    <2>1. o = q
        BY <1>4, <1>11 DEF Idle
    <2>2. \A p \in Requests \ {o} : req'[p].op = "none"
        BY <1>4, <1>11, <2>1 DEF Idle
    <2>3. PICK z : z = req'[o]
        OBVIOUS
    <2>4. SameRequest(z, r) /\ Settles(r, cache')
        BY <1>1, <1>4, <2>1, <2>3 DEF Opening
    <2>5. /\ z.op = "lookup" => z.put.names = LiveNames(row, z.at)
          /\ z.op # "lookup" => Worthy(z, row, Outcome(z)) /\ Shown(z, row, Outcome(z), cache')
        <3>1. z.op = r.op /\ z.put = r.put /\ z.at = r.at
            BY <2>4 DEF SameRequest
        <3>2. r.op = "lookup" => r.put.names = LiveNames(row, r.at)
            BY <2>4 DEF Settles
        <3>3. r.op # "lookup" => Worthy(r, row, Outcome(r)) /\ Shown(r, row, Outcome(r), cache')
            BY <2>4 DEF Settles
        <3> QED BY <2>4, <3>1, <3>2, <3>3, SameOutcome
    <2>6. Outcome(z)' = Outcome(z)
        BY <1>2, OutcomeOfSameRows
    <2> QED BY <1>2, <2>2, <2>3, <2>5, <2>6 DEF Harmless
<1> QED BY <1>4, <1>5, <1>6, <1>7, <1>8, <1>9, <1>10, <1>11 DEF IInv

(***************************************************************************)
(* A request that commits.                                                 *)
(***************************************************************************)
Extends(W, N, r) ==
    /\ N \in [Rows -> Record]
    /\ \A x \in Kept(N) : N[x].name \in Names /\ InColumns(Kind[x], N[x].refs)
    /\ \A x \in Rows : W[x].life # "unused" => N[x].life # "unused"
    /\ \A x \in Rows : W[x].life = "unused" => N[x] = W[x] \/ (Adds(r) /\ x \in DOMAIN r.put)
    /\ \A x \in Rows : \/ N[x].primes <= W[x].primes
                       \/ Adds(r) /\ x \in DOMAIN r.put /\ N[x].primes <= 1
                       \/ r.op = "update" /\ r.at = x /\ r.primes = 0 /\ N[x].primes = W[x].primes + 1

LEMMA OneRowExtends ==
    ASSUME NEW W, Proper(W), NEW r, NEW x \in Kept(W), NEW m \in Record, NEW N, N = [W EXCEPT ![x] = m],
           m.life \in {"live", "trashed"}, m.name \in Names, InColumns(Kind[x], m.refs),
           \/ m.primes <= W[x].primes
           \/ r.op = "update" /\ r.at = x /\ r.primes = 0 /\ m.primes = W[x].primes + 1
    PROVE  Extends(W, N, r)
<1>1. W \in [Rows -> Record] /\ x \in Rows /\ W[x].life \in {"live", "trashed"}
    BY DEF Proper, Kept
<1>2. N \in [Rows -> Record] /\ N[x] = m /\ \A y \in Rows : y # x => N[y] = W[y]
    BY <1>1
<1>3. \A y \in Kept(N) : N[y].name \in Names /\ InColumns(Kind[y], N[y].refs)
    <2>1. \A y \in Kept(N) : y = x \/ (y \in Kept(W) /\ N[y] = W[y])
        BY <1>2 DEF Kept
    <2> QED BY <1>2, <2>1 DEF Proper
<1>4. \A y \in Rows : W[y].primes \in Nat
    BY <1>1 DEF Record
<1>5. \A y \in Rows : \/ N[y].primes <= W[y].primes
                      \/ r.op = "update" /\ r.at = y /\ r.primes = 0 /\ N[y].primes = W[y].primes + 1
    BY <1>2, <1>4
<1>6. \A y \in Rows : W[y].life # "unused" => N[y].life # "unused"
    BY <1>1, <1>2
<1>7. \A y \in Rows : W[y].life = "unused" => N[y] = W[y]
    BY <1>1, <1>2
<1> QED BY <1>2, <1>3, <1>5, <1>6, <1>7 DEF Extends

LEMMA FieldOfRecord ==
    ASSUME NEW r \in Record
    PROVE  /\ \A c \in {0, 1} : LET m == [r EXCEPT !.copy = c] IN
                m \in Record /\ m.life = r.life /\ m.name = r.name /\ m.refs = r.refs /\ m.primes = r.primes
           /\ \A l \in {"live", "trashed"} : LET m == [r EXCEPT !.life = l] IN
                m \in Record /\ m.life = l /\ m.name = r.name /\ m.refs = r.refs /\ m.primes = r.primes
<1>0. DOMAIN r = {"life", "name", "refs", "status", "wanted", "primes", "phone", "copy"}
    BY DEF Record
<1>1. ASSUME NEW c \in {0, 1}
      PROVE  LET m == [r EXCEPT !.copy = c] IN
                m \in Record /\ m.life = r.life /\ m.name = r.name /\ m.refs = r.refs /\ m.primes = r.primes
    <2>1. PICK m \in Record : m = [r EXCEPT !.copy = c]
        BY ONLY r \in Record, c \in {0, 1} DEF Record
    <2> QED BY <1>0, <2>1
<1>2. ASSUME NEW l \in {"live", "trashed"}
      PROVE  LET m == [r EXCEPT !.life = l] IN
                m \in Record /\ m.life = l /\ m.name = r.name /\ m.refs = r.refs /\ m.primes = r.primes
    <2>1. PICK m \in Record : m = [r EXCEPT !.life = l]
        BY ONLY r \in Record, l \in {"live", "trashed"} DEF Record
    <2> QED BY <1>0, <2>1
<1> QED BY <1>1, <1>2

LEMMA GoneRecord == Gone \in Record /\ Gone.life = "purged" /\ Gone.primes = 0
<1>0. Blank \in Record
    BY DEF Blank, Record
<1>1. PICK b \in Record : b = Blank /\ b.primes = 0
    BY <1>0 DEF Blank
<1>2. Gone = [b EXCEPT !.life = "purged"]
    BY <1>1 DEF Gone
<1>3. PICK g \in Record : g = [b EXCEPT !.life = "purged"]
    BY ONLY b \in Record DEF Record
<1>4. DOMAIN b = {"life", "name", "refs", "status", "wanted", "primes", "phone", "copy"}
    BY DEF Record
<1> QED BY <1>1, <1>2, <1>3, <1>4

LEMMA OutcomeExtends ==
    ASSUME Proper(row), NEW r, Shape(row, r), r.op \notin {"none", "lookup"},
           r.op \in Writes => r.at \in Kept(row)
    PROVE  Extends(row, Outcome(r), r)
<1> DEFINE x == r.at
           N == Outcome(r)
<1>0. row \in [Rows -> Record] /\ \A y \in Rows : row[y].primes \in Nat
    BY DEF Proper, Record
<1>1. CASE Adds(r)
    <2>1. N = [y \in Rows |-> IF y \in DOMAIN r.put THEN r.put[y] ELSE row[y]]
        BY <1>1 DEF Outcome, Adds
    <2>2. \A y \in DOMAIN r.put : y \in Rows /\ row[y].life = "unused" /\ Addable(y, r.put[y])
        BY <1>1 DEF Shape, Adds
    <2>3. \A y \in Rows : /\ y \in DOMAIN r.put => N[y] = r.put[y] /\ row[y].life = "unused" /\ Addable(y, r.put[y])
                          /\ y \notin DOMAIN r.put => N[y] = row[y]
        BY <2>1, <2>2
    <2>4. N \in [Rows -> Record]
        BY <1>0, <2>1, <2>2 DEF Addable
    <2> HIDE DEF N
    <2>5. \A y \in Kept(N) : N[y].name \in Names /\ InColumns(Kind[y], N[y].refs)
        <3>1. \A y \in Kept(N) : y \in Rows /\ (y \in DOMAIN r.put \/ y \in Kept(row))
            BY <2>3 DEF Kept
        <3> QED BY <2>3, <3>1 DEF Proper, Addable
    <2>6. \A y \in Rows : N[y].primes <= row[y].primes \/ (y \in DOMAIN r.put /\ N[y].primes <= 1)
        BY <1>0, <2>3 DEF Addable
    <2>7. \A y \in Rows : row[y].life # "unused" => N[y].life # "unused"
        BY <2>3
    <2>8. \A y \in Rows : N[y] = row[y] \/ y \in DOMAIN r.put
        BY <2>3
    <2>9. Extends(row, N, r)
        BY <1>1, <2>4, <2>5, <2>6, <2>7, <2>8 DEF Extends
    <2> QED BY <2>9 DEF N
<1>2. CASE r.op \in {"update", "set"}
    <2>1. /\ x \in Kept(row) /\ x \in Rows /\ row[x] \in Record /\ row[x].life \in {"live", "trashed"}
          /\ row[x].name \in Names /\ InColumns(Kind[x], row[x].refs)
        BY <1>2 DEF Writes, Proper, Kept
    <2>2. /\ r.put[x] \in Record /\ InColumns(Kind[x], r.put[x].refs) /\ r.primes \in {0, 1}
          /\ "name" \in r.given => r.put[x].name \in Names
        BY <1>2 DEF Shape
    <2>3. PICK m \in Record : m = Merged(row[x], r.put[x], r.given)
        BY <2>1, <2>2, MergedRecord
    <2>4. /\ m.life = row[x].life /\ m.primes = row[x].primes
          /\ m.refs = {p \in row[x].refs : p[1] \notin r.given} \cup {p \in r.put[x].refs : p[1] \in r.given}
          /\ m.name = IF "name" \in r.given THEN r.put[x].name ELSE row[x].name
        BY <2>1, <2>2, <2>3, MergedRecord
    <2>5. m.name \in Names /\ InColumns(Kind[x], m.refs)
        BY <2>1, <2>2, <2>4 DEF InColumns
    <2>6. PICK n : n = ContactSynced(m, r.put[x], r)
        OBVIOUS
    <2>7. /\ n \in Record /\ n.life = m.life /\ n.refs = m.refs /\ n.name = m.name
          /\ n.primes = IF r.primes # 1 /\ "contact" \in r.given THEN m.primes + 1 ELSE m.primes
        <3>1. r.primes \in Nat
            BY <2>2
        <3> QED BY <2>2, <2>6, <3>1, SyncedRecord
    <2>8. CASE r.op = "update" /\ Kind[x] \in Parties
        <3>1. N = [row EXCEPT ![x] = n]
            <4>1. Outcome(r) = [row EXCEPT ![x] = ContactSynced(Merged(row[x], r.put[x], r.given), r.put[x], r)]
                BY <2>8 DEF Outcome
            <4> QED BY <2>3, <2>6, <4>1
        <3>2. n.primes <= row[x].primes \/ (r.primes = 0 /\ n.primes = row[x].primes + 1)
            BY <1>0, <2>1, <2>2, <2>4, <2>7
        <3>3. n \in Record /\ n.life \in {"live", "trashed"} /\ n.name \in Names /\ InColumns(Kind[x], n.refs)
            BY <2>1, <2>4, <2>5, <2>7
        <3>4. n.primes <= row[x].primes \/ (r.op = "update" /\ r.at = x /\ r.primes = 0 /\ n.primes = row[x].primes + 1)
            BY <2>8, <3>2
        <3> HIDE DEF N
        <3>5. Extends(row, N, r)
            BY <2>1, <3>1, <3>3, <3>4, OneRowExtends
        <3> QED BY <3>5 DEF N
    <2>9. CASE ~(r.op = "update" /\ Kind[x] \in Parties)
        <3>1. N = [row EXCEPT ![x] = m]
            BY <1>2, <2>3, <2>9 DEF Outcome
        <3>2. m.primes <= row[x].primes
            BY <1>0, <2>1, <2>4
        <3> HIDE DEF N
        <3> QED BY <2>1, <2>4, <2>5, <3>1, <3>2, OneRowExtends DEF N
    <2> QED BY <2>8, <2>9
<1>3. CASE r.op \in {"delete", "restore", "contact"}
    <2>1. /\ x \in Kept(row) /\ x \in Rows /\ row[x] \in Record /\ row[x].life \in {"live", "trashed"}
          /\ row[x].name \in Names /\ InColumns(Kind[x], row[x].refs)
        BY <1>3 DEF Writes, Proper, Kept
    <2>2. PICK m \in Record : N = [row EXCEPT ![x] = m] /\ m.life \in {"live", "trashed"} /\ m.name = row[x].name
                                /\ m.refs = row[x].refs /\ m.primes = row[x].primes
        <3>1. CASE r.op = "delete"
            BY <2>1, <3>1, FieldOfRecord DEF Outcome
        <3>2. CASE r.op = "restore"
            BY <2>1, <3>2, FieldOfRecord DEF Outcome
        <3>3. CASE r.op = "contact"
            BY <2>1, <3>3, FieldOfRecord DEF Outcome
        <3> QED BY <1>3, <3>1, <3>2, <3>3
    <2>3. m.primes <= row[x].primes
        BY <1>0, <2>1, <2>2
    <2> HIDE DEF N
    <2> QED BY <2>1, <2>2, <2>3, OneRowExtends DEF N
<1>4. CASE r.op \in {"hardDelete", "purge"}
    <2>1. \A y \in r.gone : row[y].life # "unused"
        BY <1>4 DEF Shape, Made
    <2>2. /\ N \in [Rows -> Record]
          /\ \A y \in Rows : N[y] = row[y] \/ (N[y] = Gone /\ y \in r.gone)
        <3>1. CASE r.op = "hardDelete"
            BY <1>0, <3>1, GoneRecord DEF Outcome
        <3>2. CASE r.op = "purge"
            BY <1>0, <3>2, GoneRecord DEF Outcome
        <3> QED BY <1>4, <3>1, <3>2
    <2> HIDE DEF N
    <2>3. \A y \in Kept(N) : y \in Kept(row) /\ N[y] = row[y]
        BY <2>2, GoneRecord DEF Kept
    <2>4. \A y \in Kept(N) : N[y].name \in Names /\ InColumns(Kind[y], N[y].refs)
        BY <2>3 DEF Proper
    <2>5. \A y \in Rows : N[y].primes <= row[y].primes
        BY <1>0, <2>2, GoneRecord
    <2>6. \A y \in Rows : row[y].life # "unused" => N[y].life # "unused"
        BY <2>2, GoneRecord
    <2>7. \A y \in Rows : row[y].life = "unused" => N[y] = row[y]
        BY <2>1, <2>2
    <2>8. Extends(row, N, r)
        BY <2>2, <2>4, <2>5, <2>6, <2>7 DEF Extends
    <2> QED BY <2>8 DEF N
<1> QED BY <1>1, <1>2, <1>3, <1>4 DEF Shape, Adds

LEMMA StillShaped ==
    ASSUME NEW W, NEW N, NEW r, Extends(W, N, r), NEW z, Shape(W, z),
           Adds(r) /\ Adds(z) => DOMAIN r.put \cap DOMAIN z.put = {}
    PROVE  Shape(N, z)
<1>1. \A x : Made(W, x) => Made(N, x)
    BY DEF Made, Extends
<1>2. ASSUME Adds(z), NEW x \in DOMAIN z.put
      PROVE  x \in Rows /\ N[x].life = "unused" /\ Addable(x, z.put[x])
    <2>1. x \in Rows /\ W[x].life = "unused" /\ Addable(x, z.put[x])
        BY <1>2 DEF Shape, Adds
    <2>2. ~(Adds(r) /\ x \in DOMAIN r.put)
        BY <1>2
    <2> QED BY <2>1, <2>2 DEF Extends
<1>3. Adds(z) <=> z.op \in {"create", "import"}
    BY DEF Adds
<1> QED BY <1>1, <1>2, <1>3 DEF Shape

LEMMA EndsCounted ==
    ASSUME IInv, NEW q \in Requests, NEW N, N = row \/ Extends(row, N, req[q]),
           req' = [req EXCEPT ![q] = Idle]
    PROVE  Counted(N, req')
<1>1. SUFFICES ASSUME NEW x \in Rows PROVE N[x].primes + Cardinality(Adders(req', x)) <= Cardinality(Requests)
    BY DEF Counted
<1>2. row[x].primes + Cardinality(Adders(req, x)) <= Cardinality(Requests) /\ row[x].primes \in Nat
    BY DEF IInv, Counted, Proper, Record
<1>3. \A o \in Requests : req'[o] = IF o = q THEN Idle ELSE req[o]
    BY DEF IInv
<1>4. Adders(req', x) = Adders(req, x) \ {q}
    <2>1. Idle.op # "update"
        BY DEF Idle
    <2> QED BY <1>3, <2>1 DEF Adders
<1>5. /\ IsFiniteSet(Adders(req, x)) /\ Cardinality(Adders(req, x)) \in Nat /\ Cardinality(Requests) \in Nat
    <2>1. Adders(req, x) \subseteq Requests
        BY DEF Adders
    <2> QED BY <2>1, RequestsAssumption, FS_Subset, FS_CardinalityType
<1>6. /\ Cardinality(Adders(req', x)) \in Nat
      /\ Cardinality(Adders(req', x)) = IF q \in Adders(req, x) THEN Cardinality(Adders(req, x)) - 1
                                        ELSE Cardinality(Adders(req, x))
    <2>1. PICK S : S = Adders(req, x)
        OBVIOUS
    <2>2. IsFiniteSet(S)
        BY <1>5, <2>1
    <2>3. /\ IsFiniteSet(S \ {q})
          /\ Cardinality(S \ {q}) = IF q \in S THEN Cardinality(S) - 1 ELSE Cardinality(S)
        BY ONLY <2>2, FS_RemoveElement
    <2>4. Cardinality(S \ {q}) \in Nat
        BY <2>3, FS_CardinalityType
    <2> QED BY <1>4, <2>1, <2>3, <2>4
<1>7. CASE N[x].primes <= row[x].primes
    <2>1. N[x].primes \in Nat
        <3>1. N \in [Rows -> Record]
            BY DEF IInv, Proper, Extends
        <3> QED BY <3>1 DEF Record
    <2> QED BY <1>2, <1>5, <1>6, <1>7, <2>1
<1>8. CASE Extends(row, N, req[q]) /\ Adds(req[q]) /\ x \in DOMAIN req[q].put /\ N[x].primes <= 1
    <2>1. N[x].primes \in Nat
        BY <1>8 DEF Extends, Record
    <2>2. row[x].life = "unused"
        BY <1>8 DEF IInv, Shape, Adds
    <2>3. ASSUME NEW o \in Adders(req, x) PROVE FALSE
        <3>1. o \in Requests /\ req[o].op = "update" /\ req[o].at = x
            BY <2>3 DEF Adders
        <3>2. Made(row, x)
            BY <3>1 DEF IInv, Shape, Writes
        <3> QED BY <2>2, <3>2 DEF Made
    <2>4. Adders(req', x) = {}
        BY <1>4, <2>3
    <2>5. Cardinality(Adders(req', x)) = 0
        BY <2>4, FS_EmptySet
    <2>6. Cardinality(Requests) # 0
        BY RequestsAssumption, FS_EmptySet
    <2> QED BY <1>5, <1>8, <2>1, <2>5, <2>6
<1>9. CASE Extends(row, N, req[q]) /\ req[q].op = "update" /\ req[q].at = x /\ req[q].primes = 0
            /\ N[x].primes = row[x].primes + 1
    <2>1. q \in Adders(req, x)
        BY <1>9 DEF Adders
    <2> QED BY <1>2, <1>5, <1>6, <1>9, <2>1
<1>10. row[x].primes <= row[x].primes
    BY <1>2
<1> QED BY <1>7, <1>8, <1>9, <1>10 DEF Extends

LEMMA EndKeeps ==
    ASSUME IInv, NEW q \in Requests, req[q].op # "none", req' = [req EXCEPT ![q] = Idle],
           row' = row \/ (Extends(row, row', req[q]) /\ DbHolds(row')),
           Shelf(cache')
    PROVE  IInv'
<1>1. DOMAIN req' = Requests /\ \A o \in Requests : req'[o] = IF o = q THEN Idle ELSE req[o]
    BY DEF IInv
<1>2. Proper(row') /\ NamesDiffer(row')
    BY DEF IInv, Proper, Extends, DbHolds
<1>3. \A o \in Requests : Shape(row', req'[o])
    <2>1. Shape(row', Idle)
        BY DEF Shape, Idle, Writes
    <2>2. ASSUME NEW o \in Requests \ {q} PROVE Shape(row', req[o])
        <3>1. Shape(row, req[o])
            BY DEF IInv
        <3>2. Adds(req[q]) /\ Adds(req[o]) => DOMAIN req[q].put \cap DOMAIN req[o].put = {}
            BY DEF IInv, Apart
        <3> QED BY <3>1, <3>2, StillShaped
    <2> QED BY <1>1, <2>1, <2>2
<1>4. \A o \in Requests : req'[o].op = "none" => req'[o] = Idle
    BY <1>1 DEF IInv
<1>5. Apart(req')
    BY <1>1 DEF IInv, Apart, Adds, Idle
<1>6. Counted(row', req')
    BY EndsCounted
<1>7. ASSUME NEW o \in Requests, req'[o].alone, req'[o].op # "none" PROVE FALSE
    <2>1. o # q /\ req'[o] = req[o]
        BY <1>1, <1>7 DEF Idle
    <2>2. Harmless(o)
        BY <1>7, <2>1 DEF IInv
    <2> QED BY <2>1, <2>2 DEF Harmless
<1> QED BY <1>1, <1>2, <1>3, <1>4, <1>5, <1>6, <1>7 DEF IInv

(***************************************************************************)
(* What a commit leaves: the rows as they were, or the outcome when the    *)
(* database takes it.                                                      *)
(***************************************************************************)
LEMMA CommitWrites ==
    ASSUME IInv, NEW q \in Requests, Commit(q)
    PROVE  /\ \/ row' = row
              \/ row' = Outcome(req[q]) /\ DbHolds(row') /\ Extends(row, row', req[q])
           /\ req[q].op \notin {"none", "lookup"}
           /\ req' = [req EXCEPT ![q] = Idle] /\ cache' = cache
<1>1. row' = IF DbHolds(Outcome(req[q])) /\ (req[q].op \in Writes => Exists(req[q].at))
             THEN Outcome(req[q]) ELSE row
    BY DEF Commit
<1>2. req[q].op \notin {"none", "lookup"} /\ req' = [req EXCEPT ![q] = Idle] /\ cache' = cache
    BY DEF Commit
<1>3. ASSUME DbHolds(Outcome(req[q])), req[q].op \in Writes => Exists(req[q].at)
      PROVE  Extends(row, Outcome(req[q]), req[q])
    <2>1. Proper(row) /\ Shape(row, req[q])
        BY DEF IInv
    <2>2. req[q].op \in Writes => req[q].at \in Kept(row)
        BY <1>3, <2>1 DEF Shape, Made, Exists, Kept
    <2> QED BY <1>2, <2>1, <2>2, OutcomeExtends
<1> QED BY <1>1, <1>2, <1>3

LEMMA CommitKeeps ==
    ASSUME IInv, NEW q \in Requests, Commit(q)
    PROVE  IInv'
<1>1. /\ row' = row \/ (Extends(row, row', req[q]) /\ DbHolds(row'))
      /\ req[q].op # "none"
      /\ req' = [req EXCEPT ![q] = Idle] /\ cache' = cache
    BY CommitWrites
<1>2. Shelf(cache')
    BY <1>1 DEF IInv
<1> QED BY <1>1, <1>2, EndKeeps

LEMMA StoreLookupKeeps ==
    ASSUME IInv, NEW q \in Requests, StoreLookup(q)
    PROVE  IInv'
<1>1. /\ req[q].op = "lookup" /\ req' = [req EXCEPT ![q] = Idle] /\ row' = row
      /\ cache' = [cache EXCEPT ![req[q].at] = req[q].put]
    BY DEF StoreLookup
<1>2. req[q].at \in Kinds /\ DOMAIN req[q].put.names \subseteq Of(req[q].at)
    BY <1>1 DEF IInv, Shape
<1>3. DOMAIN cache = Kinds /\ \A k \in Kinds : cache[k].dropdown => DOMAIN cache[k].names \subseteq Of(k)
    BY DEF IInv, Shelf
<1>4. \A k \in Kinds : cache'[k] = IF k = req[q].at THEN req[q].put ELSE cache[k]
    BY <1>1, <1>3
<1>5. Shelf(cache')
    BY <1>1, <1>2, <1>3, <1>4 DEF Shelf
<1> QED BY <1>1, <1>5, EndKeeps

LEMMA ForgettingKeeps ==
    ASSUME IInv, Forgets(cache'), row' = row, req' = req
    PROVE  IInv'
<1>1. Shelf(cache')
    BY DEF IInv, Shelf, Forgets
<1>2. ASSUME NEW q \in Requests, req'[q].alone, req'[q].op # "none" PROVE Harmless(q)'
    <2>1. Harmless(q)
        BY <1>2 DEF IInv
    <2>2. PICK z : z = req[q]
        OBVIOUS
    <2>3. Shown(z, row, Outcome(z), cache) => Shown(z, row, Outcome(z), cache')
        BY DEF Shown, Forgets
    <2>4. Outcome(z)' = Outcome(z)
        BY OutcomeOfSameRows
    <2> QED BY <2>1, <2>2, <2>3, <2>4 DEF Harmless
<1>3. Proper(row') /\ NamesDiffer(row') /\ DOMAIN req' = Requests /\ Apart(req') /\ Counted(row', req')
    BY DEF IInv
<1>4. /\ \A q \in Requests : Shape(row', req'[q])
      /\ \A q \in Requests : req'[q].op = "none" => req'[q] = Idle
    BY DEF IInv
<1> QED BY <1>1, <1>2, <1>3, <1>4 DEF IInv

LEMMA OthersKeep ==
    ASSUME IInv, Expire \/ Flush \/ UNCHANGED vars
    PROVE  IInv'
<1>1. row' = row /\ req' = req
    BY DEF Expire, Flush, vars
<1>2. DOMAIN cache = Kinds
    BY DEF IInv, Shelf
<1>3. CASE Expire
    <2>1. PICK k \in Kinds : cache' = [cache EXCEPT ![k] = None]
        BY <1>3 DEF Expire
    <2>2. \A j \in Kinds : cache'[j] = IF j = k THEN None ELSE cache[j]
        BY <1>2, <2>1
    <2>3. Forgets(cache')
        BY <1>2, <2>1, <2>2 DEF Forgets, None
    <2> QED BY <1>1, <2>3, ForgettingKeeps
<1>4. CASE Flush
    <2>1. Forgets(cache')
        BY <1>4 DEF Flush, Forgets, None
    <2> QED BY <1>1, <2>1, ForgettingKeeps
<1>5. CASE UNCHANGED vars
    <2>1. Forgets(cache')
        BY <1>2, <1>5 DEF vars, Forgets
    <2> QED BY <1>1, <2>1, ForgettingKeeps
<1> QED BY <1>3, <1>4, <1>5

LEMMA BlankRecord ==
    /\ Blank \in Record /\ Blank.life = "unused" /\ Blank.primes = 0 /\ Blank.refs = {} /\ Blank.name = ""
    /\ DOMAIN Blank = {"life", "name", "refs", "status", "wanted", "primes", "phone", "copy"}
BY DEF Blank, Record

LEMMA InitIInv == Init => IInv
<1>1. SUFFICES ASSUME Init PROVE IInv
    OBVIOUS
<1>2. PICK s \in Scenes : row = Populated(s) /\ cache = [k \in Kinds |-> None] /\ req = [q \in Requests |-> Idle]
    BY <1>1 DEF Init
<1>3. /\ \A x \in Rows \cap DOMAIN s : s[x] # Blank =>
            s[x] \in Record /\ s[x].name \in Names /\ InColumns(Kind[x], s[x].refs) /\ s[x].primes <= 1
      /\ DbHolds(row)
    BY <1>2, ScenesAssumption
<1>4. \A x \in Rows : \/ row[x] = Blank
                      \/ row[x] \in Record /\ row[x].name \in Names /\ InColumns(Kind[x], row[x].refs) /\ row[x].primes <= 1
    BY <1>2, <1>3 DEF Populated
<1>5. Proper(row)
    <2>1. \A x \in Rows : row[x] \in Record
        BY <1>4, BlankRecord
    <2>2. row = [x \in Rows |-> row[x]]
        BY <1>2 DEF Populated
    <2>3. row \in [Rows -> Record]
        BY <2>1, <2>2
    <2>4. \A x \in Kept(row) : row[x].name \in Names /\ InColumns(Kind[x], row[x].refs)
        BY <1>4, BlankRecord DEF Kept
    <2> QED BY <1>3, <2>3, <2>4 DEF Proper, DbHolds
<1>6. DOMAIN req = Requests /\ \A q \in Requests : req[q] = Idle
    BY <1>2
<1>7. Shape(row, Idle)
    BY DEF Shape, Idle, Writes
<1>8. Counted(row, req)
    <2>1. SUFFICES ASSUME NEW x \in Rows PROVE row[x].primes + Cardinality(Adders(req, x)) <= Cardinality(Requests)
        BY DEF Counted
    <2>2. Adders(req, x) = {}
        BY <1>6 DEF Adders, Idle
    <2>3. Cardinality(Adders(req, x)) = 0
        BY <2>2, FS_EmptySet
    <2>4. Cardinality(Requests) \in Nat /\ Cardinality(Requests) # 0
        BY RequestsAssumption, FS_EmptySet, FS_CardinalityType
    <2>5. row[x].primes \in Nat
        BY <1>5 DEF Proper, Record
    <2>6. row[x].primes <= 1
        <3>1. CASE row[x] = Blank
            <4>1. row[x].primes = 0
                BY <3>1, BlankRecord
            <4> QED BY <4>1
        <3>2. CASE row[x] # Blank
            BY <1>4, <3>2
        <3> QED BY <3>1, <3>2
    <2> QED BY <2>3, <2>4, <2>5, <2>6
<1>9. Shelf(cache)
    BY <1>2 DEF Shelf, None
<1>10. Apart(req)
    BY <1>6 DEF Apart, Adds, Idle
<1>11. Idle.op = "none"
    BY DEF Idle
<1> QED BY <1>3, <1>5, <1>6, <1>7, <1>8, <1>9, <1>10, <1>11 DEF IInv, DbHolds

(***************************************************************************)
(* What clients send.                                                      *)
(***************************************************************************)
LEMMA RolesAreNamed == \A k \in Kinds : Roles(k) \subseteq RoleNames
BY RolesOf DEF RoleNames

LEMMA RefSetsTyped ==
    ASSUME NEW k \in Kinds, NEW S \in RefSets(k)
    PROVE  S \subseteq RoleNames \X Rows /\ InColumns(k, S) /\ \A p \in S : p[2] \in Kept(row)
<1>1. PICK M \in SUBSET Seen(Mandatory(k)) : \E T \in SUBSET Seen(Optional(k)), L \in SUBSET Seen(Links(k)) :
            S = M \cup T \cup L
    BY DEF RefSets
<1>2. PICK T \in SUBSET Seen(Optional(k)), L \in SUBSET Seen(Links(k)) : S = M \cup T \cup L
    BY <1>1
<1>3. ASSUME NEW roles, roles \subseteq Roles(k), NEW p \in Seen(roles)
      PROVE  p \in RoleNames \X Rows /\ p[1] \in Roles(k) /\ Kind[p[2]] = Target(p[1]) /\ p[2] \in Kept(row)
    <2>1. PICK role \in roles : p \in {role} \X {y \in Of(Target(role)) : Exists(y)}
        BY <1>3 DEF Seen
    <2>2. PICK y \in Of(Target(role)) : p = <<role, y>> /\ Exists(y)
        BY <2>1
    <2>3. role \in RoleNames /\ role \in Roles(k)
        BY <1>3, RolesAreNamed
    <2> QED BY <2>2, <2>3 DEF Of, Exists, Kept
<1>4. Mandatory(k) \subseteq Roles(k) /\ Optional(k) \subseteq Roles(k) /\ Links(k) \subseteq Roles(k)
    BY DEF Roles
<1>5. \A p \in S : p \in RoleNames \X Rows /\ p[1] \in Roles(k) /\ Kind[p[2]] = Target(p[1]) /\ p[2] \in Kept(row)
    BY <1>2, <1>3, <1>4
<1> QED BY <1>5 DEF InColumns

LEMMA StatusesOf == \A k \in Kinds : Statuses(k) \subseteq {"active", "inactive", "unset", "new", "existing"}
BY DEF Statuses

(* What a record given by a client is. *)
Sendable(k, r) ==
    /\ r \in Record /\ r.name \in Names
    /\ InColumns(k, r.refs) /\ \A p \in r.refs : p[2] \in Kept(row)

LEMMA RecordsTyped ==
    ASSUME NEW k \in Kinds, NEW r \in Records(k)
    PROVE  Sendable(k, r) /\ r.life = "live" /\ r.primes = 0
<1>1. PICK n \in Names, S \in RefSets(k), st \in Statuses(k), w \in Potentials(k, Blank.wanted) : r = Sent(n, S, st, w)
    BY DEF Records
<1>2. r = [life |-> "live", name |-> n, refs |-> S, status |-> st,
           wanted |-> w, primes |-> 0, phone |-> 0, copy |-> 0]
    BY <1>1 DEF Blank, Sent
<1>3. S \subseteq RoleNames \X Rows /\ InColumns(k, S) /\ \A p \in S : p[2] \in Kept(row)
    BY RefSetsTyped
<1>4. w \in BOOLEAN /\ st \in {"active", "inactive", "unset", "new", "existing"}
    <2>1. Blank.wanted \in BOOLEAN
        BY BlankRecord DEF Record
    <2> QED BY <2>1, StatusesOf DEF Potentials
<1>5. r \in Record
    BY <1>2, <1>3, <1>4 DEF Record
<1> QED BY <1>2, <1>3, <1>5 DEF Sendable

(* Records that differ in no reference and not in their names. *)
Namesake(k, r, s) ==
    /\ r \in Record /\ r.life = "live" /\ r.primes <= 1
    /\ r.name = s.name /\ r.refs = s.refs

LEMMA MirroredRecord ==
    ASSUME NEW k, NEW s \in Record, s.life = "live", s.primes = 0, NEW contact \in BOOLEAN
    PROVE  Namesake(k, Mirrored(s, contact), s)
<1>0. DOMAIN s = {"life", "name", "refs", "status", "wanted", "primes", "phone", "copy"}
    BY DEF Record
<1>1. PICK a \in Record : a = [s EXCEPT !.phone = 1]
    BY ONLY s \in Record DEF Record
<1>2. PICK b \in Record : b = [a EXCEPT !.primes = 1]
    BY ONLY a \in Record DEF Record
<1>3. PICK c \in Record : c = [b EXCEPT !.copy = 1]
    BY ONLY b \in Record DEF Record
<1>4. DOMAIN a = DOMAIN s /\ DOMAIN b = DOMAIN s
    BY <1>1, <1>2
<1>5. c = [s EXCEPT !.phone = 1, !.primes = 1, !.copy = 1]
    BY <1>1, <1>2, <1>3
<1>6. c.life = "live" /\ c.primes = 1 /\ c.name = s.name /\ c.refs = s.refs
    BY <1>0, <1>1, <1>2, <1>3, <1>4
<1>7. Mirrored(s, contact) = IF contact THEN c ELSE s
    BY <1>5 DEF Mirrored
<1> QED BY <1>6, <1>7 DEF Namesake

LEMMA FiledRecord ==
    ASSUME NEW k, NEW s \in Record, s.life = "live", s.primes = 0, NEW contact \in BOOLEAN
    PROVE  Namesake(k, Filed(k, s, contact), s)
<1>1. PICK m \in Record : m = Mirrored(s, contact) /\ Namesake(k, m, s)
    BY MirroredRecord DEF Namesake
<1>2. DOMAIN m = {"life", "name", "refs", "status", "wanted", "primes", "phone", "copy"}
    BY DEF Record
<1>3. PICK n \in Record : n = [m EXCEPT !.phone = 0]
    BY ONLY m \in Record DEF Record
<1>4. n.life = m.life /\ n.primes = m.primes /\ n.name = m.name /\ n.refs = m.refs
    BY <1>2, <1>3
<1>5. Filed(k, s, contact) = n \/ Filed(k, s, contact) = m
    BY <1>1, <1>3 DEF Filed
<1> QED BY <1>1, <1>4, <1>5 DEF Namesake

LEMMA PatchedTyped ==
    ASSUME NEW k \in Kinds, NEW r \in Record, NEW s \in Patched(k, r)
    PROVE  Sendable(k, s) /\ s.life = r.life
<1>1. PICK n \in Names, S \in RefSets(k), st \in Statuses(k) \cup {r.status},
           w \in Potentials(k, r.wanted), p \in Phones(k, r.phone) : s = Rewritten(r, n, S, st, w, p)
    BY DEF Patched
<1>2. S \subseteq RoleNames \X Rows /\ InColumns(k, S) /\ \A o \in S : o[2] \in Kept(row)
    BY RefSetsTyped
<1>3. r.wanted \in BOOLEAN /\ r.status \in {"active", "inactive", "unset", "new", "existing"} /\ r.phone \in {0, 1}
    BY DEF Record
<1>4. w \in BOOLEAN /\ st \in {"active", "inactive", "unset", "new", "existing"} /\ p \in {0, 1}
    BY <1>3, StatusesOf DEF Potentials, Phones
<1>5. PICK a \in Record : a = [r EXCEPT !.name = n]
    BY ONLY r \in Record, n \in Names DEF Record
<1>6. PICK b \in Record : b = [a EXCEPT !.refs = S]
    BY ONLY a \in Record, <1>2 DEF Record
<1>7. PICK c \in Record : c = [b EXCEPT !.status = st]
    BY ONLY b \in Record, <1>4 DEF Record
<1>8. PICK d \in Record : d = [c EXCEPT !.wanted = w]
    BY ONLY c \in Record, <1>4 DEF Record
<1>9. PICK e \in Record : e = [d EXCEPT !.phone = p]
    BY ONLY d \in Record, <1>4 DEF Record
<1>10. /\ DOMAIN r = {"life", "name", "refs", "status", "wanted", "primes", "phone", "copy"}
       /\ DOMAIN a = DOMAIN r /\ DOMAIN b = DOMAIN r /\ DOMAIN c = DOMAIN r /\ DOMAIN d = DOMAIN r
    BY DEF Record
<1>11. s = e
    BY <1>1, <1>5, <1>6, <1>7, <1>8, <1>9 DEF Rewritten
<1>12. e.life = r.life /\ e.name = n /\ e.refs = S
    BY <1>5, <1>6, <1>7, <1>8, <1>9, <1>10
<1> QED BY <1>2, <1>11, <1>12 DEF Sendable

(***************************************************************************)
(* Requests that open.                                                     *)
(***************************************************************************)
IsRequest(z, op, at, put, given, gone, primes) ==
    /\ DOMAIN z = {"op", "at", "put", "given", "gone", "primes", "alone"}
    /\ z.op = op /\ z.at = at /\ z.put = put /\ z.given = given /\ z.gone = gone /\ z.primes = primes
    /\ z.alone \in BOOLEAN

LEMMA RequestFields ==
    ASSUME NEW op, NEW at, NEW put, NEW given, NEW gone, NEW primes
    PROVE  /\ IsRequest([Idle EXCEPT !.op = op, !.at = at, !.put = put], op, at, put, {}, {}, 0)
           /\ IsRequest([Idle EXCEPT !.op = op, !.put = put], op, "none", put, {}, {}, 0)
           /\ IsRequest([Idle EXCEPT !.op = op, !.at = at, !.put = put, !.primes = primes, !.given = given],
                        op, at, put, given, {}, primes)
           /\ IsRequest([Idle EXCEPT !.op = op, !.at = at, !.put = put, !.given = given],
                        op, at, put, given, {}, 0)
           /\ IsRequest([Idle EXCEPT !.op = op, !.at = at], op, at, <<>>, {}, {}, 0)
           /\ IsRequest([Idle EXCEPT !.op = op, !.gone = gone], op, "none", <<>>, {}, gone, 0)
BY DEF IsRequest, Idle

LEMMA MutationOpens ==
    ASSUME IInv, NEW q, NEW k \in Kinds, NEW r, Mutates(q, k, r), Opening(r, Cleared(k))
    PROVE  Opens(q)
<1>1. Begin(q, r) /\ cache' = Cleared(k)
    BY DEF Mutates, Cleared
<1>2. DOMAIN cache = Kinds
    BY DEF IInv, Shelf
<1>3. \A j \in Kinds : Cleared(k)[j] = IF j = k THEN None ELSE cache[j]
    BY <1>2 DEF Cleared
<1>4. Forgets(Cleared(k))
    BY <1>2, <1>3 DEF Forgets, Cleared, None
<1> QED BY <1>1, <1>4 DEF Opens

LEMMA QuietOpens ==
    ASSUME IInv, NEW q, NEW r, Begin(q, r), UNCHANGED cache, Opening(r, cache)
    PROVE  Opens(q)
<1>1. Forgets(cache')
    BY DEF IInv, Shelf, Forgets
<1> QED BY <1>1 DEF Opens

(* Records to be added, each a namesake of one that passed the checks. *)
LEMMA AddingOpens ==
    ASSUME IInv, NEW q, NEW k \in Kinds, NEW S, S \subseteq {x \in Of(k) : Free(x)},
           NEW f, NEW g, DOMAIN g = S,
           \A x \in S : Sendable(k, f[x]) /\ Namesake(k, g[x], f[x]),
           \A x \in S : LiveIn(row, f[x], GuardedOf(k)) /\ Agrees(row, k, f[x]),
           NEW r, Mutates(q, k, r), r.op \in {"create", "import"}, NEW at, IsRequest(r, r.op, at, g, {}, {}, 0),
           ChecksNames(r) =>
                /\ \A x \in S : ~Claimed(row, x, f[x], SameName(k))
                /\ \A x, y \in S : x # y => Fold[f[x].name] # Fold[f[y].name]
    PROVE  Opens(q)
<1>1. Proper(row) /\ Shelf(cache)
    BY DEF IInv
<1>2. /\ r.put = g /\ Adds(r) /\ DOMAIN r.put = S
      /\ DOMAIN r = {"op", "at", "put", "given", "gone", "primes", "alone"} /\ r.alone \in BOOLEAN
    BY DEF IsRequest, Adds
<1>3. \A x \in S : x \in Rows /\ Kind[x] = k /\ row[x].life = "unused" /\ \A o \in Requests : x \notin DOMAIN req[o].put
    BY DEF Of, Free
<1>4. \A x \in S : g[x].refs = f[x].refs /\ g[x].name = f[x].name
    BY DEF Namesake
<1>5. \A x \in S : Addable(x, g[x]) /\ \A p \in g[x].refs : p[2] \in Kept(row)
    BY <1>3, <1>4 DEF Namesake, Sendable, Addable
<1>6. AddedTo(row, k, S, g)
    BY <1>3, <1>5 DEF AddedTo
<1>7. \A x \in S : \A role : To(g[x], role) = To(f[x], role)
    BY <1>4 DEF To
<1>8. \A x \in S : LiveIn(row, g[x], GuardedOf(k)) /\ Agrees(row, k, g[x])
    BY <1>4, <1>7 DEF LiveIn, Agrees
<1>9. ChecksNames(r) => /\ \A x \in S : ~Claimed(row, x, g[x], SameName(k))
                        /\ \A x, y \in S : x # y => Fold[g[x].name] # Fold[g[y].name]
    BY <1>4, <1>7 DEF Claimed, SameScope
<1>10. Worthy(r, row, Outcome(r)) /\ Shown(r, row, Outcome(r), Cleared(k))
    <2>1. AddedTo(row, k, DOMAIN r.put, r.put)
        BY <1>2, <1>6
    <2>2. \A x \in DOMAIN r.put : LiveIn(row, r.put[x], GuardedOf(k)) /\ Agrees(row, k, r.put[x])
        BY <1>2, <1>8
    <2>3. ChecksNames(r) =>
            /\ \A x \in DOMAIN r.put : ~Claimed(row, x, r.put[x], SameName(k))
            /\ \A x, y \in DOMAIN r.put : x # y => Fold[r.put[x].name] # Fold[r.put[y].name]
        BY <1>2, <1>9
    <2> QED BY <1>1, <1>2, <2>1, <2>2, <2>3, AddsHarmless
<1>11. Shape(row, r)
    BY <1>2, <1>3, <1>5 DEF Shape, Writes
<1>12. Opening(r, Cleared(k))
    BY <1>2, <1>3, <1>10, <1>11 DEF Opening, Settles
<1> QED BY <1>12, MutationOpens

LEMMA CreateOpens ==
    ASSUME IInv, NEW q, NEW k \in Kinds, NEW x \in Of(k), Free(x), NEW s \in Records(k), NEW contact \in Contacts(k),
           Checked(row, k, x, s, Roles(k) \cup {"name"}),
           Mutates(q, k, [Idle EXCEPT !.op = "create", !.at = x, !.put = [y \in {x} |-> Mirrored(s, contact)]])
    PROVE  Opens(q)
<1>1. Sendable(k, s) /\ s.life = "live" /\ s.primes = 0 /\ s \in Record
    BY RecordsTyped DEF Sendable
<1>2. contact \in BOOLEAN
    BY DEF Contacts
<1>3. Namesake(k, Mirrored(s, contact), s)
    BY <1>1, <1>2, MirroredRecord
<1>4. PICK g : g = [y \in {x} |-> Mirrored(s, contact)]
    OBVIOUS
<1>5. PICK f : f = [y \in {x} |-> s]
    OBVIOUS
<1>6. PICK r : r = [Idle EXCEPT !.op = "create", !.at = x, !.put = g]
    OBVIOUS
<1>7. IsRequest(r, "create", x, g, {}, {}, 0)
    BY <1>6, RequestFields
<1>8. Mutates(q, k, r)
    BY <1>4, <1>6
<1>9. DOMAIN g = {x} /\ \A y \in {x} : g[y] = Mirrored(s, contact) /\ f[y] = s
    BY <1>4, <1>5
<1>10. LiveIn(row, s, GuardedOf(k)) /\ Agrees(row, k, s) /\ ~Claimed(row, x, s, SameName(k))
    <2>1. (Roles(k) \cup {"name"}) \cap GuardedOf(k) = GuardedOf(k)
        BY DEF GuardedOf
    <2> QED BY <2>1 DEF Checked, Checks
<1>11. \A y \in {x} : Sendable(k, f[y]) /\ Namesake(k, g[y], f[y])
    BY <1>1, <1>3, <1>9
<1>12. \A y \in {x} : LiveIn(row, f[y], GuardedOf(k)) /\ Agrees(row, k, f[y])
    BY <1>9, <1>10
<1>13. /\ \A y \in {x} : ~Claimed(row, y, f[y], SameName(k))
       /\ \A y, z \in {x} : y # z => Fold[f[y].name] # Fold[f[z].name]
    BY <1>9, <1>10
<1>14. r.op = "create" /\ {x} \subseteq {y \in Of(k) : Free(y)}
    BY <1>7 DEF IsRequest
<1> QED BY <1>7, <1>8, <1>9, <1>11, <1>12, <1>13, <1>14, AddingOpens

LEMMA ImportOpens ==
    ASSUME IInv, NEW q, NEW k \in Kinds, NEW S, S \subseteq {x \in Of(k) : Free(x)}, NEW contact \in Contacts(k),
           NEW f \in [S -> Records(k)], \A x \in S : Filable(row, k, x, f[x]),
           \A x, y \in S : x # y => ~Doubles(k, f[x], f[y]),
           Mutates(q, k, [Idle EXCEPT !.op = "import", !.put = [x \in S |-> Filed(k, f[x], contact)]])
    PROVE  Opens(q)
<1>1. \A x \in S : Sendable(k, f[x]) /\ f[x].life = "live" /\ f[x].primes = 0 /\ f[x] \in Record
    BY RecordsTyped DEF Sendable
<1>2. contact \in BOOLEAN
    BY DEF Contacts
<1>3. \A x \in S : Namesake(k, Filed(k, f[x], contact), f[x])
    BY <1>1, <1>2, FiledRecord
<1>4. PICK g : g = [x \in S |-> Filed(k, f[x], contact)]
    OBVIOUS
<1>5. PICK r : r = [Idle EXCEPT !.op = "import", !.put = g]
    OBVIOUS
<1>6. IsRequest(r, "import", "none", g, {}, {}, 0)
    BY <1>5, RequestFields
<1>7. Mutates(q, k, r)
    BY <1>4, <1>5
<1>8. DOMAIN g = S /\ \A x \in S : g[x] = Filed(k, f[x], contact)
    BY <1>4
<1>9. \A x \in S : Sendable(k, f[x]) /\ Namesake(k, g[x], f[x])
    BY <1>1, <1>3, <1>8
<1>10. \A x \in S : LiveIn(row, f[x], GuardedOf(k)) /\ Agrees(row, k, f[x])
    BY DEF Filable
<1>11. r.op = "import" /\ r.put = g
    BY <1>6 DEF IsRequest
<1>12. ChecksNames(r) => /\ \A x \in S : ~Claimed(row, x, f[x], SameName(k))
                         /\ \A x, y \in S : x # y => Fold[f[x].name] # Fold[f[y].name]
    <2>1. SUFFICES ASSUME ChecksNames(r), NEW x \in S
                   PROVE  ~Claimed(row, x, f[x], SameName(k)) /\ \A y \in S : x # y => Fold[f[x].name] # Fold[f[y].name]
        OBVIOUS
    <2>2. Kind[x] \in {"company", "product", "supplier", "buyer"} /\ Kind[x] = k
        BY <1>8, <1>11, <2>1 DEF ChecksNames, Of
    <2>3. ~Claimed(row, x, f[x], SameName(k))
        BY <2>1, <2>2 DEF Filable, FilesCheckNames
    <2>4. ASSUME NEW y \in S, x # y PROVE Fold[f[x].name] # Fold[f[y].name]
        <3>1. ~Doubles(k, f[x], f[y])
            BY <2>1, <2>4
        <3>2. k \in {"company", "product", "supplier", "buyer"}
            BY <2>2
        <3> QED BY ONLY <3>1, <3>2 DEF Doubles
    <2> QED BY <2>3, <2>4
<1>13. IsRequest(r, r.op, "none", g, {}, {}, 0) /\ r.op \in {"create", "import"} /\ DOMAIN g = S
    BY <1>6, <1>8, <1>11
<1> QED
    BY ONLY IInv, k \in Kinds, S \subseteq {x \in Of(k) : Free(x)}, <1>7, <1>9, <1>10, <1>12, <1>13, AddingOpens

LEMMA GivenFields ==
    ASSUME NEW k, NEW x \in Of(k), NEW r
    PROVE  /\ \A role \in Roles(k) : role \in Given(x, r) \/ To(row[x], role) = To(r, role)
           /\ "name" \in Given(x, r) \/ r.name = row[x].name
<1>1. Kind[x] = k
    BY DEF Of
<1> QED BY <1>1 DEF Given

LEMMA UpdateOpens ==
    ASSUME IInv, NEW q, NEW k \in Kinds, NEW x \in Of(k), Live(x), NEW s \in Patched(k, row[x]),
           row[x].primes <= 1, Checked(row, k, x, s, Given(x, s)), NEW contact,
           Mutates(q, k, [Idle EXCEPT !.op = "update", !.at = x, !.put = [y \in {x} |-> s], !.primes = row[x].primes,
                            !.given = Given(x, s) \cup (IF contact THEN {"contact"} ELSE {})])
    PROVE  Opens(q)
<1>1. Proper(row) /\ Shelf(cache)
    BY DEF IInv
<1>2. x \in Rows /\ Kind[x] = k /\ row[x] \in Record /\ row[x].life = "live"
    BY <1>1 DEF Of, Live, Proper
<1>3. s \in Record /\ s.life = "live" /\ s.name \in Names /\ InColumns(k, s.refs)
    BY <1>2, PatchedTyped DEF Sendable
<1>4. row[x].primes \in {0, 1}
    <2>1. row[x].primes \in Nat
        BY <1>2 DEF Record
    <2> QED BY <2>1
<1>5. PICK put : put = [y \in {x} |-> s]
    OBVIOUS
<1>6. PICK given : given = Given(x, s) \cup (IF contact THEN {"contact"} ELSE {})
    OBVIOUS
<1>7. PICK r : r = [Idle EXCEPT !.op = "update", !.at = x, !.put = put, !.primes = row[x].primes, !.given = given]
    OBVIOUS
<1>8. IsRequest(r, "update", x, put, given, {}, row[x].primes)
    BY <1>7, RequestFields
<1>9. Mutates(q, k, r)
    BY <1>5, <1>6, <1>7
<1>10. /\ r.op = "update" /\ r.at = x /\ r.put[x] = s /\ r.given = given /\ r.primes = row[x].primes
       /\ DOMAIN r = {"op", "at", "put", "given", "gone", "primes", "alone"} /\ r.alone \in BOOLEAN
    BY <1>5, <1>8 DEF IsRequest
<1>11. given \ {"contact"} = Given(x, s) \ {"contact"}
    BY <1>6
<1>12. PICK n \in Record : n = Merged(row[x], s, given)
    BY <1>2, <1>3, MergedRecord
<1>13. /\ n.life = "live" /\ n.primes = row[x].primes
       /\ n.refs = {p \in row[x].refs : p[1] \notin given} \cup {p \in s.refs : p[1] \in given}
       /\ n.name = IF "name" \in given THEN s.name ELSE row[x].name
    BY <1>2, <1>3, <1>12, MergedRecord
<1>14. PICK o : o = ContactSynced(n, s, r)
    OBVIOUS
<1>15. /\ o \in Record /\ o.life = n.life /\ o.refs = n.refs /\ o.name = n.name
       /\ o.primes = IF r.primes # 1 /\ "contact" \in r.given THEN n.primes + 1 ELSE n.primes
    <2>1. r.primes \in Nat
        BY <1>4, <1>10
    <2> QED BY <1>3, <1>14, <2>1, SyncedRecord
<1>16. PICK m \in Record : /\ Outcome(r) = [row EXCEPT ![x] = m]
                           /\ m.life = "live" /\ m.refs = n.refs /\ m.name = n.name
                           /\ m.primes \in {row[x].primes, 1}
    <2>1. CASE k \in Parties
        <3>1. Outcome(r) = [row EXCEPT ![x] = o]
            BY <1>2, <1>10, <1>12, <1>14, <2>1 DEF Outcome
        <3>2. o.primes \in {row[x].primes, 1}
            BY <1>4, <1>10, <1>13, <1>15
        <3> QED BY <1>13, <1>15, <3>1, <3>2
    <2>2. CASE k \notin Parties
        <3>1. Outcome(r) = [row EXCEPT ![x] = n]
            BY <1>2, <1>10, <1>12, <2>2 DEF Outcome
        <3> QED BY <1>13, <3>1
    <2> QED BY <2>1, <2>2
<1>17. UpdateOf(row, x, s, Given(x, s), r, m)
    <2>1. /\ \A role \in Roles(Kind[x]) : role \in Given(x, s) \/ To(row[x], role) = To(s, role)
          /\ "name" \in Given(x, s) \/ s.name = row[x].name
        BY <1>2, GivenFields
    <2> QED BY <1>2, <1>3, <1>10, <1>11, <1>13, <1>16, <2>1 DEF UpdateOf
<1>18. Worthy(r, row, Outcome(r)) /\ Shown(r, row, Outcome(r), Cleared(k))
    BY <1>1, <1>2, <1>16, <1>17, UpdateHarmless
<1>19. Shape(row, r)
    BY <1>2, <1>3, <1>4, <1>10 DEF Shape, Made, Writes
<1>20. Opening(r, Cleared(k))
    BY <1>10, <1>18, <1>19 DEF Opening, Settles, Adds
<1> QED BY <1>9, <1>20, MutationOpens

LEMMA DeleteOpens ==
    ASSUME IInv, NEW q, NEW k \in Kinds, NEW x \in Of(k), Live(x), Spared(row, x),
           Mutates(q, k, [Idle EXCEPT !.op = "delete", !.at = x])
    PROVE  Opens(q)
<1>1. PICK r : r = [Idle EXCEPT !.op = "delete", !.at = x]
    OBVIOUS
<1>2. IsRequest(r, "delete", x, <<>>, {}, {}, 0)
    BY <1>1, RequestFields
<1>3. r.op = "delete" /\ r.at = x /\ r.at \in Kept(row) /\ Kind[r.at] = k
    BY <1>2 DEF IsRequest, Of, Live, Kept
<1>4. Worthy(r, row, Outcome(r)) /\ Shown(r, row, Outcome(r), Cleared(k))
    BY <1>3, DeleteHarmless DEF IInv
<1>5. Shape(row, r)
    BY <1>2, <1>3 DEF Shape, IsRequest, Made, Kept
<1>6. Opening(r, Cleared(k))
    BY <1>3, <1>4, <1>5 DEF Opening, Settles, Adds
<1> QED BY <1>1, <1>6, MutationOpens

LEMMA LookupOpens ==
    ASSUME IInv, NEW q, NEW k \in Kinds, Lookup(q, k)
    PROVE  Opens(q)
<1>1. PICK put : put = [dropdown |-> TRUE, names |-> LiveNames(row, k)]
    OBVIOUS
<1>2. PICK r : r = [Idle EXCEPT !.op = "lookup", !.at = k, !.put = put]
    OBVIOUS
<1>3. Begin(q, r) /\ UNCHANGED cache
    BY <1>1, <1>2 DEF Lookup
<1>4. IsRequest(r, "lookup", k, put, {}, {}, 0)
    BY <1>2, RequestFields
<1>5. r.op = "lookup" /\ r.at = k /\ r.put.dropdown \in BOOLEAN /\ r.put.names = LiveNames(row, k)
    BY <1>1, <1>4 DEF IsRequest
<1>6. DOMAIN r.put.names \subseteq Of(k)
    BY <1>5 DEF LiveNames
<1>7. Shape(row, r)
    BY <1>4, <1>5, <1>6 DEF Shape, IsRequest, Writes
<1>8. Opening(r, cache)
    BY <1>5, <1>7 DEF Opening, Settles, Adds
<1> QED BY <1>3, <1>8, QuietOpens

LEMMA SetFieldOpens ==
    ASSUME IInv, NEW q, NEW x \in Rows, NEW given, given \subseteq {"wanted", "status"},
           NEW s \in Record, s.refs = {}, SetField(q, x, given, s)
    PROVE  Opens(q)
<1>1. PICK put : put = [y \in {x} |-> s]
    OBVIOUS
<1>2. PICK r : r = [Idle EXCEPT !.op = "set", !.at = x, !.put = put, !.given = given]
    OBVIOUS
<1>3. Mutates(q, Kind[x], r) /\ x \in Kept(row) /\ row[x].life = "live"
    BY <1>1, <1>2 DEF SetField, Live, Kept
<1>4. IsRequest(r, "set", x, put, given, {}, 0)
    BY <1>2, RequestFields
<1>5. r.op = "set" /\ r.at = x /\ r.put[x] = s /\ r.given = given /\ r.primes = 0
    BY <1>1, <1>4 DEF IsRequest
<1>6. Kind[x] \in Kinds
    BY RowsAssumption
<1>7. Worthy(r, row, Outcome(r)) /\ Shown(r, row, Outcome(r), Cleared(Kind[x]))
    BY <1>3, <1>5, SetHarmless DEF IInv
<1>8. Shape(row, r)
    <2>1. InColumns(Kind[x], s.refs)
        BY DEF InColumns
    <2>2. "name" \notin given
        OBVIOUS
    <2> QED BY <1>3, <1>4, <1>5, <2>1, <2>2 DEF Shape, IsRequest, Made
<1>9. Opening(r, Cleared(Kind[x]))
    BY <1>5, <1>7, <1>8 DEF Opening, Settles, Adds
<1> QED BY <1>3, <1>6, <1>9, MutationOpens

LEMMA ContactOpens ==
    ASSUME IInv, NEW q, UpdateContact(q)
    PROVE  Opens(q)
<1>1. PICK x \in Rows : Live(x) /\ Begin(q, [Idle EXCEPT !.op = "contact", !.at = x])
    BY DEF UpdateContact
<1>2. PICK r : r = [Idle EXCEPT !.op = "contact", !.at = x]
    OBVIOUS
<1>3. IsRequest(r, "contact", x, <<>>, {}, {}, 0)
    BY <1>2, RequestFields
<1>4. r.op = "contact" /\ r.at = x
    BY <1>3 DEF IsRequest
<1>5. Worthy(r, row, Outcome(r)) /\ Shown(r, row, Outcome(r), cache)
    BY <1>4, ContactHarmless DEF IInv
<1>6. Shape(row, r)
    BY <1>1, <1>3, <1>4 DEF Shape, IsRequest, Made, Live
<1>7. Opening(r, cache)
    BY <1>4, <1>5, <1>6 DEF Opening, Settles, Adds
<1> QED BY <1>1, <1>2, <1>7, QuietOpens DEF UpdateContact

LEMMA RestoreOpens ==
    ASSUME IInv, NEW q, Restore(q)
    PROVE  Opens(q)
<1>1. PICK x \in Rows : Exists(x) /\ Begin(q, [Idle EXCEPT !.op = "restore", !.at = x])
    BY DEF Restore
<1>2. PICK r : r = [Idle EXCEPT !.op = "restore", !.at = x]
    OBVIOUS
<1>3. IsRequest(r, "restore", x, <<>>, {}, {}, 0)
    BY <1>2, RequestFields
<1>4. r.op = "restore" /\ r.at = x /\ r.at \in Kept(row)
    BY <1>1, <1>3 DEF IsRequest, Exists, Kept
<1>5. PICK C : C = [k \in Kinds |-> None]
    OBVIOUS
<1>6. cache' = C
    BY <1>5 DEF Restore
<1>7. Worthy(r, row, Outcome(r)) /\ Shown(r, row, Outcome(r), C)
    BY <1>4, <1>5, RestoreHarmless DEF IInv
<1>8. Shape(row, r)
    BY <1>1, <1>3, <1>4 DEF Shape, IsRequest, Made, Exists
<1>9. Opening(r, C)
    BY <1>4, <1>7, <1>8 DEF Opening, Settles, Adds
<1>10. Forgets(C)
    BY <1>5 DEF Forgets, None
<1> QED BY <1>1, <1>2, <1>6, <1>9, <1>10 DEF Opens

LEMMA PurgeOpens ==
    ASSUME IInv, NEW q, NEW op \in {"hardDelete", "purge"}, NEW gone \in SUBSET {x \in Rows : Exists(x)},
           op = "purge" => \A x \in gone : row[x].life # "live", MayPurge(gone),
           Begin(q, [Idle EXCEPT !.op = op, !.gone = gone]), UNCHANGED cache
    PROVE  Opens(q)
<1>1. PICK r : r = [Idle EXCEPT !.op = op, !.gone = gone]
    OBVIOUS
<1>2. IsRequest(r, op, "none", <<>>, {}, gone, 0)
    BY <1>1, RequestFields
<1>3. r.op = op /\ r.gone = gone
    BY <1>2 DEF IsRequest
<1>4. Worthy(r, row, Outcome(r)) /\ Shown(r, row, Outcome(r), cache)
    BY <1>3, PurgingIsHarmless DEF IInv
<1>5. \A x \in gone : Made(row, x)
    BY DEF Made, Exists
<1>6. Shape(row, r)
    BY <1>2, <1>3, <1>5 DEF Shape, IsRequest, Writes
<1>7. Opening(r, cache)
    BY <1>3, <1>4, <1>6 DEF Opening, Settles, Adds
<1> QED BY <1>1, <1>7, QuietOpens

(***************************************************************************)
(* The routes, with the checks of any kind in place of their own.          *)
(***************************************************************************)
Creates(q, k) ==
    \E x \in {y \in Of(k) : Free(y)} : \E r \in Records(k), contact \in Contacts(k) :
        /\ Checked(row, k, x, r, Roles(k) \cup {"name"})
        /\ Mutates(q, k, [Idle EXCEPT !.op = "create", !.at = x, !.put = [y \in {x} |-> Mirrored(r, contact)]])
Imports(q, k) ==
    \E S \in SUBSET {x \in Of(k) : Free(x)} : \E contact \in Contacts(k) : \E f \in [S -> Records(k)] :
        /\ \A x \in S : Filable(row, k, x, f[x])
        /\ \A x, y \in S : x # y => ~Doubles(k, f[x], f[y])
        /\ Mutates(q, k, [Idle EXCEPT !.op = "import", !.put = [x \in S |-> Filed(k, f[x], contact)]])
Updates(q, k) ==
    \E x \in {y \in Of(k) : Live(y)} : \E r \in Patched(k, row[x]), contact \in Contacts(k) :
        /\ row[x].primes <= 1
        /\ Checked(row, k, x, r, Given(x, r))
        /\ Mutates(q, k, [Idle EXCEPT !.op = "update", !.at = x, !.put = [y \in {x} |-> r], !.primes = row[x].primes,
                            !.given = Given(x, r) \cup (IF contact THEN {"contact"} ELSE {})])
Deletes(q, k) == \E x \in Of(k) :
    /\ Live(x)
    /\ Spared(row, x)
    /\ Mutates(q, k, [Idle EXCEPT !.op = "delete", !.at = x])

LEMMA AnyKindOpens ==
    ASSUME IInv, NEW q, NEW k \in Kinds, Creates(q, k) \/ Imports(q, k) \/ Updates(q, k) \/ Deletes(q, k) \/ Lookup(q, k)
    PROVE  Opens(q)
<1>1. CASE Creates(q, k)
    <2>1. PICK x \in {y \in Of(k) : Free(y)} : \E r \in Records(k), contact \in Contacts(k) :
            /\ Checked(row, k, x, r, Roles(k) \cup {"name"})
            /\ Mutates(q, k, [Idle EXCEPT !.op = "create", !.at = x, !.put = [y \in {x} |-> Mirrored(r, contact)]])
        BY <1>1 DEF Creates
    <2>2. PICK r \in Records(k), contact \in Contacts(k) :
            /\ Checked(row, k, x, r, Roles(k) \cup {"name"})
            /\ Mutates(q, k, [Idle EXCEPT !.op = "create", !.at = x, !.put = [y \in {x} |-> Mirrored(r, contact)]])
        BY <2>1
    <2> QED BY <2>2, CreateOpens
<1>2. CASE Imports(q, k)
    <2>1. PICK S \in SUBSET {x \in Of(k) : Free(x)} : \E contact \in Contacts(k) : \E f \in [S -> Records(k)] :
            /\ \A x \in S : Filable(row, k, x, f[x])
            /\ \A x, y \in S : x # y => ~Doubles(k, f[x], f[y])
            /\ Mutates(q, k, [Idle EXCEPT !.op = "import", !.put = [x \in S |-> Filed(k, f[x], contact)]])
        BY <1>2 DEF Imports
    <2>2. PICK contact \in Contacts(k), f \in [S -> Records(k)] :
            /\ \A x \in S : Filable(row, k, x, f[x])
            /\ \A x, y \in S : x # y => ~Doubles(k, f[x], f[y])
            /\ Mutates(q, k, [Idle EXCEPT !.op = "import", !.put = [x \in S |-> Filed(k, f[x], contact)]])
        BY <2>1
    <2> QED BY <2>2, ImportOpens
<1>3. CASE Updates(q, k)
    <2>1. PICK x \in {y \in Of(k) : Live(y)} : \E r \in Patched(k, row[x]), contact \in Contacts(k) :
            /\ row[x].primes <= 1
            /\ Checked(row, k, x, r, Given(x, r))
            /\ Mutates(q, k, [Idle EXCEPT !.op = "update", !.at = x, !.put = [y \in {x} |-> r], !.primes = row[x].primes,
                                !.given = Given(x, r) \cup (IF contact THEN {"contact"} ELSE {})])
        BY <1>3 DEF Updates
    <2>2. PICK r \in Patched(k, row[x]), contact \in Contacts(k) :
            /\ row[x].primes <= 1
            /\ Checked(row, k, x, r, Given(x, r))
            /\ Mutates(q, k, [Idle EXCEPT !.op = "update", !.at = x, !.put = [y \in {x} |-> r], !.primes = row[x].primes,
                                !.given = Given(x, r) \cup (IF contact THEN {"contact"} ELSE {})])
        BY <2>1
    <2> QED BY <2>2, UpdateOpens
<1>4. CASE Deletes(q, k)
    BY <1>4, DeleteOpens DEF Deletes
<1>5. CASE Lookup(q, k)
    BY <1>5, LookupOpens
<1> QED BY <1>1, <1>2, <1>3, <1>4, <1>5

LEMMA PatchedHere ==
    ASSUME IInv, NEW k \in Kinds, NEW x \in Of(k), NEW s \in Patched(k, row[x])
    PROVE  s \in Record /\ InColumns(k, s.refs)
<1>1. row[x] \in Record
    BY DEF IInv, Proper, Of
<1> QED BY <1>1, PatchedTyped DEF Sendable

LEMMA SentHere ==
    ASSUME NEW k \in Kinds, NEW s \in Records(k)
    PROVE  s \in Record /\ InColumns(k, s.refs)
BY RecordsTyped DEF Sendable

LEMMA CountryOpens ==
    ASSUME IInv, NEW q, CountryAdds(q) \/ CountryChanges(q)
    PROVE  Opens(q)
<1>1. "country" \in Kinds
    BY DEF Kinds
<1>2. Create(q, "country", CountryFits) => Creates(q, "country")
    BY <1>1, CountryChecks, SentHere DEF Create, Creates
<1>3. Import(q, "country", CountryImports) => Imports(q, "country")
    BY <1>1, CountryFiles, SentHere DEF Import, Imports
<1>4. Update(q, "country", CountryFits) => Updates(q, "country")
    BY <1>1, CountryChecks, PatchedHere DEF Update, Updates
<1>5. Delete(q, "country", CountryGoes) => Deletes(q, "country")
    BY CountrySpares DEF Delete, Deletes, IInv
<1> QED BY <1>1, <1>2, <1>3, <1>4, <1>5, AnyKindOpens DEF CountryAdds, CountryChanges

LEMMA StateOpens ==
    ASSUME IInv, NEW q, StateAdds(q) \/ StateChanges(q)
    PROVE  Opens(q)
<1>1. "state" \in Kinds
    BY DEF Kinds
<1>2. Create(q, "state", StateFits) => Creates(q, "state")
    BY <1>1, StateChecks, SentHere DEF Create, Creates
<1>3. Import(q, "state", StateImports) => Imports(q, "state")
    BY <1>1, StateFiles, SentHere DEF Import, Imports
<1>4. Update(q, "state", StateFits) => Updates(q, "state")
    BY <1>1, StateChecks, PatchedHere DEF Update, Updates
<1>5. Delete(q, "state", StateGoes) => Deletes(q, "state")
    BY StateSpares DEF Delete, Deletes, IInv
<1> QED BY <1>1, <1>2, <1>3, <1>4, <1>5, AnyKindOpens DEF StateAdds, StateChanges

LEMMA CityOpens ==
    ASSUME IInv, NEW q, CityAdds(q) \/ CityChanges(q)
    PROVE  Opens(q)
<1>1. "city" \in Kinds
    BY DEF Kinds
<1>2. Create(q, "city", CityFits) => Creates(q, "city")
    BY <1>1, CityChecks, SentHere DEF Create, Creates
<1>3. Import(q, "city", CityImports) => Imports(q, "city")
    BY <1>1, CityFiles, SentHere DEF Import, Imports
<1>4. Update(q, "city", CityFits) => Updates(q, "city")
    BY <1>1, CityChecks, PatchedHere DEF Update, Updates
<1>5. Delete(q, "city", CityGoes) => Deletes(q, "city")
    BY CitySpares DEF Delete, Deletes, IInv
<1> QED BY <1>1, <1>2, <1>3, <1>4, <1>5, AnyKindOpens DEF CityAdds, CityChanges

LEMMA CategoryOpens ==
    ASSUME IInv, NEW q, CategoryAdds(q) \/ CategoryChanges(q)
    PROVE  Opens(q)
<1>1. "category" \in Kinds
    BY DEF Kinds
<1>2. Create(q, "category", CategoryFits) => Creates(q, "category")
    BY <1>1, CategoryChecks, SentHere DEF Create, Creates
<1>3. Import(q, "category", CategoryImports) => Imports(q, "category")
    BY <1>1, CategoryFiles, SentHere DEF Import, Imports
<1>4. Update(q, "category", CategoryFits) => Updates(q, "category")
    BY <1>1, CategoryChecks, PatchedHere DEF Update, Updates
<1>5. Delete(q, "category", CategoryGoes) => Deletes(q, "category")
    BY CategorySpares DEF Delete, Deletes, IInv
<1> QED BY <1>1, <1>2, <1>3, <1>4, <1>5, AnyKindOpens DEF CategoryAdds, CategoryChanges

LEMMA SubCategoryOpens ==
    ASSUME IInv, NEW q, SubCategoryAdds(q) \/ SubCategoryChanges(q)
    PROVE  Opens(q)
<1>1. "subcategory" \in Kinds
    BY DEF Kinds
<1>2. Create(q, "subcategory", SubCategoryFits) => Creates(q, "subcategory")
    BY <1>1, SubCategoryChecks, SentHere DEF Create, Creates
<1>3. Import(q, "subcategory", SubCategoryImports) => Imports(q, "subcategory")
    BY <1>1, SubCategoryFiles, SentHere DEF Import, Imports
<1>4. Update(q, "subcategory", SubCategoryFits) => Updates(q, "subcategory")
    BY <1>1, SubCategoryChecks, PatchedHere DEF Update, Updates
<1>5. Delete(q, "subcategory", SubCategoryGoes) => Deletes(q, "subcategory")
    BY SubCategorySpares DEF Delete, Deletes, IInv
<1> QED BY <1>1, <1>2, <1>3, <1>4, <1>5, AnyKindOpens DEF SubCategoryAdds, SubCategoryChanges

LEMMA BrandOpens ==
    ASSUME IInv, NEW q, BrandAdds(q) \/ BrandChanges(q)
    PROVE  Opens(q)
<1>1. "brand" \in Kinds
    BY DEF Kinds
<1>2. Create(q, "brand", BrandFits) => Creates(q, "brand")
    BY <1>1, BrandChecks, SentHere DEF Create, Creates
<1>3. Import(q, "brand", BrandImports) => Imports(q, "brand")
    BY <1>1, BrandFiles, SentHere DEF Import, Imports
<1>4. Update(q, "brand", BrandFits) => Updates(q, "brand")
    BY <1>1, BrandChecks, PatchedHere DEF Update, Updates
<1>5. Delete(q, "brand", BrandGoes) => Deletes(q, "brand")
    BY BrandSpares DEF Delete, Deletes, IInv
<1> QED BY <1>1, <1>2, <1>3, <1>4, <1>5, AnyKindOpens DEF BrandAdds, BrandChanges

LEMMA HsnOpens ==
    ASSUME IInv, NEW q, HsnAdds(q) \/ HsnChanges(q)
    PROVE  Opens(q)
<1>1. "hsn" \in Kinds
    BY DEF Kinds
<1>2. Create(q, "hsn", HsnFits) => Creates(q, "hsn")
    BY <1>1, HsnChecks, SentHere DEF Create, Creates
<1>3. Import(q, "hsn", HsnImports) => Imports(q, "hsn")
    BY <1>1, HsnFiles, SentHere DEF Import, Imports
<1>4. Update(q, "hsn", HsnFits) => Updates(q, "hsn")
    BY <1>1, HsnChecks, PatchedHere DEF Update, Updates
<1>5. Delete(q, "hsn", HsnGoes) => Deletes(q, "hsn")
    BY HsnSpares DEF Delete, Deletes, IInv
<1> QED BY <1>1, <1>2, <1>3, <1>4, <1>5, AnyKindOpens DEF HsnAdds, HsnChanges

LEMMA UomOpens ==
    ASSUME IInv, NEW q, UomAdds(q) \/ UomChanges(q)
    PROVE  Opens(q)
<1>1. "uom" \in Kinds
    BY DEF Kinds
<1>2. Create(q, "uom", UomFits) => Creates(q, "uom")
    BY <1>1, UomChecks, SentHere DEF Create, Creates
<1>3. Import(q, "uom", UomImports) => Imports(q, "uom")
    BY <1>1, UomFiles, SentHere DEF Import, Imports
<1>4. Update(q, "uom", UomFits) => Updates(q, "uom")
    BY <1>1, UomChecks, PatchedHere DEF Update, Updates
<1>5. Delete(q, "uom", UomGoes) => Deletes(q, "uom")
    BY UomSpares DEF Delete, Deletes, IInv
<1> QED BY <1>1, <1>2, <1>3, <1>4, <1>5, AnyKindOpens DEF UomAdds, UomChanges

LEMMA CurrencyOpens ==
    ASSUME IInv, NEW q, CurrencyAdds(q) \/ CurrencyChanges(q)
    PROVE  Opens(q)
<1>1. "currency" \in Kinds
    BY DEF Kinds
<1>2. Create(q, "currency", CurrencyFits) => Creates(q, "currency")
    BY <1>1, CurrencyChecks, SentHere DEF Create, Creates
<1>3. Import(q, "currency", CurrencyImports) => Imports(q, "currency")
    BY <1>1, CurrencyFiles, SentHere DEF Import, Imports
<1>4. Update(q, "currency", CurrencyFits) => Updates(q, "currency")
    BY <1>1, CurrencyChecks, PatchedHere DEF Update, Updates
<1>5. Delete(q, "currency", CurrencyGoes) => Deletes(q, "currency")
    BY CurrencySpares DEF Delete, Deletes, IInv
<1> QED BY <1>1, <1>2, <1>3, <1>4, <1>5, AnyKindOpens DEF CurrencyAdds, CurrencyChanges

LEMMA SupplierTypeOpens ==
    ASSUME IInv, NEW q, SupplierTypeAdds(q) \/ SupplierTypeChanges(q)
    PROVE  Opens(q)
<1>1. "supplierType" \in Kinds
    BY DEF Kinds
<1>2. Create(q, "supplierType", SupplierTypeFits) => Creates(q, "supplierType")
    BY <1>1, SupplierTypeChecks, SentHere DEF Create, Creates
<1>3. Import(q, "supplierType", SupplierTypeImports) => Imports(q, "supplierType")
    BY <1>1, SupplierTypeFiles, SentHere DEF Import, Imports
<1>4. Update(q, "supplierType", SupplierTypeFits) => Updates(q, "supplierType")
    BY <1>1, SupplierTypeChecks, PatchedHere DEF Update, Updates
<1>5. Delete(q, "supplierType", SupplierTypeGoes) => Deletes(q, "supplierType")
    BY SupplierTypeSpares DEF Delete, Deletes, IInv
<1> QED BY <1>1, <1>2, <1>3, <1>4, <1>5, AnyKindOpens DEF SupplierTypeAdds, SupplierTypeChanges

LEMMA BuyerTypeOpens ==
    ASSUME IInv, NEW q, BuyerTypeAdds(q) \/ BuyerTypeChanges(q)
    PROVE  Opens(q)
<1>1. "buyerType" \in Kinds
    BY DEF Kinds
<1>2. Create(q, "buyerType", BuyerTypeFits) => Creates(q, "buyerType")
    BY <1>1, BuyerTypeChecks, SentHere DEF Create, Creates
<1>3. Import(q, "buyerType", BuyerTypeImports) => Imports(q, "buyerType")
    BY <1>1, BuyerTypeFiles, SentHere DEF Import, Imports
<1>4. Update(q, "buyerType", BuyerTypeFits) => Updates(q, "buyerType")
    BY <1>1, BuyerTypeChecks, PatchedHere DEF Update, Updates
<1>5. Delete(q, "buyerType", BuyerTypeGoes) => Deletes(q, "buyerType")
    BY BuyerTypeSpares DEF Delete, Deletes, IInv
<1> QED BY <1>1, <1>2, <1>3, <1>4, <1>5, AnyKindOpens DEF BuyerTypeAdds, BuyerTypeChanges

LEMMA CompanyOpens ==
    ASSUME IInv, NEW q, CompanyAdds(q) \/ CompanyChanges(q)
    PROVE  Opens(q)
<1>1. "company" \in Kinds
    BY DEF Kinds
<1>2. Create(q, "company", CompanyFits) => Creates(q, "company")
    BY <1>1, CompanyChecks, SentHere DEF Create, Creates
<1>3. Import(q, "company", CompanyImports) => Imports(q, "company")
    BY <1>1, CompanyFiles, SentHere DEF Import, Imports
<1>4. Update(q, "company", CompanyFits) => Updates(q, "company")
    BY <1>1, CompanyChecks, PatchedHere DEF Update, Updates
<1>5. Delete(q, "company", CompanyGoes) => Deletes(q, "company")
    BY CompanySpares DEF Delete, Deletes, IInv
<1> QED BY <1>1, <1>2, <1>3, <1>4, <1>5, AnyKindOpens DEF CompanyAdds, CompanyChanges

LEMMA ProductOpens ==
    ASSUME IInv, NEW q, ProductAdds(q) \/ ProductChanges(q)
    PROVE  Opens(q)
<1>1. "product" \in Kinds
    BY DEF Kinds
<1>2. Create(q, "product", ProductFits) => Creates(q, "product")
    BY <1>1, ProductChecks, SentHere DEF Create, Creates
<1>3. Import(q, "product", ProductImports) => Imports(q, "product")
    BY <1>1, ProductFiles, SentHere DEF Import, Imports
<1>4. Update(q, "product", ProductFits) => Updates(q, "product")
    BY <1>1, ProductChecks, PatchedHere DEF Update, Updates
<1>5. Delete(q, "product", ProductGoes) => Deletes(q, "product")
    BY ProductSpares DEF Delete, Deletes, IInv
<1> QED BY <1>1, <1>2, <1>3, <1>4, <1>5, AnyKindOpens DEF ProductAdds, ProductChanges

LEMMA SupplierOpens ==
    ASSUME IInv, NEW q, SupplierAdds(q) \/ SupplierChanges(q) \/ SupplierEnds(q)
    PROVE  Opens(q)
<1>1. "supplier" \in Kinds
    BY DEF Kinds
<1>2. Create(q, "supplier", SupplierFits) => Creates(q, "supplier")
    BY <1>1, SupplierChecks, SentHere DEF Create, Creates
<1>3. Import(q, "supplier", SupplierImports) => Imports(q, "supplier")
    BY <1>1, SupplierFiles, SentHere DEF Import, Imports
<1>4. Update(q, "supplier", SupplierFits) => Updates(q, "supplier")
    BY <1>1, SupplierChecks, PatchedHere DEF Update, Updates
<1>5. Delete(q, "supplier", SupplierGoes) => Deletes(q, "supplier")
    BY SupplierSpares DEF Delete, Deletes, IInv
<1> QED BY <1>1, <1>2, <1>3, <1>4, <1>5, AnyKindOpens DEF SupplierAdds, SupplierChanges, SupplierEnds

LEMMA BuyerOpens ==
    ASSUME IInv, NEW q, BuyerAdds(q) \/ BuyerChanges(q) \/ BuyerEnds(q)
    PROVE  Opens(q)
<1>1. "buyer" \in Kinds
    BY DEF Kinds
<1>2. Create(q, "buyer", BuyerFits) => Creates(q, "buyer")
    BY <1>1, BuyerChecks, SentHere DEF Create, Creates
<1>3. Import(q, "buyer", BuyerImports) => Imports(q, "buyer")
    BY <1>1, BuyerFiles, SentHere DEF Import, Imports
<1>4. Update(q, "buyer", BuyerFits) => Updates(q, "buyer")
    BY <1>1, BuyerChecks, PatchedHere DEF Update, Updates
<1>5. Delete(q, "buyer", BuyerGoes) => Deletes(q, "buyer")
    BY BuyerSpares DEF Delete, Deletes, IInv
<1> QED BY <1>1, <1>2, <1>3, <1>4, <1>5, AnyKindOpens DEF BuyerAdds, BuyerChanges, BuyerEnds

LEMMA BlankField ==
    /\ \A w \in BOOLEAN : [Blank EXCEPT !.wanted = w] \in Record /\ [Blank EXCEPT !.wanted = w].refs = {}
    /\ \A st \in {"active", "inactive", "unset", "new", "existing"} :
            [Blank EXCEPT !.status = st] \in Record /\ [Blank EXCEPT !.status = st].refs = {}
<1>1. PICK b \in Record : b = Blank /\ b.refs = {}
    BY BlankRecord
<1>2. DOMAIN b = {"life", "name", "refs", "status", "wanted", "primes", "phone", "copy"}
    BY DEF Record
<1>3. ASSUME NEW w \in BOOLEAN
      PROVE  [Blank EXCEPT !.wanted = w] \in Record /\ [Blank EXCEPT !.wanted = w].refs = {}
    <2>1. PICK s \in Record : s = [b EXCEPT !.wanted = w]
        BY ONLY b \in Record DEF Record
    <2> QED BY <1>1, <1>2, <2>1
<1>4. ASSUME NEW st \in {"active", "inactive", "unset", "new", "existing"}
      PROVE  [Blank EXCEPT !.status = st] \in Record /\ [Blank EXCEPT !.status = st].refs = {}
    <2>1. PICK s \in Record : s = [b EXCEPT !.status = st]
        BY ONLY b \in Record, st \in {"active", "inactive", "unset", "new", "existing"} DEF Record
    <2> QED BY <1>1, <1>2, <2>1
<1> QED BY <1>3, <1>4

LEMMA SetsOpen ==
    ASSUME IInv, NEW q, SupplierSets(q) \/ BuyerSets(q)
    PROVE  Opens(q)
<1>1. ASSUME NEW k, SetWanted(q, k) PROVE Opens(q)
    <2>1. PICK x \in Of(k), w \in BOOLEAN : SetField(q, x, {"wanted"}, [Blank EXCEPT !.wanted = w])
        BY <1>1 DEF SetWanted
    <2>2. PICK s \in Record : s = [Blank EXCEPT !.wanted = w] /\ s.refs = {}
        BY BlankField
    <2> QED BY <2>1, <2>2, SetFieldOpens DEF Of
<1>2. ASSUME NEW k, Touch(q, k) PROVE Opens(q)
    <2>1. PICK x \in Of(k) : SetField(q, x, {}, Blank)
        BY <1>2 DEF Touch
    <2> QED BY <2>1, BlankRecord, SetFieldOpens DEF Of
<1>3. ASSUME SetBuyerStatus(q) PROVE Opens(q)
    <2>1. PICK x \in Of("buyer"), st \in Statuses("buyer") : SetField(q, x, {"status"}, [Blank EXCEPT !.status = st])
        BY <1>3 DEF SetBuyerStatus
    <2>2. st \in {"active", "inactive", "unset", "new", "existing"}
        BY StatusesOf DEF Kinds
    <2>3. PICK s \in Record : s = [Blank EXCEPT !.status = st] /\ s.refs = {}
        BY <2>2, BlankField
    <2> QED BY <2>1, <2>3, SetFieldOpens DEF Of
<1> QED BY <1>1, <1>2, <1>3 DEF SupplierSets, BuyerSets

LEMMA PurgesOpen ==
    ASSUME IInv, NEW q, HardDelete(q) \/ EmptyTrash(q) \/ PurgeExpired(q)
    PROVE  Opens(q)
<1>1. CASE HardDelete(q)
    <2>1. PICK x \in Rows : Exists(x) /\ MayPurge({x}) /\ Begin(q, [Idle EXCEPT !.op = "hardDelete", !.gone = {x}])
        BY <1>1 DEF HardDelete
    <2>2. UNCHANGED cache /\ {x} \in SUBSET {y \in Rows : Exists(y)}
        BY <1>1, <2>1 DEF HardDelete
    <2> QED BY <2>1, <2>2, PurgeOpens
<1>2. ASSUME NEW gone \in SUBSET {x \in Rows : row[x].life = "trashed"}, Purge(q, gone) PROVE Opens(q)
    <2>1. gone \in SUBSET {x \in Rows : Exists(x)} /\ \A x \in gone : row[x].life # "live"
        BY DEF Exists
    <2> QED BY <1>2, <2>1, PurgeOpens DEF Purge
<1> QED BY <1>1, <1>2 DEF EmptyTrash, PurgeExpired

LEMMA ServeOpens ==
    ASSUME IInv, NEW q, Serve(q)
    PROVE  Opens(q)
BY CountryOpens, StateOpens, CityOpens, CategoryOpens, SubCategoryOpens, BrandOpens, HsnOpens, UomOpens,
   CurrencyOpens, SupplierTypeOpens, BuyerTypeOpens, CompanyOpens, ProductOpens, SupplierOpens, BuyerOpens,
   SetsOpen, ContactOpens, RestoreOpens, PurgesOpen DEF Serve

LEMMA ServeKeeps ==
    ASSUME IInv, NEW q \in Requests, Accepts(q), Serve(q)
    PROVE  IInv'
BY ServeOpens, BeginKeeps DEF Accepts

LEMMA NextKeeps ==
    ASSUME IInv, [Next]_vars
    PROVE  IInv'
BY ServeKeeps, CommitKeeps, StoreLookupKeeps, OthersKeep DEF Next

(* The requests, the rows and the dropdowns stay as the routes, the trash, *)
(* the commits and the cache are argued to keep them, one by one.          *)
THEOREM Invariance == Spec => []IInv
<1>1. IInv /\ [Next]_vars => IInv'
    BY NextKeeps
<1> QED BY InitIInv, <1>1, PTL DEF Spec

(* Every record keeps its shape and its references lead to records of the  *)
(* right kind; no two records the database forbids share a name; a party   *)
(* has at most one primary contact for each request open at once, since    *)
(* only requests that both found none may add one each.                    *)
THEOREM TypesHold == Spec => []TypeOK
<1>1. IInv => TypeOK
    <2> SUFFICES ASSUME IInv PROVE TypeOK
        OBVIOUS
    <2>1. row \in [Rows -> Record] /\ ReferencesExist(row) /\ NamesDiffer(row)
        BY DEF IInv, Proper
    <2>2. ASSUME NEW x \in Rows
          PROVE  /\ Exists(x) => row[x].name \in Names /\ InColumns(Kind[x], row[x].refs)
                 /\ row[x].primes <= Cardinality(Requests)
        <3>1. Exists(x) => x \in Kept(row)
            BY DEF Exists, Kept
        <3>2. Exists(x) => row[x].name \in Names /\ InColumns(Kind[x], row[x].refs)
            BY <3>1 DEF IInv, Proper
        <3>3. row[x].primes + Cardinality(Adders(req, x)) <= Cardinality(Requests) /\ row[x].primes \in Nat
            BY <2>1 DEF IInv, Counted, Record
        <3>4. Adders(req, x) \subseteq Requests
            BY DEF Adders
        <3>5. Cardinality(Adders(req, x)) \in Nat /\ Cardinality(Requests) \in Nat
            BY <3>4, RequestsAssumption, FS_Subset, FS_CardinalityType
        <3> QED BY <3>2, <3>3, <3>5
    <2>3. \A k \in Kinds : cache[k].dropdown => DOMAIN cache[k].names \subseteq Of(k)
        BY DEF IInv, Shelf
    <2> QED BY <2>1, <2>2, <2>3 DEF TypeOK
<1> QED BY <1>1, Invariance, PTL

(***************************************************************************)
(* What a request that ran alone did.                                      *)
(***************************************************************************)
LEMMA EndsByItself ==
    ASSUME IInv, Next, NEW q \in Requests, EndsAlone(q)
    PROVE  Commit(q) \/ StoreLookup(q)
<1>1. req[q].op # "none" /\ req'[q] = Idle /\ DOMAIN req = Requests /\ Idle.op = "none"
    BY DEF EndsAlone, IInv, Idle
<1>2. ASSUME NEW o \in Requests, Accepts(o), Serve(o) PROVE FALSE
    <2>1. PICK r : Begin(o, r) /\ Opening(r, cache')
        BY <1>2, ServeOpens DEF Opens
    <2>2. o # q
        BY <1>1, <1>2 DEF Accepts
    <2>3. SameRequest(req'[q], req[q])
        BY <1>2, <2>1, <2>2, BegunRequests DEF Accepts, Opening
    <2> QED BY <1>1, <2>3 DEF SameRequest
<1>3. ASSUME NEW o \in Requests, Commit(o) \/ StoreLookup(o) PROVE o = q
    <2>1. req' = [req EXCEPT ![o] = Idle]
        BY <1>3 DEF Commit, StoreLookup
    <2> QED BY <1>1, <2>1
<1>4. CASE Expire \/ Flush
    BY <1>1, <1>4 DEF Expire, Flush
<1> QED BY <1>2, <1>3, <1>4 DEF Next

(* It stored a dropdown that is right, or left the rows as they were, or   *)
(* wrote what was harmless when it began.                                  *)
LEMMA EndedAlone ==
    ASSUME IInv, Next, NEW q \in Requests, EndsAlone(q)
    PROVE  \/ /\ req[q].op = "lookup" /\ row' = row
              /\ cache' = [cache EXCEPT ![req[q].at] = req[q].put]
              /\ req[q].put.names = LiveNames(row, req[q].at)
           \/ /\ req[q].op # "lookup" /\ cache' = cache
              /\ row' = row \/ (Worthy(req[q], row, row') /\ Shown(req[q], row, row', cache))
<1>1. Harmless(q)
    BY DEF IInv, EndsAlone
<1>2. CASE StoreLookup(q)
    BY <1>1, <1>2 DEF StoreLookup, Harmless
<1>3. CASE Commit(q)
    <2>1. req[q].op # "lookup" /\ cache' = cache /\ (row' = row \/ row' = Outcome(req[q]))
        BY <1>3, CommitWrites
    <2> QED BY <1>1, <2>1 DEF Harmless
<1> QED BY <1>2, <1>3, EndsByItself

(* No route of the masters, the parties or the trash, run alone, leaves a  *)
(* live record under a parent in the trash; bringing a record back may.    *)
THEOREM ParentsStay == Spec => SoloParents
<1> DEFINE Stay == \A q \in Requests :
        EndsAlone(q) /\ req[q].op # "restore" => Dangling(row') \subseteq Dangling(row)
<1>1. IInv /\ [Next]_vars => [Stay]_vars
    BY EndedAlone DEF Worthy
<1>2. SoloParents <=> [][Stay]_vars
    BY DEF SoloParents
<1> QED BY <1>1, <1>2, Invariance, PTL DEF Spec

(* No route run alone makes the columns of a live record contradict each   *)
(* other, but for those that move a state, a city or a sub-category.       *)
THEOREM AgreementStays == Spec => SoloAgreement
<1> DEFINE Stay == \A q \in Requests :
        EndsAlone(q) /\ ~Moves(req[q]) => Disagreeing(row') \subseteq Disagreeing(row)
<1>1. IInv /\ [Next]_vars => [Stay]_vars
    <2> SUFFICES ASSUME IInv, Next, NEW q \in Requests, EndsAlone(q), ~Moves(req[q])
                 PROVE  Disagreeing(row') \subseteq Disagreeing(row)
        OBVIOUS
    <2> QED BY EndedAlone DEF Worthy
<1>2. SoloAgreement <=> [][Stay]_vars
    BY DEF SoloAgreement
<1> QED BY <1>1, <1>2, Invariance, PTL DEF Spec

(* A route run alone leaves no dropdown wrong that was right: each clears  *)
(* the list it changes before it commits.                                  *)
THEOREM DropdownsStayRight == Spec => SoloDropdown
<1> DEFINE Right == \A q \in Requests, k \in Kinds :
        EndsAlone(q) /\ req[q].op # "hardDelete" /\ cache'[k].dropdown =>
            \/ cache'[k].names = LiveNames(row', k)
            \/ cache'[k] = cache[k] /\ cache[k].names # LiveNames(row, k)
<1>1. IInv /\ [Next]_vars => [Right]_vars
    <2> SUFFICES ASSUME IInv, Next, NEW q \in Requests, NEW k \in Kinds,
                        EndsAlone(q), req[q].op # "hardDelete", cache'[k].dropdown,
                        cache'[k] # cache[k] \/ cache[k].names = LiveNames(row, k)
                 PROVE  cache'[k].names = LiveNames(row', k)
        OBVIOUS
    <2>1. CASE /\ req[q].op = "lookup" /\ row' = row
               /\ cache' = [cache EXCEPT ![req[q].at] = req[q].put]
               /\ req[q].put.names = LiveNames(row, req[q].at)
        <3>1. DOMAIN cache = Kinds
            BY DEF IInv, Shelf
        <3>2. cache'[k] = IF k = req[q].at THEN req[q].put ELSE cache[k]
            BY <2>1, <3>1
        <3> QED BY <2>1, <3>2
    <2>2. CASE /\ cache' = cache
               /\ row' = row \/ (Worthy(req[q], row, row') /\ Shown(req[q], row, row', cache))
        BY <2>2 DEF Shown
    <2> QED BY <2>1, <2>2, EndedAlone
<1>2. SoloDropdown <=> [][Right]_vars
    BY DEF SoloDropdown
<1> QED BY <1>1, <1>2, Invariance, PTL DEF Spec

(* No route that checks names, run alone, makes two records namesakes,     *)
(* records in the trash included, so bringing one back never does either.  *)
THEOREM NamesStayApart == Spec => SoloNames
<1> DEFINE Apart1 == \A q \in Requests :
        EndsAlone(q) /\ ChecksNames(req[q]) => Twins(row') \subseteq Twins(row)
<1>1. IInv /\ [Next]_vars => [Apart1]_vars
    <2> SUFFICES ASSUME IInv, Next, NEW q \in Requests, EndsAlone(q), ChecksNames(req[q])
                 PROVE  Twins(row') \subseteq Twins(row)
        OBVIOUS
    <2> QED BY EndedAlone DEF Worthy
<1>2. SoloNames <=> [][Apart1]_vars
    BY DEF SoloNames
<1> QED BY <1>1, <1>2, Invariance, PTL DEF Spec

(* No route run alone adds a second primary contact to a party or takes    *)
(* the only one away.                                                      *)
THEOREM PrimaryStaysSingle == Spec => SoloPrimary
<1> DEFINE Single == \A q \in Requests, x \in Rows :
        EndsAlone(q) /\ Exists(x) /\ row'[x].life # "purged" /\ row[x].primes <= 1 =>
            row'[x].primes \in {row[x].primes, 1}
<1>1. IInv /\ [Next]_vars => [Single]_vars
    <2> SUFFICES ASSUME IInv, Next, NEW q \in Requests, NEW x \in Rows, EndsAlone(q), Exists(x),
                        row'[x].life # "purged", row[x].primes <= 1
                 PROVE  row'[x].primes \in {row[x].primes, 1}
        OBVIOUS
    <2>1. x \in Kept(row)
        BY DEF Exists, Kept
    <2> QED BY <2>1, EndedAlone DEF Worthy
<1>2. SoloPrimary <=> [][Single]_vars
    BY DEF SoloPrimary
<1> QED BY <1>1, <1>2, Invariance, PTL DEF Spec
================================================================================
