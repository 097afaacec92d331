----------------------------- MODULE MCMasters -----------------------------
(* Instances of Masters for TLC. *)
EXTENDS Masters, TLC

Slots == {"c1", "c2", "s1", "s2", "t1", "t2", "g1", "g2", "u1", "u2", "b1", "h1", "m1", "m2",
          "y1", "v1", "w1", "o1", "o2", "p1", "p2", "f1", "f2", "e1", "e2"}
KindOf == [x \in Slots |->
    CASE x \in {"c1", "c2"} -> "country" [] x \in {"s1", "s2"} -> "state" [] x \in {"t1", "t2"} -> "city"
      [] x \in {"g1", "g2"} -> "category" [] x \in {"u1", "u2"} -> "subcategory" [] x = "b1" -> "brand"
      [] x = "h1" -> "hsn" [] x \in {"m1", "m2"} -> "uom" [] x = "y1" -> "currency"
      [] x = "v1" -> "supplierType" [] x = "w1" -> "buyerType" [] x \in {"o1", "o2"} -> "company"
      [] x \in {"p1", "p2"} -> "product" [] x \in {"f1", "f2"} -> "supplier" [] OTHER -> "buyer"]
Lower == [n \in {"a", "A"} |-> "a"]

Is(n, refs) == [Blank EXCEPT !.life = "live", !.name = n, !.refs = refs]
Party(n, refs, primes) == [Is(n, refs) EXCEPT !.status = "unset", !.primes = primes, !.phone = primes, !.copy = primes]

Geography == ("c1" :> Is("a", {}) @@ "c2" :> Is("A", {}) @@ "s1" :> Is("a", {<<"country", "c1">>})
    @@ "s2" :> Blank @@ "t2" :> Blank @@ "t1" :> Is("a", {<<"country", "c1">>, <<"state", "s1">>}))
Countries == ("c1" :> Is("a", {}) @@ "c2" :> Blank @@ "s1" :> Is("a", {<<"country", "c1">>}))
Categories == ("g1" :> Is("a", {}) @@ "g2" :> Is("A", {}) @@ "u1" :> Is("a", {<<"category", "g1">>})
    @@ "u2" :> Blank @@ "m1" :> Is("a", {})
    @@ "p1" :> Is("a", {<<"category", "g1">>, <<"uom", "m1">>, <<"subcategory", "u1">>}))
Products == ("g1" :> Is("a", {}) @@ "b1" :> Is("a", {}) @@ "m1" :> Is("a", {})
    @@ "m2" :> Is("A", {}) @@ "p1" :> Blank)
Plain == ("y1" :> Blank @@ "v1" :> Blank @@ "w1" :> Blank @@ "h1" :> Blank @@ "m1" :> Blank
    @@ "b1" :> Blank @@ "g1" :> Blank @@ "o1" :> Is("a", {}) @@ "o2" :> Blank)
Suppliers == ("c1" :> Is("a", {}) @@ "s1" :> Is("a", {<<"country", "c1">>})
    @@ "t1" :> Is("a", {<<"country", "c1">>, <<"state", "s1">>})
    @@ "f1" :> Party("a", {<<"country", "c1">>, <<"state", "s1">>, <<"city", "t1">>}, 0) @@ "f2" :> Blank)
Buyers == ("c1" :> Is("a", {}) @@ "g1" :> Is("a", {}) @@ "e1" :> Party("a", {<<"country", "c1">>}, 0) @@ "e2" :> Blank)

AllScenes == {Geography, Countries, Categories, Products, Plain, Suppliers, Buyers}
FieldsOf == [k \in Kinds |-> IF k \in Parties THEN 1 ELSE 2]
RequestSymmetry == Permutations(Requests)
=============================================================================
