------------------------------ MODULE Masters ------------------------------
(***************************************************************************)
(* Master data (masters/), suppliers, buyers and the trash that serves     *)
(* them (trash/service.py), with the dropdown cache in front of them.      *)
(*                                                                         *)
(* A request first reads, checks, writes inside its transaction and clears *)
(* the cache (one action for each route); it commits in a second action,   *)
(* where the database's constraints may still refuse it.                   *)
(***************************************************************************)
EXTENDS Naturals, FiniteSets

CONSTANTS
    Rows,           \* slots for records of every kind
    Kind,           \* Kind[x]: the kind of record slot x may hold
    Names,          \* what a record may be called
    Fold,           \* Fold[n]: n in lower case
    Scenes,         \* populations to start from: records by slot
    Requests,       \* requests that may be open at once
    Fields,         \* Fields[k]: how many fields of a record of kind k one PATCH may change
    Budget          \* how many requests are served

ASSUME BoundsAssumption == (\A x \in Rows : Fields[Kind[x]] \in Nat) /\ Budget \in Nat
ASSUME RequestsAssumption == IsFiniteSet(Requests) /\ Requests # {}

VARIABLES
    row,        \* row[x]: the record in slot x
    cache,      \* cache[k]: the dropdown of kind k, or that there is none
    req,        \* req[q]: the request q serves
    scene,      \* slots this behaviour is about
    served      \* how many requests have begun

vars == <<row, cache, req, scene, served>>

Kinds == {"country", "state", "city", "category", "subcategory", "brand", "hsn", "uom", "currency",
          "supplierType", "buyerType", "company", "product", "supplier", "buyer"}
Parties == {"supplier", "buyer"}

ASSUME RowsAssumption == Kind \in [Rows -> Kinds] /\ DOMAIN Fold = Names

(* Columns that refer to other records: mandatory ones, optional ones, and *)
(* links of which there may be several.                                    *)
Mandatory(k) ==
    CASE k \in {"state", "buyer"} -> {"country"}
      [] k = "city" -> {"country", "state"}
      [] k = "subcategory" -> {"category"}
      [] k = "product" -> {"category", "uom"}
      [] k = "supplier" -> {"country", "state", "city"}
      [] OTHER -> {}
Optional(k) == IF k = "product" THEN {"subcategory", "brand", "hsn", "secondary"} ELSE {}
Links(k) ==
    CASE k = "supplier" -> {"category", "subcategory", "product"}
      [] k = "buyer" -> {"category", "subcategory"}
      [] OTHER -> {}
Roles(k) == Mandatory(k) \cup Optional(k) \cup Links(k)
RoleNames ==
    {"country", "state", "city", "category", "subcategory", "brand", "hsn", "uom", "secondary", "product"}
Target(role) == IF role = "secondary" THEN "uom" ELSE role

(* A record.  wanted is a party's potential, primes how many primary       *)
(* contacts it has, phone its own number and copy that of its contact.     *)
Blank == [life |-> "unused", name |-> "", refs |-> {}, status |-> "active",
          wanted |-> FALSE, primes |-> 0, phone |-> 0, copy |-> 0]
Gone == [Blank EXCEPT !.life = "purged"]

Of(k) == {x \in Rows : Kind[x] = k}
InColumns(k, refs) == \A p \in refs : p[1] \in Roles(k) /\ Kind[p[2]] = Target(p[1])
Record ==
    [life : {"unused", "live", "trashed", "purged"}, name : Names \cup {""},
     refs : SUBSET (RoleNames \X Rows),
     status : {"active", "inactive", "unset", "new", "existing"},
     wanted : BOOLEAN, primes : Nat, phone : {0, 1}, copy : {0, 1}]

None == [dropdown |-> FALSE, names |-> <<>>]
Idle == [op |-> "none", at |-> "none", put |-> <<>>, given |-> {}, gone |-> {}, primes |-> 0, alone |-> TRUE]

-----------------------------------------------------------------------------
(* What queries find *)

Exists(x) == row[x].life \in {"live", "trashed"}
Live(x) == row[x].life = "live"
To(r, role) == {p[2] : p \in {o \in r.refs : o[1] = role}}
AllLive(r, roles) == \A p \in r.refs : p[1] \in roles => Live(p[2])
LiveNames(rows, k) == [x \in {y \in Of(k) : rows[y].life = "live"} |-> rows[x].name]

SameScope(r, s, roles) == \A role \in roles : To(r, role) = To(s, role)

(* (mutant) Only live records are looked at. *)
TakenLive(x, r, roles) == \E y \in Of(Kind[x]) \ {x} :
    /\ Live(y)
    /\ Fold[row[y].name] = Fold[r.name]
    /\ SameScope(row[y], r, roles)

(* check_trash_or_duplicate: another record, live or in the trash, goes by *)
(* this name, case aside.                                                  *)
Taken(x, r, roles) == \E y \in Of(Kind[x]) \ {x} :
    /\ Exists(y)
    /\ Fold[row[y].name] = Fold[r.name]
    /\ SameScope(row[y], r, roles)

(* get_by_name: a live record goes by exactly this name. *)
Known(x, r, roles) == \E y \in Of(Kind[x]) \ {x} :
    Live(y) /\ row[y].name = r.name /\ SameScope(row[y], r, roles)

Used(x, k, role) == \E y \in Of(k) : Live(y) /\ x \in To(row[y], role)

NameFits(x, r, given, roles) == "name" \in given => ~Taken(x, r, roles)

-----------------------------------------------------------------------------
(* The database's constraints *)

Unnamed == {"product", "supplier", "buyer"}
UniqueWithin(k) ==
    CASE k = "state" -> {"country"}
      [] k = "city" -> {"state"}
      [] k = "subcategory" -> {"category"}
      [] OTHER -> {}

Kept(rows) == {x \in Rows : rows[x].life \in {"live", "trashed"}}
NamesDiffer(rows) == \A x, y \in Kept(rows) :
    x # y /\ Kind[x] = Kind[y] /\ Kind[x] \notin Unnamed /\ rows[x].name = rows[y].name =>
        ~SameScope(rows[x], rows[y], UniqueWithin(Kind[x]))
ReferencesExist(rows) == \A x \in Kept(rows) : \A p \in rows[x].refs : p[2] \in Kept(rows)
(* (mutant) References are not checked. *)
DbHoldsNames(rows) == NamesDiffer(rows)
DbHolds(rows) == NamesDiffer(rows) /\ ReferencesExist(rows)

(* The order in which MODEL_MAP lists the kinds. *)
MapOrder(k) ==
    CASE k = "product" -> 1 [] k = "category" -> 2 [] k = "subcategory" -> 3 [] k = "brand" -> 4
      [] k = "uom" -> 5 [] k = "hsn" -> 6 [] k = "country" -> 7 [] k = "state" -> 8 [] k = "city" -> 9
      [] k = "currency" -> 10 [] k = "supplierType" -> 11 [] k = "buyerType" -> 12 [] k = "company" -> 13
      [] k = "supplier" -> 14 [] k = "buyer" -> 15

(* One DELETE for each kind, in that order, each of them checked at once:  *)
(* a record may go when whoever refers to it has gone before.              *)
MayPurge(gone) == \A x \in gone, y \in Kept(row) :
    (\E p \in row[y].refs : p[2] = x) => y \in gone /\ MapOrder(Kind[y]) < MapOrder(Kind[x])

-----------------------------------------------------------------------------
(* The checks of create and update, by kind.  r is the record as it would  *)
(* be, given the fields the request carries.                               *)

CountryFits(x, r, given) == NameFits(x, r, given, {})
StateFits(x, r, given) ==
    /\ "country" \in given => AllLive(r, {"country"})
    /\ NameFits(x, r, given, {"country"})
CityFits(x, r, given) ==
    /\ given \cap {"country", "state"} # {} =>
        AllLive(r, {"state"}) /\ \A s \in To(r, "state") : To(row[s], "country") = To(r, "country")
    /\ NameFits(x, r, given, {"state"})
CategoryFits(x, r, given) == NameFits(x, r, given, {})
SubCategoryFits(x, r, given) ==
    /\ "category" \in given => AllLive(r, {"category"})
    /\ NameFits(x, r, given, {"category"})
BrandFits(x, r, given) == NameFits(x, r, given, {})
HsnFits(x, r, given) == NameFits(x, r, given, {})
UomFits(x, r, given) == NameFits(x, r, given, {})
CurrencyFits(x, r, given) == NameFits(x, r, given, {})
SupplierTypeFits(x, r, given) == NameFits(x, r, given, {})
BuyerTypeFits(x, r, given) == NameFits(x, r, given, {})
CompanyFits(x, r, given) == NameFits(x, r, given, {})

(* (mutant) Only the given fields are validated. *)
ValidGiven(r, given) ==
    /\ AllLive(r, given)
    /\ {"category", "subcategory"} \subseteq given =>
        \A s \in To(r, "subcategory") : To(row[s], "category") = To(r, "category")
    /\ To(r, "secondary") \cap To(r, "uom") = {}

(* _validate_references, of the fields merged with those of the product. *)
ValidReferences(r, given) ==
    /\ AllLive(r, Roles("product"))
    /\ \A s \in To(r, "subcategory") : To(row[s], "category") = To(r, "category")
    /\ To(r, "secondary") \cap To(r, "uom") = {}
ProductFits(x, r, given) == NameFits(x, r, given, {}) /\ ValidReferences(r, given)

(* Once existing, never new again. *)
StatusFits(x, r, given) == "status" \in given => ~(row[x].status = "existing" /\ r.status = "new")

(* A PATCH carries every field, those not given as null, so the geography  *)
(* of a supplier and the name of a buyer are checked whatever is given.    *)
GeographyFits(r) ==
    /\ AllLive(r, {"country", "state", "city"})
    /\ \A s \in To(r, "state") : To(row[s], "country") = To(r, "country")
    /\ \A c \in To(r, "city") : To(row[c], "state") = To(r, "state")
SupplierFits(x, r, given) ==
    /\ GeographyFits(r)
    /\ AllLive(r, given \cap Links("supplier"))
    /\ {"name", "city"} \cap given # {} => ~Taken(x, r, {"city"})
    /\ StatusFits(x, r, given)
BuyerFits(x, r, given) ==
    /\ AllLive(r, given \cap Roles("buyer"))
    /\ ~Taken(x, r, {})
    /\ StatusFits(x, r, given)

-----------------------------------------------------------------------------
(* Whether a record is in use, and whether it may be deleted *)

CountryInUse(x) == Used(x, "state", "country")
StateInUse(x) == Used(x, "city", "state")
CityInUse(x) == FALSE
(* (mutant) Only the categories' own products are counted. *)
CategoryInUseByProduct(x) == Used(x, "product", "category")
CategoryInUse(x) == Used(x, "subcategory", "category") \/ Used(x, "product", "category")
SubCategoryInUse(x) == Used(x, "product", "subcategory")
BrandInUse(x) == Used(x, "product", "brand")
HsnInUse(x) == Used(x, "product", "hsn")
UomInUse(x) == Used(x, "product", "uom")
CurrencyInUse(x) == FALSE
SupplierTypeInUse(x) == FALSE
BuyerTypeInUse(x) == FALSE
ProductInUse(x) == \E y \in Of("supplier") : Exists(y) /\ x \in To(row[y], "product")

CountryGoes(x) == ~CountryInUse(x)
StateGoes(x) == ~StateInUse(x)
CityGoes(x) == ~CityInUse(x)
CategoryGoes(x) == ~CategoryInUse(x)
SubCategoryGoes(x) == ~SubCategoryInUse(x)
BrandGoes(x) == ~BrandInUse(x)
HsnGoes(x) == ~HsnInUse(x)
UomGoes(x) == ~UomInUse(x)
CurrencyGoes(x) == ~CurrencyInUse(x)
SupplierTypeGoes(x) == TRUE
BuyerTypeGoes(x) == TRUE
CompanyGoes(x) == TRUE
ProductGoes(x) == row[x].status = "inactive" /\ ~ProductInUse(x)
SupplierGoes(x) == row[x].status # "existing" /\ ~row[x].wanted
BuyerGoes(x) == row[x].status # "existing" /\ ~row[x].wanted

-----------------------------------------------------------------------------
(* Which row of a file is created; the others are reported *)

CountryImports(x, r) == ~Known(x, r, {})
StateImports(x, r) == AllLive(r, {"country"}) /\ ~Known(x, r, {"country"})
CityImports(x, r) ==
    /\ AllLive(r, {"country", "state"})
    /\ \A s \in To(r, "state") : To(row[s], "country") = To(r, "country")
    /\ ~Known(x, r, {"state"})
CategoryImports(x, r) == ~Known(x, r, {})
SubCategoryImports(x, r) == AllLive(r, {"category"}) /\ ~Known(x, r, {"category"})
BrandImports(x, r) == ~Known(x, r, {})
HsnImports(x, r) == ~Known(x, r, {})
UomImports(x, r) == ~Known(x, r, {})
CurrencyImports(x, r) == ~Known(x, r, {})
SupplierTypeImports(x, r) == ~Known(x, r, {})
BuyerTypeImports(x, r) == ~Known(x, r, {})
CompanyImports(x, r) == ~Taken(x, r, {})
ProductImports(x, r) ==
    /\ ValidReferences(r, {})
    /\ To(r, "secondary") = {}
    /\ ~Taken(x, r, {})
SupplierImports(x, r) ==
    /\ To(r, "product") = {}
    /\ ~TakenLive(x, r, {})
    /\ SupplierFits(x, r, Roles("supplier") \cup {"name"})
BuyerImports(x, r) == BuyerFits(x, r, Roles("buyer") \cup {"name"})

(* Two rows of a file that the import takes for one. *)
Doubles(k, r, s) ==
    IF k \in {"company", "product", "supplier", "buyer"}
    THEN Fold[r.name] = Fold[s.name]
    ELSE r.name = s.name /\ SameScope(r, s, UniqueWithin(k))

-----------------------------------------------------------------------------
(* Requests: what clients send *)

(* References a client may give: to records it may have seen, one in each  *)
(* mandatory column and at most one in each optional one.                  *)
Seen(roles) == UNION {{role} \X {y \in Of(Target(role)) : Exists(y)} : role \in roles}
OneEach(S) == \A p, o \in S : p[1] = o[1] => p = o
RefSets(k) ==
    {S \cup T \cup L :
        S \in {M \in SUBSET Seen(Mandatory(k)) : OneEach(M) /\ {p[1] : p \in M} = Mandatory(k)},
        T \in {O \in SUBSET Seen(Optional(k)) : OneEach(O)},
        L \in SUBSET Seen(Links(k))}
Statuses(k) ==
    CASE k = "product" -> {"active", "inactive"}
      [] k \in Parties -> {"unset", "new", "existing"}
      [] OTHER -> {"active"}
(* What may become of a potential or a phone number, which only parties    *)
(* have.                                                                   *)
Potentials(k, old) == IF k \in Parties THEN BOOLEAN ELSE {old}
Phones(k, old) == IF k \in Parties THEN {old, 1} ELSE {old}
Sent(n, S, st, w) == [Blank EXCEPT !.life = "live", !.name = n, !.refs = S, !.status = st, !.wanted = w]
Records(k) ==
    {Sent(n, S, st, w) : n \in Names, S \in RefSets(k), st \in Statuses(k), w \in Potentials(k, Blank.wanted)}

(* What one PATCH may make of a record: at most Fields[k] columns change.  *)
Differ(k, r, s) ==
    {role \in Roles(k) : To(r, role) # To(s, role)}
    \cup {field \in {"name", "status", "wanted", "phone"} : r[field] # s[field]}
Rewritten(r, n, S, st, w, p) == [r EXCEPT !.name = n, !.refs = S, !.status = st, !.wanted = w, !.phone = p]
Patched(k, r) ==
    {s \in {Rewritten(r, n, S, st, w, p) :
                n \in Names, S \in RefSets(k), st \in Statuses(k) \cup {r.status},
                w \in Potentials(k, r.wanted), p \in Phones(k, r.phone)} :
        Cardinality(Differ(k, r, s)) <= Fields[k]}

(* The fields in which r differs from the record of x; a number or a       *)
(* status once set is not cleared, since nulls are dropped.                *)
Given(x, r) ==
    {role \in Roles(Kind[x]) : To(row[x], role) # To(r, role)}
    \cup (IF row[x].name # r.name THEN {"name"} ELSE {})
    \cup (IF row[x].status # r.status /\ r.status # "unset" THEN {"status"} ELSE {})
    \cup (IF row[x].wanted # r.wanted THEN {"wanted"} ELSE {})
    \cup (IF row[x].phone # r.phone /\ r.phone # 0 THEN {"phone"} ELSE {})

(* A party's contact person, given with a number, becomes its primary      *)
(* contact.                                                                *)
Mirrored(r, contact) == IF contact THEN [r EXCEPT !.phone = 1, !.primes = 1, !.copy = 1] ELSE r
Contacts(k) == IF k \in Parties THEN BOOLEAN ELSE {FALSE}

Accepts(q) == req[q] = Idle /\ served < Budget
Begin(q, request) ==
    /\ served' = served + 1
    /\ LET quiet == \A o \in Requests : req[o] = Idle
       IN  req' = [o \in Requests |->
                    IF o = q THEN [request EXCEPT !.alone = quiet]
                    ELSE IF req[o] = Idle THEN Idle ELSE [req[o] EXCEPT !.alone = FALSE]]
    /\ UNCHANGED <<row, scene>>

(* (mutant) The dropdown is left as it is. *)
MutatesQuietly(q, k, request) == Begin(q, request) /\ UNCHANGED cache

(* A mutation clears the dropdown of its kind before it commits. *)
Mutates(q, k, request) == Begin(q, request) /\ cache' = [cache EXCEPT ![k] = None]

Free(x) ==
    /\ x \in scene
    /\ row[x].life = "unused"
    /\ \A o \in Requests : x \notin DOMAIN req[o].put

Create(q, k, Fits(_, _, _)) ==
    \E x \in {y \in Of(k) : Free(y)} : \E r \in Records(k), contact \in Contacts(k) :
        /\ Fits(x, r, Roles(k) \cup {"name"})
        /\ Mutates(q, k, [Idle EXCEPT !.op = "create", !.at = x, !.put = [y \in {x} |-> Mirrored(r, contact)]])

(* A supplier's file gives the numbers to the contact and not to the        *)
(* supplier itself.                                                        *)
Filed(k, r, contact) == IF k = "supplier" THEN [Mirrored(r, contact) EXCEPT !.phone = 0] ELSE Mirrored(r, contact)

(* run_import: the rows that pass are created in one transaction. *)
Import(q, k, Imports(_, _)) ==
    \E S \in SUBSET {x \in Of(k) : Free(x)} : \E contact \in Contacts(k) :
        /\ Cardinality(S) \in 1..2
        /\ \E f \in [S -> Records(k)] :
            /\ \A x \in S : Imports(x, f[x])
            /\ \A x, y \in S : x # y => ~Doubles(k, f[x], f[y])
            /\ Mutates(q, k, [Idle EXCEPT !.op = "import", !.put = [x \in S |-> Filed(k, f[x], contact)]])

(* PATCH, activate and deactivate; the primary contact of a party is       *)
(* looked up, which fails if there are several.                            *)
Update(q, k, Fits(_, _, _)) ==
    \E x \in {y \in Of(k) : Live(y)} : \E r \in Patched(k, row[x]), contact \in Contacts(k) :
        /\ row[x].primes <= 1
        /\ Fits(x, r, Given(x, r))
        /\ Mutates(q, k, [Idle EXCEPT !.op = "update", !.at = x, !.put = [y \in {x} |-> r], !.primes = row[x].primes,
                            !.given = Given(x, r) \cup (IF contact THEN {"contact"} ELSE {})])

Delete(q, k, Goes(_)) == \E x \in Of(k) :
    /\ Live(x)
    /\ Goes(x)
    /\ Mutates(q, k, [Idle EXCEPT !.op = "delete", !.at = x])

(* A cached list that misses is read from the database; storing it is the  *)
(* second step.                                                            *)
Lookup(q, k) ==
    /\ ~cache[k].dropdown
    /\ Begin(q, [Idle EXCEPT !.op = "lookup", !.at = k,
                    !.put = [dropdown |-> TRUE, names |-> LiveNames(row, k)]])
    /\ UNCHANGED cache

(* A route that writes fields of a party past the checks of update. *)
SetField(q, x, given, r) ==
    /\ Live(x)
    /\ Mutates(q, Kind[x], [Idle EXCEPT !.op = "set", !.at = x, !.put = [y \in {x} |-> r], !.given = given])
SetWanted(q, k) == \E x \in Of(k), w \in BOOLEAN : SetField(q, x, {"wanted"}, [Blank EXCEPT !.wanted = w])
Touch(q, k) == \E x \in Of(k) : SetField(q, x, {}, Blank)

-----------------------------------------------------------------------------
(* Routes *)

CountryAdds(q) == Create(q, "country", CountryFits) \/ Import(q, "country", CountryImports) \/ Lookup(q, "country")
CountryChanges(q) == Update(q, "country", CountryFits) \/ Delete(q, "country", CountryGoes)
StateAdds(q) == Create(q, "state", StateFits) \/ Import(q, "state", StateImports) \/ Lookup(q, "state")
StateChanges(q) == Update(q, "state", StateFits) \/ Delete(q, "state", StateGoes)
CityAdds(q) == Create(q, "city", CityFits) \/ Import(q, "city", CityImports) \/ Lookup(q, "city")
CityChanges(q) == Update(q, "city", CityFits) \/ Delete(q, "city", CityGoes)
CategoryAdds(q) ==
    Create(q, "category", CategoryFits) \/ Import(q, "category", CategoryImports) \/ Lookup(q, "category")
CategoryChanges(q) == Update(q, "category", CategoryFits) \/ Delete(q, "category", CategoryGoes)
SubCategoryAdds(q) ==
    \/ Create(q, "subcategory", SubCategoryFits)
    \/ Import(q, "subcategory", SubCategoryImports)
    \/ Lookup(q, "subcategory")
SubCategoryChanges(q) == Update(q, "subcategory", SubCategoryFits) \/ Delete(q, "subcategory", SubCategoryGoes)
BrandAdds(q) == Create(q, "brand", BrandFits) \/ Import(q, "brand", BrandImports)
BrandChanges(q) == Update(q, "brand", BrandFits) \/ Delete(q, "brand", BrandGoes)
HsnAdds(q) == Create(q, "hsn", HsnFits) \/ Import(q, "hsn", HsnImports)
HsnChanges(q) == Update(q, "hsn", HsnFits) \/ Delete(q, "hsn", HsnGoes)
UomAdds(q) == Create(q, "uom", UomFits) \/ Import(q, "uom", UomImports)
UomChanges(q) == Update(q, "uom", UomFits) \/ Delete(q, "uom", UomGoes)
CurrencyAdds(q) == Create(q, "currency", CurrencyFits) \/ Import(q, "currency", CurrencyImports)
CurrencyChanges(q) == Update(q, "currency", CurrencyFits) \/ Delete(q, "currency", CurrencyGoes)
SupplierTypeAdds(q) == Create(q, "supplierType", SupplierTypeFits) \/ Import(q, "supplierType", SupplierTypeImports)
SupplierTypeChanges(q) == Update(q, "supplierType", SupplierTypeFits) \/ Delete(q, "supplierType", SupplierTypeGoes)
BuyerTypeAdds(q) == Create(q, "buyerType", BuyerTypeFits) \/ Import(q, "buyerType", BuyerTypeImports)
BuyerTypeChanges(q) == Update(q, "buyerType", BuyerTypeFits) \/ Delete(q, "buyerType", BuyerTypeGoes)
CompanyAdds(q) == Lookup(q, "company") \/ Import(q, "company", CompanyImports) \/ Create(q, "company", CompanyFits)
CompanyChanges(q) == Update(q, "company", CompanyFits) \/ Delete(q, "company", CompanyGoes)
ProductAdds(q) == Create(q, "product", ProductFits) \/ Import(q, "product", ProductImports)
ProductChanges(q) == Update(q, "product", ProductFits) \/ Delete(q, "product", ProductGoes)
SupplierAdds(q) == Create(q, "supplier", SupplierFits) \/ Import(q, "supplier", SupplierImports)
SupplierChanges(q) == Update(q, "supplier", SupplierFits)
SupplierSets(q) == SetWanted(q, "supplier") \/ Touch(q, "supplier")
SupplierEnds(q) == Delete(q, "supplier", SupplierGoes)

(* The list's own status: here it may also be cleared. *)
SetBuyerStatus(q) == \E x \in Of("buyer"), st \in Statuses("buyer") :
    LET r == [Blank EXCEPT !.status = st]
    IN  StatusFits(x, r, {"status"}) /\ SetField(q, x, {"status"}, r)
BuyerAdds(q) == Create(q, "buyer", BuyerFits) \/ Import(q, "buyer", BuyerImports)
BuyerChanges(q) == Update(q, "buyer", BuyerFits)
BuyerSets(q) == SetBuyerStatus(q) \/ SetWanted(q, "buyer") \/ Touch(q, "buyer")
BuyerEnds(q) == Delete(q, "buyer", BuyerGoes)

(* update_contact, of the primary contact. *)
UpdateContact(q) == \E x \in Rows :
    /\ Live(x) /\ row[x].primes > 0
    /\ Begin(q, [Idle EXCEPT !.op = "contact", !.at = x])
    /\ UNCHANGED cache

(* The trash serves one record a request; it checks neither parents nor    *)
(* names, and clears every dropdown.                                       *)
Restore(q) == \E x \in Rows :
    /\ Exists(x)
    /\ Begin(q, [Idle EXCEPT !.op = "restore", !.at = x])
    /\ cache' = [k \in Kinds |-> None]
HardDelete(q) == \E x \in Rows :
    /\ Exists(x)
    /\ MayPurge({x})
    /\ Begin(q, [Idle EXCEPT !.op = "hardDelete", !.gone = {x}])
    /\ UNCHANGED cache

(* empty_trash takes every record in the trash, purge_expired those that   *)
(* have been there long enough.                                            *)
Purge(q, gone) ==
    /\ MayPurge(gone)
    /\ Begin(q, [Idle EXCEPT !.op = "purge", !.gone = gone])
    /\ UNCHANGED cache
EmptyTrash(q) == Purge(q, {x \in Rows : row[x].life = "trashed"})
PurgeExpired(q) == \E gone \in SUBSET {x \in Rows : row[x].life = "trashed"} : Purge(q, gone)

-----------------------------------------------------------------------------
(* Commits *)

(* The given fields of a record take the values of r. *)
Merged(old, r, given) ==
    [old EXCEPT
        !.refs = {p \in @ : p[1] \notin given} \cup {p \in r.refs : p[1] \in given},
        !.name = IF "name" \in given THEN r.name ELSE @,
        !.status = IF "status" \in given THEN r.status ELSE @,
        !.wanted = IF "wanted" \in given THEN r.wanted ELSE @,
        !.phone = IF "phone" \in given THEN r.phone ELSE @]

(* (mutant) Another primary contact is added whether there is one or not. *)
ContactAdded(old, r, request) ==
    IF "contact" \in request.given
    THEN [old EXCEPT !.primes = @ + 1, !.copy = r.phone]
    ELSE old

(* The primary contact is written with what the PATCH carries, nulls       *)
(* included; if there is none, a contact person becomes one.               *)
ContactSynced(old, r, request) ==
    IF request.primes = 1 THEN [old EXCEPT !.copy = IF "phone" \in request.given THEN r.phone ELSE 0]
    ELSE IF "contact" \in request.given THEN [old EXCEPT !.primes = @ + 1, !.copy = r.phone]
    ELSE old

(* Requests the rows of which must still be there. *)
Writes == {"update", "set", "delete", "restore", "contact"}

Outcome(request) ==
    LET x == request.at
        r == request.put[x]
    IN  CASE request.op \in {"create", "import"} ->
                [y \in Rows |-> IF y \in DOMAIN request.put THEN request.put[y] ELSE row[y]]
          [] request.op = "update" /\ Kind[x] \in Parties ->
                [row EXCEPT ![x] = ContactSynced(Merged(@, r, request.given), r, request)]
          [] request.op = "set" \/ (request.op = "update" /\ Kind[x] \notin Parties) ->
                [row EXCEPT ![x] = Merged(@, r, request.given)]
          [] request.op = "delete" -> [row EXCEPT ![x].life = "trashed"]
          [] request.op = "restore" -> [row EXCEPT ![x].life = "live"]
          [] request.op = "contact" -> [row EXCEPT ![x].copy = 1]
          [] request.op = "hardDelete" -> [y \in Rows |-> IF y \in request.gone THEN Gone ELSE row[y]]
          [] request.op = "purge" ->
                [y \in Rows |-> IF y \in request.gone /\ ~Live(y) THEN Gone ELSE row[y]]

Commit(q) ==
    /\ req[q].op \notin {"none", "lookup"}
    /\ \E rows \in {Outcome(req[q])} :
        row' = IF DbHolds(rows) /\ (req[q].op \in Writes => Exists(req[q].at)) THEN rows ELSE row
    /\ req' = [req EXCEPT ![q] = Idle]
    /\ UNCHANGED <<cache, scene, served>>

StoreLookup(q) ==
    /\ req[q].op = "lookup"
    /\ cache' = [cache EXCEPT ![req[q].at] = req[q].put]
    /\ req' = [req EXCEPT ![q] = Idle]
    /\ UNCHANGED <<row, scene, served>>

(* A dropdown reaches its age, or is the least recently used of a full     *)
(* cache; an administrator flushes the cache.                              *)
Expire == \E k \in Kinds :
    /\ cache[k].dropdown
    /\ cache' = [cache EXCEPT ![k] = None]
    /\ UNCHANGED <<row, req, scene, served>>
Flush ==
    /\ \E k \in Kinds : cache[k].dropdown
    /\ cache' = [k \in Kinds |-> None]
    /\ UNCHANGED <<row, req, scene, served>>

-----------------------------------------------------------------------------
(* Scenes hold records that the database would take, none with a second    *)
(* primary contact.                                                        *)
Populated(s) == [x \in Rows |-> IF x \in DOMAIN s THEN s[x] ELSE Blank]
ASSUME ScenesAssumption == \A s \in Scenes :
    /\ \A x \in Rows \cap DOMAIN s : s[x] # Blank =>
        s[x] \in Record /\ s[x].name \in Names /\ InColumns(Kind[x], s[x].refs) /\ s[x].primes <= 1
    /\ DbHolds(Populated(s))

Init ==
    \E s \in Scenes :
        /\ scene = DOMAIN s
        /\ row = Populated(s)
        /\ cache = [k \in Kinds |-> None]
        /\ req = [q \in Requests |-> Idle]
        /\ served = 0

Serve(q) ==
    \/ CountryAdds(q) \/ CountryChanges(q) \/ StateAdds(q) \/ StateChanges(q)
    \/ CityAdds(q) \/ CityChanges(q) \/ CategoryAdds(q) \/ CategoryChanges(q)
    \/ SubCategoryAdds(q) \/ SubCategoryChanges(q) \/ BrandAdds(q) \/ BrandChanges(q)
    \/ HsnAdds(q) \/ HsnChanges(q) \/ UomAdds(q) \/ UomChanges(q)
    \/ CurrencyAdds(q) \/ CurrencyChanges(q) \/ SupplierTypeAdds(q) \/ SupplierTypeChanges(q)
    \/ BuyerTypeAdds(q) \/ BuyerTypeChanges(q) \/ CompanyAdds(q) \/ CompanyChanges(q)
    \/ ProductAdds(q) \/ ProductChanges(q)
    \/ SupplierAdds(q) \/ SupplierChanges(q) \/ SupplierSets(q) \/ SupplierEnds(q)
    \/ BuyerAdds(q) \/ BuyerChanges(q) \/ BuyerSets(q) \/ BuyerEnds(q)
    \/ UpdateContact(q) \/ Restore(q) \/ HardDelete(q) \/ EmptyTrash(q) \/ PurgeExpired(q)

Next ==
    \/ \E q \in Requests : (Accepts(q) /\ Serve(q)) \/ Commit(q) \/ StoreLookup(q)
    \/ Expire
    \/ Flush

Spec == Init /\ [][Next]_vars

-----------------------------------------------------------------------------
(* Properties *)

TypeOK ==
    /\ row \in [Rows -> Record]
    /\ \A x \in Rows :
        /\ Exists(x) => row[x].name \in Names /\ InColumns(Kind[x], row[x].refs)
        /\ row[x].primes <= Cardinality(Requests)
    /\ \A k \in Kinds : cache[k].dropdown => DOMAIN cache[k].names \subseteq Of(k)
    /\ NamesDiffer(row)
    /\ ReferencesExist(row)

EndsAlone(q) == req[q].op # "none" /\ req'[q] = Idle /\ req[q].alone

(* References that deletions look at, by the kind and column that refer.   *)
Guarded ==
    {<<"state", "country">>, <<"city", "state">>, <<"subcategory", "category">>, <<"supplier", "product">>}
    \cup {"product"} \X {"category", "subcategory", "brand", "hsn", "uom"}
Dangling(rows) ==
    UNION {{<<y, p>> : p \in {o \in rows[y].refs : <<Kind[y], o[1]>> \in Guarded /\ rows[o[2]].life # "live"}} :
        y \in {z \in Rows : rows[z].life = "live"}}

(* Whatever overlaps left behind, a request that ran alone leaves no live  *)
(* record whose guarded reference leads to the trash or nowhere and did    *)
(* not before; only bringing back a record from the trash may.             *)
SoloParents == [][\A q \in Requests :
    EndsAlone(q) /\ req[q].op # "restore" => Dangling(row') \subseteq Dangling(row)]_vars

(* Live records whose columns contradict each other: a city in a country   *)
(* its state is not in, a supplier likewise, a product in a category its   *)
(* sub-category is not in.                                                 *)
Disagreeing(rows) == {x \in Rows :
    /\ rows[x].life = "live"
    /\ \/ \E s \in To(rows[x], "state") : To(rows[s], "country") # To(rows[x], "country")
       \/ \E c \in To(rows[x], "city") : To(rows[c], "state") # To(rows[x], "state")
       \/ Kind[x] = "product" /\ \E s \in To(rows[x], "subcategory") :
            To(rows[s], "category") # To(rows[x], "category")}
Moves(r) ==
    \/ r.op = "restore"
    \/ r.op = "update" /\ Kind[r.at] \in {"state", "city", "subcategory"} /\ r.given \ {"name"} # {}

(* A request that ran alone makes no live record contradict itself, unless *)
(* it moves a state, a city or a sub-category under another parent or      *)
(* brings a record back.                                                   *)
SoloAgreement == [][\A q \in Requests :
    EndsAlone(q) /\ ~Moves(req[q]) => Disagreeing(row') \subseteq Disagreeing(row)]_vars

(* A dropdown that was right or not cached is so after every request that  *)
(* ran alone, except when the trash's permanent deletion takes a live      *)
(* record.                                                                 *)
SoloDropdown == [][\A q \in Requests, k \in Kinds :
    EndsAlone(q) /\ req[q].op # "hardDelete" /\ cache'[k].dropdown =>
        \/ cache'[k].names = LiveNames(row', k)
        \/ cache'[k] = cache[k] /\ cache[k].names # LiveNames(row, k)]_vars

(* Records, live or in the trash, that go by one name in one scope.        *)
SameName(k) == IF k = "supplier" THEN {"city"} ELSE UniqueWithin(k)
Twins(rows) == {T \in Kept(rows) \X Kept(rows) :
    /\ T[1] # T[2]
    /\ Kind[T[1]] = Kind[T[2]]
    /\ Fold[rows[T[1]].name] = Fold[rows[T[2]].name]
    /\ SameScope(rows[T[1]], rows[T[2]], SameName(Kind[T[1]]))}
ChecksNames(r) ==
    /\ r.op = "import" => \A x \in DOMAIN r.put : Kind[x] \in {"company", "product", "supplier", "buyer"}
    /\ r.op = "update" => Kind[r.at] = "supplier" \/ r.given \cap SameName(Kind[r.at]) = {}

(* A request that ran alone makes no two records namesakes, case aside,    *)
(* not even one in the trash, so that a restoration never does either;     *)
(* files of the plain masters and moves to another parent are exempt.      *)
SoloNames == [][\A q \in Requests :
    EndsAlone(q) /\ ChecksNames(req[q]) => Twins(row') \subseteq Twins(row)]_vars

(* No request that ran alone gives a party a second primary contact, which *)
(* would make every later PATCH of it fail, or takes the only one away.    *)
SoloPrimary == [][\A q \in Requests, x \in Rows :
    EndsAlone(q) /\ Exists(x) /\ row'[x].life # "purged" /\ row[x].primes <= 1 =>
        row'[x].primes \in {row[x].primes, 1}]_vars

=============================================================================
