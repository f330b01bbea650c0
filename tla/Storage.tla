-------------------------------- MODULE Storage --------------------------------
(* Objects saved under a name (lib/storage) in what the platform offers: the    *)
(* local and session storage, cookies and memory of a browser, or the memory of *)
(* a server.  The storage of a section is found again at every use, the first   *)
(* of its types that takes a test item; the TokenManager keeps the one it found *)
(* when it was made.  Tokens in cookies are kept one in a cookie.               *)
(*                                                                              *)
(* An object has fields of a size, 0 if it lacks one; a cookie holds 2.  Names  *)
(* differ and none begins with another, and one tab works at a time.            *)
EXTENDS Sequences, Functions, Naturals

CONSTANTS Tabs,     \* pages, each with a client, or the clients of a server
          Used,     \* the sections that are used together, tried one set at a time
          Written,  \* the objects that are written
          MaxWrites \* bound: writes

VARIABLES used,  \* the sections in use
          platform,
          given, \* the storageType that the application asks of the token section
          full,  \* the storages that take no more items
          items, \* what lies where, of all that is not empty
          kept,  \* per tab, the storage of its TokenManager
          saved, \* history: the places written to, with the objects they may hold
          writes

storageVars == <<used, platform, given, full, items, kept, saved, writes>>

Sections == {"token", "cache", "transaction", "shared", "idx"}
Types == {"localStorage", "sessionStorage", "cookie", "memory"}
Fields == {"a", "b"}
Objects == [Fields -> 0 .. 3]
Nothing == [f \in Fields |-> 0]
Only(f, size) == [Nothing EXCEPT ![f] = size]

\* An object lies in a place as a whole, in the cookie of a field, or in a field
\* of the transaction.
Everywhere == "all"
Parts == {"whole", "idx"} \cup Fields
Places == Sections \X Types \X (Tabs \cup {Everywhere})

TypeOK == /\ used \subseteq Sections
          /\ platform \in {"browser", "server"}
          /\ given \in Types \cup {"none"}
          /\ full \subseteq {"localStorage", "sessionStorage"}
          /\ DOMAIN items \subseteq Places \X Parts
          /\ \A q \in DOMAIN items : items[q] \in Objects \ {Nothing}
          /\ kept \in [Tabs -> Types]
          /\ DOMAIN saved \subseteq Places
          /\ \A p \in DOMAIN saved : saved[p] \subseteq Objects
          /\ writes \in 0 .. MaxWrites

-------------------------------------------------------------------------------
\* STORAGE_MANAGER_OPTIONS: the types of a section, the preferred one first.
ServerTypes == <<"memory">>
StorageTypes(s) ==
    IF platform = "server" THEN ServerTypes
    ELSE CASE s \in {"token", "cache"} -> <<"localStorage", "sessionStorage", "cookie">>
           [] s = "transaction" -> <<"sessionStorage", "localStorage", "cookie">>
           [] s = "shared" -> <<"localStorage">>
           [] s = "idx" -> <<"memory">>

\* testStorageType(): a storage takes a test item.
TestStorageType(type) == type \notin full

\* findStorageType(): the first that passes its test, the last untested.
FindStorageType(types) ==
    LET good == {n \in 1 .. Len(types) : TestStorageType(types[n]) \/ n = Len(types)}
    IN types[CHOOSE n \in good : \A m \in good : n <= m]

\* getStorage(): a storageType that is given comes before those that follow it in
\* the list, and is taken as it is when it is not on the list.
Chosen(s) ==
    LET types == StorageTypes(s)
        at == {n \in 1 .. Len(types) : types[n] = given}
    IN IF s # "token" \/ given = "none" THEN FindStorageType(types)
       ELSE IF at = {} THEN given
       ELSE FindStorageType(SubSeq(types, CHOOSE n \in at : TRUE, Len(types)))

TypeFor(t, s) == IF s = "token" THEN kept[t] ELSE Chosen(s)

\* The tabs share the local storage and the cookies; a server has one memory.
PlaceOf(t, s) ==
    LET type == TypeFor(t, s)
    IN <<s, type, IF type \in {"localStorage", "cookie"} \/ platform = "server"
                  THEN Everywhere ELSE t>>

\* The token storage asks for separate cookies.
Separate(p) == p[1] = "token" /\ p[2] = "cookie"

\* On a server the IDX response lies in the transaction.
InTransaction(s) == s = "idx" /\ platform = "server"

\* What lies in a part of a place, and what lies where after a change.
At(p, part) == IF <<p, part>> \in DOMAIN items THEN items[p, part] ELSE Nothing
Put(changes) ==
    LET all == [q \in DOMAIN changes \cup DOMAIN items |->
                   IF q \in DOMAIN changes THEN changes[q] ELSE items[q]]
    IN Restrict(all, {q \in DOMAIN all : all[q] # Nothing})

\* getItem() of SavedObject over the storage: the object's own fields.  On a server
\* a transaction is read with the response, in a property of a name that no other
\* field has; here it is read as the section "idx" only.
Read(t, s) ==
    LET p == PlaceOf(t, s)
    IN IF InTransaction(s) THEN At(PlaceOf(t, "transaction"), "idx")
       ELSE IF Separate(p) THEN [f \in Fields |-> At(p, f)[f]]
       ELSE At(p, "whole")

\* Whether an object fits in one cookie.
Fits(object) == object["a"] + object["b"] <= 2

\* Mutant of Cookies: the cookies of the fields that are gone stay.
CookiesNotDeleted(p, object) ==
    [q \in {<<p, f>> : f \in {g \in Fields : object[g] > 0 /\ Fits(Only(g, object[g]))}} |->
        Only(q[2], object[q[2]])]

\* setItem() of separate cookies: one for each field, and none for the others.  A
\* browser ignores a cookie that is too large, and what was there remains.
Cookies(p, object) ==
    [q \in {<<p, f>> : f \in {g \in Fields : Fits(Only(g, object[g]))}} |->
        Only(q[2], object[q[2]])]

\* What the browser makes of an object that is written: a full storage may throw,
\* and a cookie that is too large is ignored.
Taken(p, object) ==
    CASE p[2] \in full -> BOOLEAN
      [] p[2] = "cookie" -> {IF Separate(p) THEN \A f \in Fields : Fits(Only(f, object[f]))
                             ELSE Fits(object)}
      [] OTHER -> {TRUE}

\* setStorage(): the object is written, and its place holds it if it is taken.
\* Saving the transaction of a server drops the response that lies in it.
Changes(t, s, object, taken) ==
    LET p == PlaceOf(t, s)
    IN IF InTransaction(s)
       THEN [q \in {<<PlaceOf(t, "transaction"), "idx">>} |-> object]
       ELSE IF Separate(p) THEN Cookies(p, object)
       ELSE [q \in {<<p, part>> : part \in IF taken THEN {"whole", "idx"} ELSE {}} |->
                IF q[2] = "whole" THEN object ELSE Nothing]
SavedBy(t, s, object, taken) ==
    LET p == PlaceOf(t, s)
        written == {q \in {p} : taken \/ p[2] = "cookie"}
        dropped == {q \in {PlaceOf(t, "idx")} : s = "transaction" /\ platform = "server"}
    IN [q \in dropped \cup written \cup DOMAIN saved |->
           IF q \in dropped THEN {Nothing}
           ELSE IF q \notin written THEN saved[q]
           ELSE IF taken THEN {object} ELSE Objects]
Write(t, s, object) ==
    /\ writes < MaxWrites
    /\ writes' = writes + 1
    /\ \E taken \in Taken(PlaceOf(t, s), object) :
          /\ items' = Put(Changes(t, s, object, taken))
          /\ saved' = SavedBy(t, s, object, taken)
    /\ UNCHANGED <<used, platform, given, full, kept>>

\* updateStorage() and clearStorage(key) read, change and write (transactions and
\* responses are always saved whole); clearStorage() removes the item, or writes
\* an empty object where the storage cannot remove.
SetStorage(t, s, object) == Write(t, s, object)
UpdateStorage(t, s, f, size) == /\ s \notin {"transaction", "idx"}
                                /\ Write(t, s, [Read(t, s) EXCEPT ![f] = size])
ClearStorage(t, s) ==
    LET p == PlaceOf(t, s) IN
    IF p[2] = "memory" \/ InTransaction(s) THEN Write(t, s, Nothing)
    ELSE /\ writes < MaxWrites
         /\ writes' = writes + 1
         /\ items' = Restrict(items, {q \in DOMAIN items : q[1] # p})
         /\ saved' = [q \in {p} \cup DOMAIN saved |-> IF q = p THEN {Nothing} ELSE saved[q]]
         /\ UNCHANGED <<used, platform, given, full, kept>>

\* What lies in places where Gone holds of is gone.
Lose(Gone(_)) ==
    /\ items' = Restrict(items, {q \in DOMAIN items : ~Gone(q[1])})
    /\ saved' = Restrict(saved, {p \in DOMAIN saved : ~Gone(p)})
    /\ UNCHANGED <<used, platform, given, full, writes>>

\* A page is loaded anew: its memory is empty, and its TokenManager is made.
Load(t) == /\ platform = "browser"
           /\ kept' = [kept EXCEPT ![t] = Chosen("token")]
           /\ Lose(LAMBDA p : p[2] = "memory" /\ p[3] = t)

\* The browser is closed and opened: the session storage is gone, and so are the
\* cookies of a section whose storageType is the session storage.
Restart == /\ platform = "browser"
           /\ kept' = [t \in Tabs |-> Chosen("token")]
           /\ Lose(LAMBDA p : \/ p[2] \in {"sessionStorage", "memory"}
                              \/ Separate(p) /\ given = "sessionStorage")

\* A storage fills up, or has room again.
Fills(type) == /\ platform = "browser"
               /\ full' = IF type \in full THEN full \ {type} ELSE full \cup {type}
               /\ UNCHANGED <<used, platform, given, items, kept, saved, writes>>

Init == /\ used \in Used
        /\ platform \in {"browser", "server"}
        /\ given \in IF platform = "browser" /\ "token" \in used THEN Types \cup {"none"} ELSE {"none"}
        /\ full \in IF platform = "browser" THEN SUBSET {"localStorage", "sessionStorage"}
                    ELSE {{}}
        /\ items = <<>>
        /\ kept = [t \in Tabs |-> Chosen("token")]
        /\ saved = <<>>
        /\ writes = 0

Next == \/ \E t \in Tabs, s \in used :
              \/ \E object \in Written : SetStorage(t, s, object)
              \/ \E f \in Fields, size \in {0, 2} : UpdateStorage(t, s, f, size)
              \/ ClearStorage(t, s)
        \/ \E t \in Tabs : Load(t)
        \/ Restart
        \/ \E type \in {"localStorage", "sessionStorage"} : Fills(type)

Spec == Init /\ [][Next]_storageVars

-------------------------------------------------------------------------------
\* What is read is what was saved there last, by any of those who share the place,
\* all of its fields and no others, if it fits ("Tokens are stored separately
\* because cookies have size limits", browserStorage.ts:173).
ReadsBack == \A t \in Tabs, s \in used :
    LET p == PlaceOf(t, s)
    IN Read(t, s) \in IF p \in DOMAIN saved THEN saved[p] ELSE {Nothing}
===============================================================================
