-------------------------- MODULE GeneratorProofs --------------------------
(***************************************************************************)
(* Theorems about what is generated from declarations, and about seeds.    *)
(*                                                                         *)
(* For any versions of an interface: what openapi check and diff let a     *)
(* branch be merged with keeps what the document promised, and what diff   *)
(* calls breaking breaks something.  Two facts carry the proof.  A version *)
(* that starts has one name for a parameter, so that the handler that      *)
(* answers to an operation's URL is the one its document tells of          *)
(* (ServesWhatItTells).  And from the document of a client to the one of   *)
(* the main branch no operation is missing, and one that no version        *)
(* between hid has kept its type and its fields (StillTold), which adds up *)
(* over any number of merges.                                              *)
(*                                                                         *)
(* For any block of entities: what the schema! macro accepts has a         *)
(* meaning.  The first half is that the generator's search for the type of *)
(* a foreign key ends.  It follows keys that are relations themselves, and *)
(* rests on the analysis, which went the same way with a set of names it   *)
(* had passed: where that search found no cycle, each step of the other    *)
(* reaches an entity that was not passed before, and there are as many     *)
(* steps as entities (TypeFound).  The second half takes the columns and   *)
(* the relations of a model one by one.                                    *)
(*                                                                         *)
(* For any rows: the seed commands keep the data whole. What a load will   *)
(* commit is what it sees, Seen: the committed rows it has not deleted and *)
(* those it has added. For a load of files that are one dump, each row of  *)
(* the dump is still to come or its id is seen (DumpGoesIn), and what it   *)
(* adds is in the dump; so that when nothing is left, every reference of   *)
(* the dump is met. The rows of the application are met because nobody has *)
(* deleted what they refer to, or they are gone themselves. This survives  *)
(* the writes of others, but for the two kinds that are excused: a row     *)
(* that refers, and the removal of one that may be referred to. Files are  *)
(* known to be one dump because the tables it has written agree with the   *)
(* database as long as nobody writes (DumpUnderway).                       *)
(*                                                                         *)
(* For any document: what rapina import openapi makes of it is faithful.   *)
(* Its bodies are taken in the order they are parsed, two of each operation; *)
(* TypesOf says which types the first n of them leave, and one more body   *)
(* leaves those of n + 1 (OneMore), whatever the names come to.            *)
(***************************************************************************)
EXTENDS ApiContract, SchemaMacro, Seeds, OpenApiImport, FiniteSetTheorems, SequenceTheorems, Rounds

\* A finite set of numbers has a largest one, and Max is it.
LEMMA MaxIsLargest ==
    ASSUME NEW numbers \in SUBSET Nat, IsFiniteSet(numbers), numbers # {}
    PROVE  Max(numbers) \in numbers /\ \A other \in numbers : Max(numbers) >= other
<1>0. PICK n \in Nat : ExistsSurjection(1 .. n, numbers)
  BY FS_NatSurjection
<1>1. PICK list \in [1 .. n -> numbers] : \A x \in numbers : \E i \in 1 .. n : list[i] = x
  BY <1>0 DEF ExistsSurjection, Surjection
<1> DEFINE bounded == {m \in 0 .. n : \E b \in Nat : \A i \in 1 .. m : list[i] <= b}
<1>2. 0 \in bounded
  <2>1. 0 \in 0 .. n /\ \A i \in 1 .. 0 : list[i] <= 0
    OBVIOUS
  <2>2. \E b \in Nat : \A i \in 1 .. 0 : list[i] <= b
    BY <2>1
  <2> QED
    BY <2>1, <2>2
<1>3. ASSUME NEW m \in 1 .. n, m - 1 \in bounded PROVE m \in bounded
  <2>1. PICK b \in Nat : \A i \in 1 .. m - 1 : list[i] <= b
    BY <1>3
  <2>2. \A i \in 1 .. m : list[i] \in Nat
    <3> TAKE i \in 1 .. m
    <3>1. i \in 1 .. n
      OBVIOUS
    <3> QED
      BY <3>1
  <2> DEFINE larger == IF list[m] <= b THEN b ELSE list[m]
  <2>3. larger \in Nat /\ list[m] \in Nat /\ list[m] <= larger /\ b <= larger
    BY <2>2
  <2> HIDE DEF larger
  <2>4. \A i \in 1 .. m : list[i] <= larger
    <3> TAKE i \in 1 .. m
    <3>1. CASE i = m
      BY <2>3, <3>1
    <3>2. CASE i # m
      BY <2>1, <2>2, <2>3, <3>2
    <3> QED
      BY <3>1, <3>2
  <2> QED
    BY <2>3, <2>4
<1> DEFINE bounds == {b \in Nat : \A x \in numbers : x <= b}
<1>4. bounds # {}
  <2> HIDE DEF bounded
  <2>1. \A m \in 1 .. n : m - 1 \in bounded => m \in bounded
    BY <1>3
  <2>2. \A m \in 0 .. n : m \in bounded
    BY <1>2, <2>1, RoundByRound
  <2>3. n \in bounded
    BY <2>2
  <2>4. PICK b \in Nat : \A i \in 1 .. n : list[i] <= b
    BY <2>3 DEF bounded
  <2> QED
    BY <1>1, <2>4
<1>5. PICK least \in bounds : \A other \in bounds : least <= other
  <2>1. bounds \subseteq Nat
    OBVIOUS
  <2> HIDE DEF bounds
  <2> QED
    BY <1>4, <2>1, LeastOne
<1>6. least \in numbers
  <2> SUFFICES ASSUME least \notin numbers PROVE FALSE
    OBVIOUS
  <2>1. \A x \in numbers : x \in Nat /\ x < least
    BY <1>5
  <2>2. least - 1 \in Nat
    <3>1. PICK x \in numbers : x \in Nat
      OBVIOUS
    <3>2. least \in Nat /\ x < least
      BY <1>5, <2>1
    <3> QED
      BY <3>1, <3>2
  <2>3. least - 1 \in bounds
    BY <1>5, <2>1, <2>2
  <2> QED
    BY <1>5, <2>3
<1> QED
  <2>1. \A other \in numbers : least >= other
    BY <1>5
  <2>2. \A x \in numbers : (\A other \in numbers : x >= other) => x = least
    BY <1>5, <1>6
  <2> QED
    BY <1>6, <2>1, <2>2 DEF Max

\* So it is of places in a sequence.
LEMMA MaxIsOneOf ==
    ASSUME NEW n \in Nat, NEW places, places \subseteq 1 .. n, places # {}
    PROVE  Max(places) \in places
<1>1. IsFiniteSet(1 .. n)
  BY FS_Interval
<1>2. places \in SUBSET (1 .. n) /\ places \in SUBSET Nat
  OBVIOUS
<1>3. IsFiniteSet(places)
  BY <1>1, <1>2, FS_Subset
<1> QED
  BY <1>2, <1>3, MaxIsLargest

-----------------------------------------------------------------------------
(* The handler of an operation *)

\* In a version that starts, two paths of one method that have the same URLs
\* are the same path.
LEMMA OneNameForAParameter ==
    ASSUME NEW v \in Version, ~Conflicting(v), NEW g \in ToSet(v), NEW h \in ToSet(v),
           g.method = h.method, SameUrls(g.path, h.path)
    PROVE  g.path = h.path
<1> DEFINE places == {i \in DOMAIN g.path : g.path[i] # h.path[i]}
<1>1. /\ g.path \in Seq(ToSet(g.path))
      /\ h.path \in Seq(ToSet(h.path))
  BY VersionAssumption
<1>2. DOMAIN g.path = DOMAIN h.path
  BY DEF SameUrls
<1>3. PICK n \in Nat : n = Len(g.path)
  BY <1>1
<1>4. DOMAIN g.path = 1 .. n
  BY <1>1, <1>3
<1>5. CASE places = {}
  BY <1>1, <1>2, <1>5
<1>6. CASE places # {}
  <2>1. places \subseteq 1 .. n
    BY <1>4
  <2> HIDE DEF places
  <2>2. PICK at \in places : \A other \in places : at <= other
    BY <1>6, <2>1, LeastPlace
  <2>3. at \in 1 .. n /\ at \in DOMAIN g.path /\ g.path[at] # h.path[at]
    BY <2>1, <2>2 DEF places
  <2>4. {g.path[at], h.path[at]} \subseteq Param
    BY <2>3 DEF SameUrls
  <2>5. \A j \in 1 .. at - 1 : g.path[j] = h.path[j]
    <3> TAKE j \in 1 .. at - 1
    <3>1. j \in 1 .. n /\ ~(at <= j)
      BY <2>3
    <3> QED
      BY <1>4, <2>2, <3>1 DEF places
  <2>6. at \in DOMAIN g.path \cap DOMAIN h.path
    BY <1>2, <2>3
  <2>7. Conflicting(v)
    BY <2>3, <2>4, <2>5, <2>6 DEF Conflicting
  <2> QED
    BY <2>7
<1> QED
  BY <1>5, <1>6

\* The handler that serves an operation of the document is the one the
\* document tells of.
LEMMA ServesWhatItTells ==
    ASSUME NEW v \in Version, ~Conflicting(v), NEW key \in DOMAIN BuildSpec(v).ops
    PROVE  \E h \in ToSet(v) : /\ OperationKey(h) = key
                               /\ Registered(v, key) = h
                               /\ Serving(v, key) = {h}
<1> DEFINE told == {i \in 1 .. Len(v) : OperationKey(v[i]) = key}
           served == {i \in 1 .. Len(v) : v[i].method = key.method /\ SameUrls(v[i].path, key.path)}
<1>1. v \in Seq(ToSet(v))
  BY VersionAssumption
<1>2. PICK n \in Nat : n = Len(v) /\ DOMAIN v = 1 .. n
  BY <1>1
<1>3. PICK g \in ToSet(v) : OperationKey(g) = key
  BY DEF BuildSpec
<1>4. PICK k \in 1 .. n : v[k] = g
  BY <1>2, <1>3 DEF ToSet
<1>5. \A i \in 1 .. n : v[i] \in ToSet(v)
  BY <1>2 DEF ToSet
<1>6. key.path = g.path /\ key.method = g.method
  BY <1>3 DEF OperationKey
<1>7. told = served
  <2>1. ASSUME NEW i \in 1 .. n, OperationKey(v[i]) = key
        PROVE  v[i].method = key.method /\ SameUrls(v[i].path, key.path)
    BY <1>6, <2>1 DEF OperationKey, SameUrls
  <2>2. ASSUME NEW i \in 1 .. n, v[i].method = key.method, SameUrls(v[i].path, key.path)
        PROVE  OperationKey(v[i]) = key
    <3>1. v[i].path = g.path
      BY <1>5, <1>6, <2>2, OneNameForAParameter
    <3> QED
      BY <1>3, <1>6, <2>2, <3>1 DEF OperationKey
  <2> QED
    BY <1>2, <2>1, <2>2
<1>8. told # {} /\ told \subseteq 1 .. n
  BY <1>2, <1>3, <1>4
<1>9. Registered(v, key) = v[Max(told)]
  BY <1>8 DEF Registered, SelectLastInSeq
<1>10. Serving(v, key) = LET i == IF served # {} THEN Max(served) ELSE 0
                         IN  IF i = 0 THEN {} ELSE {v[i]}
  BY DEF Serving, SelectLastInSeq
<1> HIDE DEF told, served
<1>11. PICK newest \in told : newest = Max(told)
  BY <1>8, MaxIsOneOf
<1>12. newest \in 1 .. n
  BY <1>8, <1>11
<1>13. Registered(v, key) = v[newest] /\ Serving(v, key) = {v[newest]}
  BY <1>7, <1>8, <1>9, <1>10, <1>11, <1>12
<1>14. OperationKey(v[newest]) = key
  BY <1>11 DEF told
<1> QED
  BY <1>5, <1>12, <1>13, <1>14

\* Whoever serves has the method and the URL of the operation.
LEMMA ServesOneThatMatches ==
    ASSUME NEW v \in Version, NEW key, NEW h \in Serving(v, key)
    PROVE  h \in ToSet(v) /\ h.method = key.method /\ SameUrls(h.path, key.path)
<1> DEFINE served == {i \in 1 .. Len(v) : v[i].method = key.method /\ SameUrls(v[i].path, key.path)}
<1>1. PICK n \in Nat : n = Len(v) /\ DOMAIN v = 1 .. n
  BY VersionAssumption
<1>2. Serving(v, key) = LET i == IF served # {} THEN Max(served) ELSE 0
                        IN  IF i = 0 THEN {} ELSE {v[i]}
  BY DEF Serving, SelectLastInSeq
<1>3. served \subseteq 1 .. n
  BY <1>1
<1> HIDE DEF served
<1>4. served # {} /\ h = v[Max(served)]
  BY <1>2
<1>5. PICK newest \in served : newest = Max(served)
  BY <1>3, <1>4, MaxIsOneOf
<1>6. v[newest].method = key.method /\ SameUrls(v[newest].path, key.path)
  BY <1>5 DEF served
<1>7. newest \in DOMAIN v
  BY <1>1, <1>3, <1>5
<1> QED
  BY <1>4, <1>5, <1>6, <1>7 DEF ToSet

-----------------------------------------------------------------------------
(* What the document of a version tells of the handler that serves *)

LEMMA DocumentTells ==
    ASSUME NEW v \in Version, Document[v] # NotGiven, NEW key \in DOMAIN Document[v].ops
    PROVE  /\ key.path \in Document[v].paths
           /\ \E h \in ToSet(v) : /\ OperationKey(h) = key
                                  /\ h.method \in Documented
                                  /\ Document[v].ops[key] = BuildOperation(h)
                                  /\ Serving(v, key) = {h}
<1>1. ~Conflicting(v) /\ Document[v] = BuildSpec(v)
  BY DEF Document
<1>2. key \in DOMAIN BuildSpec(v).ops
  BY <1>1
<1>3. PICK h \in ToSet(v) : /\ OperationKey(h) = key
                            /\ Registered(v, key) = h
                            /\ Serving(v, key) = {h}
  BY <1>1, <1>2, ServesWhatItTells
<1>4. PICK g \in ToSet(v) : OperationKey(g) = key /\ g.method \in Documented
  BY <1>2 DEF BuildSpec
<1>5. h.method \in Documented /\ key.path = h.path
  BY <1>3, <1>4 DEF OperationKey
<1>6. BuildSpec(v).ops[key] = BuildOperation(h)
  BY <1>2, <1>3 DEF BuildSpec
<1>7. key.path \in BuildSpec(v).paths
  BY <1>5 DEF BuildSpec
<1> QED
  BY <1>1, <1>3, <1>5, <1>6, <1>7

\* A call that goes by an older document is accepted by a handler that still
\* asks for the same, and for nothing a document does not tell.
LEMMA CallsStayAccepted ==
    ASSUME NEW v \in Version, NEW h \in ToSet(v), NEW key, h.path = key.path, NEW op,
           ~Untold(h), HeaderParameters(h) = op.headers, RequestBody(h) = op.request,
           NEW sent \in Calls(key, op)
    PROVE  Accepts(h, sent)
<1> SUFFICES ASSUME NEW a \in ToSet(h.args) PROVE Extracts(a, sent)
  BY DEF Accepts
<1>1. ASSUME a.kind = "path" PROVE ExtractPath(a, sent)
  BY <1>1 DEF ExtractPath, Untold, Calls
<1>2. ASSUME a.kind = "header" PROVE ExtractHeader(a, sent)
  <2>1. a.takes = Text
    BY <1>2 DEF Untold
  <2>2. sent.headers \in [{p.name : p \in {q \in op.headers : q.required}} -> Text]
    BY DEF Calls
  <2>3. ASSUME a.name \in DOMAIN sent.headers PROVE sent.headers[a.name] \in a.takes
    BY <2>1, <2>2, <2>3
  <2>4. ASSUME a.required PROVE a.name \in DOMAIN sent.headers
    <3>1. [name |-> a.name, required |-> a.required] \in op.headers
      BY <1>2 DEF HeaderParameters
    <3> QED
      BY <2>2, <2>4, <3>1
  <2> QED
    BY <2>3, <2>4 DEF ExtractHeader
<1>3. ASSUME a.kind = "query" PROVE ExtractQuery(a, sent)
  BY <1>3 DEF ExtractQuery, Untold
<1>4. ASSUME a.kind \in BodyKinds PROVE ExtractBody(a, sent)
  <2>1. a.required
    <3>1. h.args \in Seq(ToSet(h.args))
      BY VersionAssumption
    <3>2. PICK i \in DOMAIN h.args : h.args[i] = a
      BY DEF ToSet
    <3> QED
      BY <1>4, <3>2, VersionAssumption DEF BodyKinds
  <2>2. RequestBody(h) = BodyMeta(h.args)
    BY <1>4 DEF Untold, RequestBody
  <2>3. [kind |-> a.kind, type |-> a.type, required |-> a.required] \in op.request
    BY <1>4, <2>2 DEF BodyMeta
  <2>4. [kind |-> a.kind, names |-> Needed(a.type)] \in sent.body
    <3>1. sent.body = {[kind |-> body.kind, names |-> Needed(body.type)] :
                          body \in {b \in op.request : b.required}}
      BY DEF Calls
    <3> QED
      BY <2>1, <2>3, <3>1
  <2> QED
    BY <2>4 DEF ExtractBody
<1> QED
  BY <1>1, <1>2, <1>3, <1>4 DEF Extracts

\* What diff calls breaking does break something, whatever was merged before.
LEMMA AlarmsAreMeant ==
    ASSUME NEW v \in Version, Document[v] # NotGiven, base = Document[v], head \in Version
    PROVE  AlarmsMeant
<1> DEFINE now == Document[head]
<1> SUFFICES ASSUME now # NotGiven, NEW change \in Breaking(base, now)
             PROVE  \/ /\ change[1] = "endpoint"
                       /\ \/ \E key \in DOMAIN base.ops : key.path = change[2] /\ Serving(head, key) = {}
                          \/ \E p \in now.paths : SameUrls(p, change[2])
                          \/ \A key \in DOMAIN base.ops : key.path # change[2]
                    \/ /\ change[1] = "method"
                       /\ \A h \in Serving(head, change[2]) : h.path # change[2].path
                    \/ /\ change[1] \in {"field", "type"}
                       /\ \E h \in Serving(head, change[2]) :
                             \/ change[1] = "field" /\ change[3] \notin PropertyNames(h.type)
                             \/ change[1] = "type" /\ h.type.kind # base.ops[change[2]].response.kind
  BY DEF AlarmsMeant
<1>1. /\ ~Conflicting(head) /\ now = BuildSpec(head)
      /\ ~Conflicting(v) /\ base = BuildSpec(v)
  BY DEF Document
<1>2. \A key : \A h \in Serving(head, key) :
         h \in ToSet(head) /\ h.method = key.method /\ SameUrls(h.path, key.path)
  BY ServesOneThatMatches
<1>3. CASE \E p \in base.paths \ now.paths : change = <<"endpoint", p>>
  <2>1. PICK p \in base.paths \ now.paths : change = <<"endpoint", p>>
    BY <1>3
  <2>2. CASE \E key \in DOMAIN base.ops : key.path = p /\ Serving(head, key) # {}
    <3>1. PICK key \in DOMAIN base.ops : key.path = p /\ Serving(head, key) # {}
      BY <2>2
    <3>2. PICK h \in Serving(head, key) : TRUE
      BY <3>1
    <3>3. h.path \in now.paths /\ SameUrls(h.path, p)
      BY <1>1, <1>2, <3>1, <3>2 DEF BuildSpec
    <3> QED
      BY <2>1, <3>3
  <2>3. CASE ~\E key \in DOMAIN base.ops : key.path = p /\ Serving(head, key) # {}
    BY <2>1, <2>3
  <2> QED
    BY <2>2, <2>3
<1>4. CASE \E key \in DOMAIN base.ops \ DOMAIN now.ops : change = <<"method", key>>
  <2>1. PICK key \in DOMAIN base.ops \ DOMAIN now.ops : change = <<"method", key>>
    BY <1>4
  <2>2. PICK g \in ToSet(v) : OperationKey(g) = key /\ g.method \in Documented
    BY <1>1 DEF BuildSpec
  <2>3. ASSUME NEW h \in Serving(head, key), h.path = key.path PROVE FALSE
    <3>1. OperationKey(h) = key /\ h.method \in Documented /\ h \in ToSet(head)
      BY <1>2, <2>2, <2>3 DEF OperationKey
    <3> QED
      BY <1>1, <2>1, <3>1 DEF BuildSpec
  <2> QED
    BY <2>1, <2>3
<1>5. CASE change \in ResponseChanges(base, now)
  <2>1. PICK key \in DOMAIN base.ops \cap DOMAIN now.ops :
          /\ now.ops[key].response # NotGiven
          /\ \/ /\ change[1] = "field" /\ change[2] = key
                /\ change[3] \notin PropertyNames(now.ops[key].response)
             \/ /\ change[1] = "type" /\ change[2] = key
                /\ now.ops[key].response.kind # base.ops[key].response.kind
    <3> DEFINE both == {k \in DOMAIN base.ops \cap DOMAIN now.ops :
                          base.ops[k].response # NotGiven /\ now.ops[k].response # NotGiven}
               was(k) == base.ops[k].response
               is(k) == now.ops[k].response
               types == {<<"type", k>> : k \in {j \in both : /\ HasType(was(j)) /\ HasType(is(j))
                                                             /\ was(j).kind # is(j).kind}}
               fields(k) == {<<"field", k, n>> : n \in LostFields(was(k), is(k))}
    <3>1. ResponseChanges(base, now) = types \cup UNION {fields(k) : k \in both}
      BY DEF ResponseChanges
    <3>2. CASE \E k \in both : change \in fields(k)
      <4>1. PICK k \in both : change \in fields(k)
        BY <3>2
      <4>2. PICK n : n \notin PropertyNames(is(k)) /\ change = <<"field", k, n>>
        BY <4>1 DEF LostFields
      <4> QED
        BY <4>1, <4>2
    <3>3. CASE change \in types
      BY <3>3
    <3> HIDE DEF fields, types, both
    <3> QED
      BY <1>5, <3>1, <3>2, <3>3
  <2>2. PICK h \in ToSet(head) : now.ops[key] = BuildOperation(h) /\ Serving(head, key) = {h}
    BY <2>1, DocumentTells
  <2>3. now.ops[key].response = h.type
    BY <2>1, <2>2 DEF BuildOperation, ResponseSchema
  <2> QED
    BY <2>1, <2>2, <2>3
<1> QED
  BY <1>3, <1>4, <1>5 DEF Breaking, RemovedEndpoints, RemovedMethods

-----------------------------------------------------------------------------
(* The document of a client *)

\* Of the operations of the document `old`, none is missing in `new`, and those
\* not in `unseen` have the type and the fields they had.
StillTold(old, new, unseen) ==
    \A key \in DOMAIN old.ops :
        /\ key \in DOMAIN new.ops
        /\ key \notin unseen =>
              /\ old.ops[key].response # NotGiven /\ HasType(old.ops[key].response)
              /\ new.ops[key].response # NotGiven /\ HasType(new.ops[key].response)
              /\ new.ops[key].response.kind = old.ops[key].response.kind
              /\ HasProperties(new.ops[key].response) =>
                    PropertyNames(old.ops[key].response) \subseteq PropertyNames(new.ops[key].response)

ContractInv ==
    /\ main \in Version /\ head \in Version
    /\ Document[main] # NotGiven /\ base = Document[main]
    /\ StillTold(client, base, hidden)

LEMMA ContractInvInit == ApiInit => ContractInv
<1> SUFFICES ASSUME ApiInit PROVE ContractInv
  OBVIOUS
<1>1. StillTold(client, base, hidden)
  BY DEF ApiInit, StillTold, Hidden
<1> QED
  BY <1>1 DEF ApiInit, ContractInv

\* Another type of an answer, or a field it has lost, is a change of it.
LEMMA TypeChangeTold ==
    ASSUME NEW old, NEW new, NEW key \in DOMAIN old.ops, key \in DOMAIN new.ops,
           old.ops[key].response # NotGiven, new.ops[key].response # NotGiven,
           HasType(old.ops[key].response), HasType(new.ops[key].response),
           old.ops[key].response.kind # new.ops[key].response.kind
    PROVE  <<"type", key>> \in ResponseChanges(old, new)
  BY DEF ResponseChanges

LEMMA FieldChangeTold ==
    ASSUME NEW old, NEW new, NEW key \in DOMAIN old.ops, key \in DOMAIN new.ops,
           old.ops[key].response # NotGiven, new.ops[key].response # NotGiven,
           HasProperties(old.ops[key].response), HasProperties(new.ops[key].response),
           NEW n \in PropertyNames(old.ops[key].response), n \notin PropertyNames(new.ops[key].response)
    PROVE  <<"field", key, n>> \in ResponseChanges(old, new)
<1>1. <<"field", key, n>> \in
         {<<"field", key, m>> : m \in LostFields(old.ops[key].response, new.ops[key].response)}
  BY DEF LostFields
<1> QED
  BY <1>1 DEF ResponseChanges

\* Where diff finds nothing that breaks, no operation is lost, and one that both
\* documents tell the type of has kept it and its fields.
LEMMA NothingBroken ==
    ASSUME NEW v \in Version, Document[v] # NotGiven, NEW new, Breaking(Document[v], new) = {}
    PROVE  StillTold(Document[v], new, Hidden(Document[v]) \cup Hidden(new))
<1> DEFINE old == Document[v]
<1> SUFFICES ASSUME NEW key \in DOMAIN old.ops
             PROVE  /\ key \in DOMAIN new.ops
                    /\ key \notin Hidden(old) \cup Hidden(new) =>
                          /\ old.ops[key].response # NotGiven /\ HasType(old.ops[key].response)
                          /\ new.ops[key].response # NotGiven /\ HasType(new.ops[key].response)
                          /\ new.ops[key].response.kind = old.ops[key].response.kind
                          /\ HasProperties(new.ops[key].response) =>
                                PropertyNames(old.ops[key].response)
                                    \subseteq PropertyNames(new.ops[key].response)
  BY DEF StillTold
<1>1. key.path \in old.paths
  BY DocumentTells
<1> HIDE DEF old
<1>2. RemovedEndpoints(old, new) = {} /\ RemovedMethods(old, new) = {} /\ ResponseChanges(old, new) = {}
  BY DEF Breaking, old
<1>3. key.path \in new.paths
  BY <1>1, <1>2 DEF RemovedEndpoints
<1>4. key \in DOMAIN new.ops
  BY <1>2, <1>3 DEF RemovedMethods
<1>5. SUFFICES ASSUME key \notin Hidden(old) \cup Hidden(new)
               PROVE  /\ old.ops[key].response # NotGiven /\ HasType(old.ops[key].response)
                      /\ new.ops[key].response # NotGiven /\ HasType(new.ops[key].response)
                      /\ new.ops[key].response.kind = old.ops[key].response.kind
                      /\ HasProperties(new.ops[key].response) =>
                            PropertyNames(old.ops[key].response)
                                \subseteq PropertyNames(new.ops[key].response)
  BY <1>4
<1>6. /\ old.ops[key].response # NotGiven /\ HasType(old.ops[key].response)
      /\ new.ops[key].response # NotGiven /\ HasType(new.ops[key].response)
  BY <1>4, <1>5 DEF Hidden
<1>7. new.ops[key].response.kind = old.ops[key].response.kind
  <2> SUFFICES ASSUME old.ops[key].response.kind # new.ops[key].response.kind PROVE FALSE
    OBVIOUS
  <2>1. <<"type", key>> \in ResponseChanges(old, new)
    BY <1>4, <1>6, TypeChangeTold
  <2> QED
    BY <1>2, <2>1
<1>8. ASSUME HasProperties(new.ops[key].response), NEW n \in PropertyNames(old.ops[key].response),
             n \notin PropertyNames(new.ops[key].response)
      PROVE  FALSE
  <2>1. HasProperties(old.ops[key].response)
    BY <1>7, <1>8 DEF HasProperties
  <2>2. <<"field", key, n>> \in ResponseChanges(old, new)
    BY <1>4, <1>6, <1>8, <2>1, FieldChangeTold
  <2> QED
    BY <1>2, <2>2
<1> QED
  BY <1>6, <1>7, <1>8

LEMMA MergeStep ==
    ASSUME ContractInv, MergeBranch
    PROVE  ContractInv'
<1>1. /\ Document[head] # NotGiven /\ committed = Document[head]
      /\ Breaking(Document[main], committed) = {}
      /\ main' = head /\ base' = committed /\ head' = head /\ client' = client
      /\ hidden' = hidden \cup Hidden(committed)
  BY DEF ContractInv, MergeBranch, CheckPasses, DiffPasses
<1>2. StillTold(base, committed, Hidden(base) \cup Hidden(committed))
  BY <1>1, NothingBroken DEF ContractInv
<1>3. StillTold(client, committed, hidden \cup Hidden(committed))
  <2> SUFFICES ASSUME NEW key \in DOMAIN client.ops
               PROVE  /\ key \in DOMAIN committed.ops
                      /\ key \notin hidden \cup Hidden(committed) =>
                            /\ client.ops[key].response # NotGiven /\ HasType(client.ops[key].response)
                            /\ committed.ops[key].response # NotGiven /\ HasType(committed.ops[key].response)
                            /\ committed.ops[key].response.kind = client.ops[key].response.kind
                            /\ HasProperties(committed.ops[key].response) =>
                                  PropertyNames(client.ops[key].response)
                                      \subseteq PropertyNames(committed.ops[key].response)
    BY DEF StillTold
  <2>1. key \in DOMAIN base.ops
    BY DEF ContractInv, StillTold
  <2>2. key \in DOMAIN committed.ops
    BY <1>2, <2>1 DEF StillTold
  <2>3. ASSUME key \notin hidden \cup Hidden(committed)
        PROVE  /\ client.ops[key].response # NotGiven /\ HasType(client.ops[key].response)
               /\ committed.ops[key].response # NotGiven /\ HasType(committed.ops[key].response)
               /\ committed.ops[key].response.kind = client.ops[key].response.kind
               /\ HasProperties(committed.ops[key].response) =>
                     PropertyNames(client.ops[key].response)
                         \subseteq PropertyNames(committed.ops[key].response)
    <3>1. /\ client.ops[key].response # NotGiven /\ HasType(client.ops[key].response)
          /\ base.ops[key].response # NotGiven /\ HasType(base.ops[key].response)
          /\ base.ops[key].response.kind = client.ops[key].response.kind
          /\ HasProperties(base.ops[key].response) =>
                PropertyNames(client.ops[key].response) \subseteq PropertyNames(base.ops[key].response)
      BY <2>3 DEF ContractInv, StillTold
    <3>2. key \notin Hidden(base) \cup Hidden(committed)
      BY <2>1, <2>3, <3>1 DEF Hidden
    <3>3. /\ committed.ops[key].response # NotGiven /\ HasType(committed.ops[key].response)
          /\ committed.ops[key].response.kind = base.ops[key].response.kind
          /\ HasProperties(committed.ops[key].response) =>
                PropertyNames(base.ops[key].response) \subseteq PropertyNames(committed.ops[key].response)
      BY <1>2, <2>1, <3>2 DEF StillTold
    <3> QED
      BY <3>1, <3>3 DEF HasProperties
  <2> QED
    BY <2>2, <2>3
<1> QED
  BY <1>1, <1>3 DEF ContractInv

LEMMA ContractInvStep == ContractInv /\ [ApiNext]_apiVars => ContractInv'
<1> SUFFICES ASSUME ContractInv, [ApiNext]_apiVars PROVE ContractInv'
  OBVIOUS
<1>1. ASSUME NEW v \in Version, Edit(v) PROVE ContractInv'
  BY <1>1 DEF Edit, ContractInv
<1>2. CASE ExportSpec
  BY <1>2 DEF ExportSpec, ContractInv
<1>3. CASE MergeBranch
  BY <1>3, MergeStep
<1>4. CASE GenerateClient
  <2>1. StillTold(base, base, Hidden(base))
    BY DEF StillTold, Hidden
  <2> QED
    BY <1>4, <2>1 DEF GenerateClient, ContractInv
<1>5. CASE UNCHANGED apiVars
  BY <1>5 DEF apiVars, ContractInv
<1> QED
  BY <1>1, <1>2, <1>3, <1>4, <1>5 DEF ApiNext

LEMMA PromisesAreKept == ContractInv => PromisesKept
<1> SUFFICES ASSUME ContractInv, NEW key \in DOMAIN client.ops
             PROVE  /\ Serving(main, key) # {}
                    /\ \A h \in Serving(main, key) :
                          /\ \/ key \in hidden
                             \/ /\ h.type.kind = client.ops[key].response.kind
                                /\ HasProperties(h.type) => PropertyNames(client.ops[key].response) \subseteq PropertyNames(h.type)
                          /\ \/ \A sent \in Calls(key, client.ops[key]) : Accepts(h, sent)
                             \/ Untold(h)
                             \/ HeaderParameters(h) # client.ops[key].headers
                             \/ RequestBody(h) # client.ops[key].request
  BY DEF PromisesKept
<1>1. main \in Version /\ Document[main] # NotGiven /\ base = Document[main]
  BY DEF ContractInv
<1>2. key \in DOMAIN Document[main].ops
  BY <1>1 DEF ContractInv, StillTold
<1>3. PICK h \in ToSet(main) : /\ OperationKey(h) = key
                               /\ base.ops[key] = BuildOperation(h)
                               /\ Serving(main, key) = {h}
  BY <1>1, <1>2, DocumentTells
<1>4. ASSUME key \notin hidden
      PROVE  /\ h.type.kind = client.ops[key].response.kind
             /\ HasProperties(h.type) => PropertyNames(client.ops[key].response) \subseteq PropertyNames(h.type)
  <2>1. /\ base.ops[key].response # NotGiven
        /\ base.ops[key].response.kind = client.ops[key].response.kind
        /\ HasProperties(base.ops[key].response) =>
              PropertyNames(client.ops[key].response) \subseteq PropertyNames(base.ops[key].response)
    BY <1>4 DEF ContractInv, StillTold
  <2>2. base.ops[key].response = h.type
    BY <1>3, <2>1 DEF BuildOperation, ResponseSchema
  <2> QED
    BY <2>1, <2>2
<1>5. \/ \A sent \in Calls(key, client.ops[key]) : Accepts(h, sent)
      \/ Untold(h)
      \/ HeaderParameters(h) # client.ops[key].headers
      \/ RequestBody(h) # client.ops[key].request
  <2>1. h.path = key.path
    BY <1>3 DEF OperationKey
  <2> QED
    BY <1>1, <2>1, CallsStayAccepted
<1> QED
  BY <1>3, <1>4, <1>5

\* However many branches are merged by check and diff, and whatever versions of
\* the application they hold: each operation of a client's document is served,
\* by a handler that answers what was promised and takes the calls it took,
\* within what diff can see (detect_breaking_changes); and what diff calls
\* breaking would break some call or renames a parameter.
THEOREM ContractIsKept == ApiSpec => []ContractKept
<1>1. ContractInv => AlarmsMeant
  BY AlarmsAreMeant DEF ContractInv
<1>2. ContractInv => ContractKept
  BY <1>1, PromisesAreKept DEF ContractKept
<1> QED
  BY <1>2, ContractInvInit, ContractInvStep, PTL DEF ApiSpec

-----------------------------------------------------------------------------
(* The schema! macro *)

\* What the parser makes of a block: entities of typed fields.
Entity ==
    [name : STRING, primary_key : Seq(Seq(STRING)), fields : Seq(FieldDef),
     created : BOOLEAN, updated : BOOLEAN]

BlockOK == schema \in Seq(Entity)

\* Parsing makes nothing else (Schema::parse, EntityDef::parse).
LEMMA BlockStaysTyped == SchemaMacroSpec => []BlockOK
<1>1. SchemaMacroInit => BlockOK
  BY DEF SchemaMacroInit, BlockOK
<1>2. ASSUME BlockOK, [SchemaMacroNext]_schema PROVE BlockOK'
  <2>1. CASE UNCHANGED schema
    BY <1>2, <2>1 DEF BlockOK
  <2>2. ASSUME NEW attrs \in EntityAttr, ParseEntity(attrs) PROVE BlockOK'
    <3>1. attrs \in [name : STRING, primary_key : Seq(Seq(STRING)), created : BOOLEAN, updated : BOOLEAN]
      BY SchemaMacroAssumption
    <3>2. <<>> \in Seq(FieldDef)
      OBVIOUS
    <3>3. [name |-> attrs.name, primary_key |-> attrs.primary_key, fields |-> <<>>,
           created |-> attrs.created, updated |-> attrs.updated] \in Entity
      BY <3>1, <3>2 DEF Entity
    <3> QED
      BY <1>2, <2>2, <3>3 DEF ParseEntity, BlockOK
  <2>3. ASSUME NEW f \in FieldDef, ParseField(f) PROVE BlockOK'
    <3>1. Len(schema) \in DOMAIN schema /\ schema[Len(schema)] \in Entity
      BY <1>2, <2>3 DEF ParseField, BlockOK
    <3>2. Append(schema[Len(schema)].fields, f) \in Seq(FieldDef)
      BY <3>1 DEF Entity
    <3>3. [schema[Len(schema)] EXCEPT !.fields = Append(schema[Len(schema)].fields, f)] \in Entity
      BY <3>1, <3>2 DEF Entity
    <3>4. schema' = [schema EXCEPT ![Len(schema)] =
             [schema[Len(schema)] EXCEPT !.fields = Append(schema[Len(schema)].fields, f)]]
      BY <2>3, <3>1 DEF ParseField
    <3> QED
      BY <1>2, <3>1, <3>3, <3>4 DEF BlockOK
  <2> QED
    BY <1>2, <2>1, <2>2, <2>3 DEF SchemaMacroNext
<1> QED
  BY <1>1, <1>2, PTL DEF SchemaMacroSpec

-----------------------------------------------------------------------------

\* As many different values as places: each place has its own.
LEMMA AllDifferent ==
    ASSUME NEW n \in Nat, NEW value, value = [i \in 1 .. n |-> value[i]]
    PROVE  /\ IsFiniteSet({value[i] : i \in 1 .. n})
           /\ Cardinality({value[i] : i \in 1 .. n}) = n
                => \A i, j \in 1 .. n : value[i] = value[j] => i = j
<1> DEFINE values == {value[i] : i \in 1 .. n}
<1>1. value \in Surjection(1 .. n, values)
  BY DEF Surjection
<1>2. IsFiniteSet(1 .. n) /\ Cardinality(1 .. n) = n
  BY FS_Interval
<1>3. IsFiniteSet(values) /\ (Cardinality(values) = n => value \in Injection(1 .. n, values))
  BY <1>1, <1>2, FS_Surjection
<1> HIDE DEF values
<1>4. ASSUME Cardinality(values) = n PROVE \A i, j \in 1 .. n : value[i] = value[j] => i = j
  BY <1>3, <1>4 DEF Injection, IsInjective
<1> QED
  BY <1>3, <1>4 DEF values

\* An entity of a block, by its name.
LEMMA EntityFound ==
    ASSUME NEW s \in Seq(Entity), NEW name \in Names(s)
    PROVE  \E i \in DOMAIN s : EntityOf(s, name) = s[i] /\ s[i].name = name
BY DEF Names, EntityOf

\* A field of an entity, by its name.
LEMMA FieldFound ==
    ASSUME NEW e \in Entity, NEW name \in FieldNames(e)
    PROVE  \E i \in DOMAIN e.fields : FieldOf(e, name) = e.fields[i] /\ e.fields[i].name = name
BY DEF FieldNames, FieldOf

\* The types of an entity's parts.
LEMMA FieldShape ==
    ASSUME NEW e \in Entity
    PROVE  /\ e.fields \in Seq(FieldDef)
           /\ \A i \in DOMAIN e.fields :
                 /\ e.fields[i] \in FieldDef
                 /\ e.fields[i].name \in Seq(STRING) \ {<<>>}
                 /\ e.fields[i].kind \in {"scalar", "Vec", "one"}
                 /\ e.fields[i].type \in STRING \ {"endless"}
                 /\ e.fields[i].optional \in BOOLEAN
                 /\ e.fields[i].related \in BOOLEAN
           /\ e.primary_key \in Seq(Seq(STRING))
<1>1. e.fields \in Seq(FieldDef) /\ e.primary_key \in Seq(Seq(STRING))
  BY DEF Entity
<1>2. \A i \in DOMAIN e.fields : e.fields[i] \in FieldDef
  BY <1>1
<1> QED
  BY <1>1, <1>2, SchemaMacroAssumption

\* Names of fields are unique, as the parser saw to (EntityDef::parse).
LEMMA FieldsDiffer ==
    ASSUME NEW e \in Entity, WellFormed(e)
    PROVE  \A i, j \in DOMAIN e.fields : e.fields[i].name = e.fields[j].name => i = j
<1>1. PICK n \in Nat : n = Len(e.fields) /\ DOMAIN e.fields = 1 .. n
  BY FieldShape
<1> DEFINE value == [i \in 1 .. n |-> e.fields[i].name]
<1>2. FieldNames(e) = {value[i] : i \in 1 .. n}
  BY <1>1 DEF FieldNames
<1>3. Cardinality({value[i] : i \in 1 .. n}) = n
  BY <1>1, <1>2 DEF WellFormed
<1>4. value = [i \in 1 .. n |-> value[i]]
  OBVIOUS
<1> HIDE DEF value
<1>5. \A i, j \in 1 .. n : value[i] = value[j] => i = j
  BY <1>3, <1>4, AllDifferent
<1> QED
  BY <1>1, <1>5 DEF value

\* An accepted block has as many names as entities.
LEMMA NamesCounted ==
    ASSUME NEW s \in Seq(Entity), Accepted(s)
    PROVE  IsFiniteSet(Names(s)) /\ Cardinality(Names(s)) = Len(s)
<1>1. PICK n \in Nat : n = Len(s) /\ DOMAIN s = 1 .. n
  OBVIOUS
<1> DEFINE value == [i \in 1 .. n |-> s[i].name]
<1>2. Names(s) = {value[i] : i \in 1 .. n}
  BY <1>1 DEF Names
<1>4. value = [i \in 1 .. n |-> value[i]]
  OBVIOUS
<1> HIDE DEF value
<1>5. IsFiniteSet({value[i] : i \in 1 .. n})
  BY <1>4, AllDifferent
<1> QED
  BY <1>2, <1>5 DEF Accepted

\* The key of an accepted entity is made of columns.
LEMMA KeyShape ==
    ASSUME NEW e \in Entity, KeyExists(e), NEW k \in DOMAIN e.primary_key
    PROVE  \E i \in DOMAIN e.fields :
              /\ FieldOf(e, e.primary_key[k]) = e.fields[i]
              /\ e.fields[i].name = e.primary_key[k]
              /\ e.fields[i].kind \in {"scalar", "one"}
              /\ e.fields[i].kind = "one" => ~e.fields[i].optional
<1>1. e.primary_key[k] \in FieldNames(e)
  BY DEF KeyExists
<1>2. PICK i \in DOMAIN e.fields :
          FieldOf(e, e.primary_key[k]) = e.fields[i] /\ e.fields[i].name = e.primary_key[k]
  BY <1>1, FieldFound
<1>3. e.fields[i].kind # "Vec" /\ ~(e.fields[i].kind = "one" /\ e.fields[i].optional)
  <2> DEFINE f == FieldOf(e, e.primary_key[k])
  <2>1. f.kind # "Vec" /\ ~(f.kind = "one" /\ f.optional)
    BY Zenon DEF KeyExists
  <2> QED
    BY <1>2, <2>1
<1>4. e.fields[i].kind \in {"scalar", "Vec", "one"}
  BY FieldShape
<1> QED
  BY <1>2, <1>3, <1>4

-----------------------------------------------------------------------------
(* The search for cycles of keys, and the types of foreign keys *)

\* What the first entity's key refers to is an entity of the block.
TargetsKnown(s) == \A name \in Names(s) : KeyTarget(EntityOf(s, name)) \subseteq Names(s)

\* analyze_field has looked the targets up.
LEMMA AcceptedTargetsKnown ==
    ASSUME NEW s \in Seq(Entity), Accepted(s)
    PROVE  TargetsKnown(s)
<1> SUFFICES ASSUME NEW name \in Names(s), NEW t \in KeyTarget(EntityOf(s, name))
             PROVE  t \in Names(s)
  BY DEF TargetsKnown
<1>1. PICK i \in DOMAIN s : EntityOf(s, name) = s[i]
  BY EntityFound
<1>2. s[i] \in Entity
  OBVIOUS
<1>3. s[i].primary_key[1] \in FieldNames(s[i])
  BY <1>1 DEF KeyTarget
<1>4. PICK k \in DOMAIN s[i].fields : FieldOf(s[i], s[i].primary_key[1]) = s[i].fields[k]
  BY <1>2, <1>3, FieldFound
<1>5. t = s[i].fields[k].type /\ s[i].fields[k].kind = "one"
  BY <1>1, <1>4 DEF KeyTarget
<1>6. Known(s, s[i].fields[k])
  BY <1>1 DEF Accepted
<1> QED
  BY <1>5, <1>6 DEF Known, IsRelation

\* The function that primary_key_relationship_has_cycle computes.
IsVisit(s, visit) ==
    visit = [name \in Names(s) |-> [visiting \in SUBSET Names(s) |->
                \/ name \in visiting
                \/ \E t \in KeyTarget(EntityOf(s, name)) : visit[t][visiting \cup {name}]]]

\* It exists: after as many rounds as there are names, one more changes nothing.
LEMMA VisitExists ==
    ASSUME NEW s \in Seq(Entity), TargetsKnown(s), NEW n \in Nat,
           IsFiniteSet(Names(s)), Cardinality(Names(s)) = n
    PROVE  \E visit : IsVisit(s, visit)
<1> DEFINE names == Names(s)
           S == [names -> [SUBSET names -> BOOLEAN]]
           start == [name \in names |-> [visiting \in SUBSET names |-> TRUE]]
           once(g) == [name \in names |-> [visiting \in SUBSET names |->
                          \/ name \in visiting
                          \/ \E t \in KeyTarget(EntityOf(s, name)) : g[t][visiting \cup {name}]]]
           step == [m \in 1 .. n + 1 |-> [g \in S |-> once(g)]]
<1>1. step \in [1 .. n + 1 -> [S -> S]]
  OBVIOUS
<1>2. start \in S
  OBVIOUS
<1>3. n + 1 \in Nat
  OBVIOUS
<1>4. PICK run : IsRun(run, n + 1, S, start, step)
  <2> HIDE DEF step, start, S
  <2> QED
    BY <1>1, <1>2, <1>3, Iteration
<1>5. /\ run \in [0 .. n + 1 -> S] /\ run[0] = start
      /\ \A m \in 1 .. n + 1 : run[m] = once(run[m - 1])
  <2> HIDE DEF S, start, once
  <2>1. run \in [0 .. n + 1 -> S] /\ run[0] = start
    BY <1>4 DEF IsRun
  <2>2. ASSUME NEW m \in 1 .. n + 1 PROVE run[m] = once(run[m - 1])
    <3>1. m - 1 \in 0 .. n + 1
      OBVIOUS
    <3>2. run[m] = step[m][run[m - 1]]
      BY <1>4 DEF IsRun
    <3> QED
      BY <2>1, <3>1, <3>2
  <2> QED
    BY <2>1, <2>2
<1>6. ASSUME NEW m \in 1 .. n + 1, NEW name \in names, NEW visiting \in SUBSET names
      PROVE  run[m][name][visiting] =
                \/ name \in visiting
                \/ \E t \in KeyTarget(EntityOf(s, name)) : run[m - 1][t][visiting \cup {name}]
  <2>1. run[m] = once(run[m - 1])
    BY <1>5
  <2>2. run[m][name] = [aside \in SUBSET names |->
                \/ name \in aside
                \/ \E t \in KeyTarget(EntityOf(s, name)) : run[m - 1][t][aside \cup {name}]]
    BY <2>1
  <2> QED
    BY <2>2, Zenon
<1>7. ASSUME NEW m \in 0 .. n + 1, NEW name \in names, NEW visiting \in SUBSET names
      PROVE  run[m][name][visiting] \in BOOLEAN
  BY <1>5
<1>8. ASSUME NEW m \in 0 .. n + 1, NEW name \in names, NEW visiting \in SUBSET names, name \in visiting
      PROVE  run[m][name][visiting] = TRUE
  <2>1. CASE m = 0
    BY <1>5, <2>1
  <2>2. CASE m # 0
    <3>1. m \in 1 .. n + 1
      BY <2>2
    <3> QED
      BY <1>6, <1>7, <1>8, <3>1
  <2> QED
    BY <2>1, <2>2
<1> DEFINE settled == {m \in 0 .. n : \A name \in names, visiting \in SUBSET names :
                          Cardinality(names \ visiting) <= m =>
                              run[m + 1][name][visiting] = run[m][name][visiting]}
<1>9. 0 \in settled
  <2> SUFFICES ASSUME NEW name \in names, NEW visiting \in SUBSET names,
                      Cardinality(names \ visiting) <= 0
               PROVE  run[1][name][visiting] = run[0][name][visiting]
    BY DEF settled
  <2>1. IsFiniteSet(names \ visiting)
    BY FS_Subset
  <2>2. Cardinality(names \ visiting) = 0
    BY <2>1, FS_CardinalityType
  <2>3. names \ visiting = {}
    BY <2>1, <2>2, FS_EmptySet
  <2>4. 0 \in 0 .. n + 1 /\ 1 \in 0 .. n + 1
    OBVIOUS
  <2> QED
    BY <1>8, <2>3, <2>4
<1>10. ASSUME NEW m \in 1 .. n, m - 1 \in settled PROVE m \in settled
  <2> SUFFICES ASSUME NEW name \in names, NEW visiting \in SUBSET names,
                      Cardinality(names \ visiting) <= m
               PROVE  run[m + 1][name][visiting] = run[m][name][visiting]
    BY DEF settled
  <2>1. m \in 0 .. n + 1 /\ m + 1 \in 0 .. n + 1 /\ m \in 1 .. n + 1 /\ m + 1 \in 1 .. n + 1
    OBVIOUS
  <2>2. CASE name \in visiting
    BY <1>8, <2>1, <2>2
  <2>3. CASE name \notin visiting
    <3> DEFINE wider == visiting \cup {name}
    <3>1. wider \in SUBSET names /\ names \ wider = (names \ visiting) \ {name}
      OBVIOUS
    <3>2. IsFiniteSet(names \ visiting)
      BY FS_Subset
    <3>3. Cardinality(names \ visiting) \in Nat
      BY <3>2, FS_CardinalityType
    <3>4. Cardinality(names \ wider) = Cardinality(names \ visiting) - 1
      <4>1. name \in names \ visiting
        BY <2>3
      <4>2. Cardinality((names \ visiting) \ {name}) = Cardinality(names \ visiting) - 1
        BY <3>2, <4>1, FS_RemoveElement
      <4> QED
        BY <3>1, <4>2
    <3>5. Cardinality(names \ wider) <= m - 1
      BY <3>3, <3>4
    <3> HIDE DEF wider
    <3>6. \A t \in names : run[m][t][wider] = run[m - 1][t][wider]
      <4>1. \A t \in names : run[(m - 1) + 1][t][wider] = run[m - 1][t][wider]
        BY <1>10, <3>1, <3>5 DEF settled
      <4>2. (m - 1) + 1 = m
        OBVIOUS
      <4> QED
        BY <4>1, <4>2
    <3>7. KeyTarget(EntityOf(s, name)) \subseteq names
      BY DEF TargetsKnown
    <3>8. run[m + 1][name][visiting] = \E t \in KeyTarget(EntityOf(s, name)) : run[m][t][wider]
      <4>1. (m + 1) - 1 = m
        OBVIOUS
      <4>2. run[m + 1][name][visiting] =
                \/ name \in visiting
                \/ \E t \in KeyTarget(EntityOf(s, name)) : run[(m + 1) - 1][t][wider]
        BY ZenonT(30), <1>6, <2>1 DEF wider
      <4> QED
        BY <2>3, <4>1, <4>2
    <3>9. run[m][name][visiting] = \E t \in KeyTarget(EntityOf(s, name)) : run[m - 1][t][wider]
      <4>2. run[m][name][visiting] =
                \/ name \in visiting
                \/ \E t \in KeyTarget(EntityOf(s, name)) : run[m - 1][t][wider]
        BY ZenonT(30), <1>6, <2>1 DEF wider
      <4> QED
        BY <2>3, <4>2
    <3>10. (\E t \in KeyTarget(EntityOf(s, name)) : run[m][t][wider])
              = \E t \in KeyTarget(EntityOf(s, name)) : run[m - 1][t][wider]
      BY <3>6, <3>7
    <3> QED
      BY <3>8, <3>9, <3>10
  <2> QED
    BY <2>2, <2>3
<1>11. n \in settled
  <2> HIDE DEF settled
  <2>1. \A m \in 1 .. n : m - 1 \in settled => m \in settled
    BY <1>10
  <2>2. \A m \in 0 .. n : m \in settled
    BY <1>9, <2>1, RoundByRound
  <2> QED
    BY <2>2
<1>12. run[n + 1] = run[n]
  <2>1. n \in 0 .. n + 1 /\ n + 1 \in 0 .. n + 1
    OBVIOUS
  <2>2. ASSUME NEW name \in names, NEW visiting \in SUBSET names
        PROVE  run[n + 1][name][visiting] = run[n][name][visiting]
    <3>1. Cardinality(names \ visiting) <= n
      BY FS_Subset
    <3> QED
      BY <1>11, <3>1 DEF settled
  <2>3. run[n] \in S /\ run[n + 1] \in S
    BY <1>5, <2>1
  <2>4. ASSUME NEW name \in names PROVE run[n + 1][name] = run[n][name]
    <3>1. run[n][name] \in [SUBSET names -> BOOLEAN] /\ run[n + 1][name] \in [SUBSET names -> BOOLEAN]
      BY <2>3
    <3> QED
      BY <2>2, <3>1
  <2> QED
    BY <2>3, <2>4
<1>13. run[n + 1] = once(run[n])
  <2>1. n + 1 \in 1 .. n + 1 /\ (n + 1) - 1 = n
    OBVIOUS
  <2> HIDE DEF once
  <2> QED
    BY <1>5, <2>1
<1>14. run[n] = once(run[n])
  BY <1>12, <1>13
<1> QED
  BY ZenonT(30), <1>14 DEF IsVisit

\* primary_key_relationship_has_cycle is that function, from the entity's key on.
LEMMA CycleSearch ==
    ASSUME NEW s \in Seq(Entity), \E visit : IsVisit(s, visit)
    PROVE  \E visit : /\ IsVisit(s, visit)
                      /\ \A e : KeyCycle(s, e) <=> \E t \in KeyTarget(e) : visit[t][{e.name}]
<1> DEFINE chosen == CHOOSE visit : IsVisit(s, visit)
<1>1. IsVisit(s, chosen)
  OBVIOUS
<1>2. \A e : KeyCycle(s, e) <=> \E t \in KeyTarget(e) : chosen[t][{e.name}]
  BY DEF KeyCycle, IsVisit
<1> QED
  BY <1>1, <1>2

\* Types, and what stands for one that does not exist.
KeyTypes == STRING \cup {"i32", "endless"}

\* The type of an entity's key column, or the entity its key refers to.
Own(s, name) ==
    LET e == EntityOf(s, name)
        f == FieldOf(e, e.primary_key[1])
    IN  IF Len(e.primary_key) # 1 \/ f.kind = "Vec" THEN "i32" ELSE f.type

\* The key of an accepted entity: none or several columns, a scalar, or one relation
\* to an entity of the block.
LEMMA KeyCase ==
    ASSUME NEW s \in Seq(Entity), Accepted(s), NEW name \in Names(s)
    PROVE  /\ Own(s, name) \in KeyTypes \ {"endless"}
           /\ KeyTarget(EntityOf(s, name)) # {} =>
                 /\ Len(EntityOf(s, name).primary_key) = 1
                 /\ FieldOf(EntityOf(s, name), EntityOf(s, name).primary_key[1]).kind = "one"
                 /\ KeyTarget(EntityOf(s, name)) = {Own(s, name)}
                 /\ Own(s, name) \in Names(s)
           /\ KeyTarget(EntityOf(s, name)) = {} =>
                 \/ Len(EntityOf(s, name).primary_key) # 1 /\ Own(s, name) = "i32"
                 \/ /\ Len(EntityOf(s, name).primary_key) = 1
                    /\ FieldOf(EntityOf(s, name), EntityOf(s, name).primary_key[1]).kind = "scalar"
<1>1. PICK e \in Entity : e = EntityOf(s, name) /\ KeyExists(e)
  BY EntityFound DEF Accepted
<1>2. PICK n \in Nat : n = Len(e.primary_key) /\ DOMAIN e.primary_key = 1 .. n
  BY FieldShape
<1>3. KeyTarget(e) \subseteq Names(s)
  BY <1>1, AcceptedTargetsKnown DEF TargetsKnown
<1>4. CASE n # 1
  BY <1>1, <1>2, <1>4 DEF Own, KeyTarget, KeyTypes
<1>5. CASE n = 1
  <2>1. PICK i \in DOMAIN e.fields :
           /\ FieldOf(e, e.primary_key[1]) = e.fields[i]
           /\ e.fields[i].name = e.primary_key[1]
           /\ e.fields[i].kind \in {"scalar", "one"}
    BY SMTT(20), <1>1, <1>2, <1>5, KeyShape
  <2>2. e.primary_key[1] \in FieldNames(e)
    BY <2>1 DEF FieldNames
  <2>3. KeyTarget(e) = IF e.fields[i].kind = "one" THEN {e.fields[i].type} ELSE {}
    BY <1>2, <1>5, <2>1, <2>2 DEF KeyTarget
  <2>4. Own(s, name) = e.fields[i].type
    BY <1>1, <1>2, <1>5, <2>1 DEF Own
  <2>5. e.fields[i].type \in STRING \ {"endless"}
    BY FieldShape
  <2> QED
    BY <1>1, <1>2, <1>3, <1>5, <2>1, <2>3, <2>4, <2>5 DEF KeyTypes
<1> QED
  BY <1>4, <1>5

\* What resolve_target_pk_type computes, step by step.
AreTypes(s, type) ==
    /\ type \in [0 .. Len(s) -> [Names(s) -> KeyTypes]]
    /\ \A left \in 0 .. Len(s), name \in Names(s) :
          type[left][name] = IF KeyTarget(EntityOf(s, name)) = {} THEN Own(s, name)
                             ELSE IF left = 0 THEN "endless"
                             ELSE type[left - 1][Own(s, name)]

\* The recursion of resolve_target_pk_type, which always ends for want of steps, if
\* not before.
LEMMA TypesExist ==
    ASSUME NEW s \in Seq(Entity), Accepted(s)
    PROVE  \E type : /\ AreTypes(s, type)
                     /\ \A target : TargetKeyType(s, target) = type[Len(s)][target]
<1>1. PICK n \in Nat : n = Len(s)
  OBVIOUS
<1> DEFINE names == Names(s)
           S == [names -> KeyTypes]
           ended == {name \in names : KeyTarget(EntityOf(s, name)) = {}}
           start == [name \in names |-> IF name \in ended THEN Own(s, name) ELSE "endless"]
           once(g) == [name \in names |-> IF name \in ended THEN Own(s, name) ELSE g[Own(s, name)]]
           step == [m \in 1 .. n |-> [g \in S |-> once(g)]]
<1>2. \A name \in names : Own(s, name) \in KeyTypes /\ (name \notin ended => Own(s, name) \in names)
  BY KeyCase
<1>3. start \in S
  BY <1>2 DEF KeyTypes
<1>4. step \in [1 .. n -> [S -> S]]
  BY <1>2
<1>5. PICK run : IsRun(run, n, S, start, step)
  <2> HIDE DEF S, start, step
  <2> QED
    BY <1>3, <1>4, Iteration
<1>6. run \in [0 .. n -> S] /\ run[0] = start /\ \A m \in 1 .. n : run[m] = once(run[m - 1])
  <2> HIDE DEF S, start, once
  <2>1. run \in [0 .. n -> S] /\ run[0] = start
    BY <1>5 DEF IsRun
  <2>2. ASSUME NEW m \in 1 .. n PROVE run[m] = once(run[m - 1])
    <3>1. m - 1 \in 0 .. n
      OBVIOUS
    <3>2. run[m] = step[m][run[m - 1]]
      BY <1>5 DEF IsRun
    <3> QED
      BY <2>1, <3>1, <3>2
  <2> QED
    BY <2>1, <2>2
<1>7. ASSUME NEW left \in 0 .. n, NEW name \in names
      PROVE  run[left][name] = IF KeyTarget(EntityOf(s, name)) = {} THEN Own(s, name)
                               ELSE IF left = 0 THEN "endless"
                               ELSE run[left - 1][Own(s, name)]
  <2>1. CASE left = 0
    BY <1>6, <2>1
  <2>2. CASE left # 0
    <3>1. left \in 1 .. n
      BY <2>2
    <3>2. run[left] = once(run[left - 1])
      BY <1>6, <3>1
    <3> QED
      BY <2>2, <3>2
  <2> QED
    BY <2>1, <2>2
<1> DEFINE body(type, left, name) ==
               LET e == EntityOf(s, name)
                   f == FieldOf(e, e.primary_key[1])
               IN  IF Len(e.primary_key) # 1 \/ f.kind = "Vec" THEN "i32"
                   ELSE IF f.kind = "scalar" THEN f.type
                   ELSE IF left = 0 THEN "endless" ELSE type[left - 1][f.type]
           unfolded(type) == [left \in 0 .. Len(s) |-> [name \in Names(s) |-> body(type, left, name)]]
<1>8. ASSUME NEW type, NEW left, NEW name \in names
      PROVE  body(type, left, name) = IF KeyTarget(EntityOf(s, name)) = {} THEN Own(s, name)
                                      ELSE IF left = 0 THEN "endless"
                                      ELSE type[left - 1][Own(s, name)]
  BY KeyCase DEF Own
<1>9. run = unfolded(run)
  <2>1. \A left \in 0 .. n : run[left] = [name \in names |-> body(run, left, name)]
    <3> TAKE left \in 0 .. n
    <3>1. run[left] = [name \in names |-> run[left][name]]
      BY <1>6
    <3> HIDE DEF body
    <3>2. \A name \in names : run[left][name] = body(run, left, name)
      BY <1>7, <1>8
    <3> QED
      BY <3>1, <3>2
  <2> HIDE DEF body
  <2> QED
    BY <1>1, <1>6, <2>1
<1> DEFINE chosen == CHOOSE type : type = unfolded(type)
<1>10. chosen = unfolded(chosen)
  BY <1>9
<1>11. \A target : TargetKeyType(s, target) = chosen[Len(s)][target]
  BY DEF TargetKeyType
<1> HIDE DEF chosen
<1>12. \A left \in 0 .. n, name \in names : chosen[left][name] = body(chosen, left, name)
  <2> HIDE DEF body
  <2> QED
    BY <1>1, <1>10
<1>13. \A left \in 0 .. n, name \in names :
          chosen[left][name] = IF KeyTarget(EntityOf(s, name)) = {} THEN Own(s, name)
                               ELSE IF left = 0 THEN "endless"
                               ELSE chosen[left - 1][Own(s, name)]
  <2> HIDE DEF body
  <2> QED
    BY <1>8, <1>12
<1>14. \A left \in 0 .. n : chosen[left] = [name \in names |-> chosen[left][name]]
  BY <1>1, <1>10
<1>15. \A left \in 0 .. n : chosen[left] \in S
  <2> DEFINE typed == {left \in 0 .. n : \A name \in names : chosen[left][name] \in KeyTypes}
  <2>1. 0 \in typed
    BY <1>1, <1>2, <1>13 DEF KeyTypes
  <2>2. \A left \in 1 .. n : left - 1 \in typed => left \in typed
    BY <1>2, <1>13
  <2> HIDE DEF typed
  <2>3. \A left \in 0 .. n : left \in typed
    BY <2>1, <2>2, RoundByRound
  <2> QED
    BY <1>14, <2>3 DEF typed
<1>16. chosen \in [0 .. n -> S]
  <2>1. chosen = [left \in 0 .. n |-> chosen[left]]
    BY <1>1, <1>10
  <2> HIDE DEF S
  <2> QED
    BY <1>15, <2>1
<1> QED
  BY <1>1, <1>11, <1>13, <1>16 DEF AreTypes

\* Without a cycle the recursion ends, before it has passed all entities.
LEMMA TypeFound ==
    ASSUME NEW s \in Seq(Entity), Accepted(s), NEW n \in Nat, n = Len(s),
           NEW type, AreTypes(s, type), NEW target \in Names(s)
    PROVE  type[n][target] # "endless"
<1> DEFINE names == Names(s)
<1>1. IsFiniteSet(names) /\ Cardinality(names) = n
  BY NamesCounted
<1>2. TargetsKnown(s)
  BY AcceptedTargetsKnown
<1>3. PICK visit : /\ IsVisit(s, visit)
                   /\ \A e : KeyCycle(s, e) <=> \E t \in KeyTarget(e) : visit[t][{e.name}]
  BY <1>1, <1>2, VisitExists, CycleSearch
<1>4. ASSUME NEW name \in names, NEW visiting \in SUBSET names, ~visit[name][visiting]
      PROVE  /\ name \notin visiting
             /\ \A t \in KeyTarget(EntityOf(s, name)) : ~visit[t][visiting \cup {name}]
  <2>1. visit[name][visiting] =
           \/ name \in visiting
           \/ \E t \in KeyTarget(EntityOf(s, name)) : visit[t][visiting \cup {name}]
    <3>1. visit[name] = [aside \in SUBSET names |->
             \/ name \in aside
             \/ \E t \in KeyTarget(EntityOf(s, name)) : visit[t][aside \cup {name}]]
      BY <1>3 DEF IsVisit
    <3> QED
      BY <3>1, Zenon
  <2> QED
    BY <1>4, <2>1
<1> DEFINE room(visiting, m) == Cardinality(visiting) + m = n
           ends == {m \in 0 .. n : \A name \in names, visiting \in SUBSET names :
                       room(visiting, m) /\ ~visit[name][visiting] => type[m][name] # "endless"}
<1>5. 0 \in ends
  <2> SUFFICES ASSUME NEW name \in names, NEW visiting \in SUBSET names,
                      room(visiting, 0), ~visit[name][visiting]
               PROVE  FALSE
    OBVIOUS
  <2>1. Cardinality(visiting) = n
    <3>1. Cardinality(visiting) \in Nat
      BY <1>1, FS_Subset, FS_CardinalityType
    <3> QED
      BY <3>1
  <2>2. visiting = names
    BY <1>1, <2>1, FS_Subset
  <2> QED
    BY <1>4, <2>2
<1>6. ASSUME NEW m \in 1 .. n, m - 1 \in ends PROVE m \in ends
  <2> SUFFICES ASSUME NEW name \in names, NEW visiting \in SUBSET names,
                      room(visiting, m), ~visit[name][visiting]
               PROVE  type[m][name] # "endless"
    OBVIOUS
  <2>1. type[m][name] = IF KeyTarget(EntityOf(s, name)) = {} THEN Own(s, name)
                        ELSE type[m - 1][Own(s, name)]
    BY DEF AreTypes
  <2>2. CASE KeyTarget(EntityOf(s, name)) = {}
    BY <2>1, <2>2, KeyCase
  <2>3. CASE KeyTarget(EntityOf(s, name)) # {}
    <3>1. PICK t \in names : t = Own(s, name) /\ t \in KeyTarget(EntityOf(s, name))
      BY <2>3, KeyCase
    <3>2. name \notin visiting /\ ~visit[t][visiting \cup {name}]
      BY <1>4, <3>1
    <3>3. room(visiting \cup {name}, m - 1)
      <4>1. IsFiniteSet(visiting) /\ Cardinality(visiting) \in Nat
        BY <1>1, FS_Subset, FS_CardinalityType
      <4>2. Cardinality(visiting \cup {name}) = Cardinality(visiting) + 1
        BY <3>2, <4>1, FS_AddElement
      <4> QED
        BY <4>1, <4>2
    <3>4. visiting \cup {name} \in SUBSET names
      OBVIOUS
    <3> HIDE DEF room
    <3>5. type[m - 1][t] # "endless"
      BY <1>6, <3>2, <3>3, <3>4
    <3> QED
      BY <2>1, <2>3, <3>1, <3>5
  <2> QED
    BY <2>2, <2>3
<1>7. \A m \in 0 .. n : m \in ends
  <2> HIDE DEF ends
  <2>1. \A m \in 1 .. n : m - 1 \in ends => m \in ends
    BY <1>6
  <2> QED
    BY <1>5, <2>1, RoundByRound
<1>8. type[n][target] = IF KeyTarget(EntityOf(s, target)) = {} THEN Own(s, target)
                        ELSE IF n = 0 THEN "endless" ELSE type[n - 1][Own(s, target)]
  BY DEF AreTypes
<1>9. CASE KeyTarget(EntityOf(s, target)) = {}
  BY <1>8, <1>9, KeyCase
<1>10. CASE KeyTarget(EntityOf(s, target)) # {}
  <2>1. PICK t \in names : t = Own(s, target) /\ t \in KeyTarget(EntityOf(s, target))
    BY <1>10, KeyCase
  <2>2. PICK i \in DOMAIN s : EntityOf(s, target) = s[i] /\ s[i].name = target
    BY EntityFound
  <2>3. ~visit[t][{target}]
    <3>1. ~KeyCycle(s, s[i])
      BY DEF Accepted, KeysResolve
    <3> QED
      BY <1>3, <2>1, <2>2, <3>1
  <2>4. Cardinality({target}) = 1 /\ {target} \in SUBSET names
    BY FS_Singleton
  <2>5. n >= 1
    BY <1>1, <2>4, FS_Subset
  <2>6. n - 1 \in 0 .. n /\ room({target}, n - 1)
    BY <2>4, <2>5
  <2>7. type[n - 1][t] # "endless"
    BY <1>7, <2>3, <2>4, <2>6
  <2> QED
    BY <1>8, <1>10, <2>1, <2>5, <2>7
<1> QED
  BY <1>9, <1>10

\* What was found does not depend on how many steps are left.
LEMMA TypeSettled ==
    ASSUME NEW s \in Seq(Entity), Accepted(s), NEW n \in Nat, n = Len(s),
           NEW type, AreTypes(s, type)
    PROVE  \A m \in 1 .. n, name \in Names(s) :
              type[m - 1][name] # "endless" => type[m][name] = type[m - 1][name]
<1> DEFINE names == Names(s)
           settled == {m \in 0 .. n : m = 0 \/ \A name \in names :
                          type[m - 1][name] # "endless" => type[m][name] = type[m - 1][name]}
<1>1. \A left \in 0 .. n, name \in names :
         type[left][name] = IF KeyTarget(EntityOf(s, name)) = {} THEN Own(s, name)
                            ELSE IF left = 0 THEN "endless"
                            ELSE type[left - 1][Own(s, name)]
  BY DEF AreTypes
<1>2. ASSUME NEW m \in 1 .. n, m - 1 \in settled PROVE m \in settled
  <2> SUFFICES ASSUME NEW name \in names, type[m - 1][name] # "endless"
               PROVE  type[m][name] = type[m - 1][name]
    OBVIOUS
  <2>1. m \in 0 .. n /\ m - 1 \in 0 .. n
    OBVIOUS
  <2>2. CASE KeyTarget(EntityOf(s, name)) = {}
    BY <1>1, <2>1, <2>2
  <2>3. CASE KeyTarget(EntityOf(s, name)) # {}
    <3>1. PICK t \in names : t = Own(s, name)
      BY <2>3, KeyCase
    <3>2. m - 1 # 0 /\ type[m - 1][name] = type[(m - 1) - 1][t] /\ type[m][name] = type[m - 1][t]
      BY <1>1, <2>1, <2>3, <3>1
    <3>3. type[m - 1][t] = type[(m - 1) - 1][t]
      BY <1>2, <3>2
    <3> QED
      BY <3>2, <3>3
  <2> QED
    BY <2>2, <2>3
<1>3. \A m \in 0 .. n : m \in settled
  <2>1. 0 \in settled
    OBVIOUS
  <2> HIDE DEF settled
  <2>2. \A m \in 1 .. n : m - 1 \in settled => m \in settled
    BY <1>2
  <2> QED
    BY <2>1, <2>2, RoundByRound
<1> QED
  BY <1>3

\* The type of a foreign key: it is one, and that of the column the key of
\* the entity it refers to gets.
LEMMA KeyTypeFound ==
    ASSUME NEW s \in Seq(Entity), Accepted(s), NEW name \in Names(s)
    PROVE  /\ TargetKeyType(s, name) # "endless"
           /\ KeyTarget(EntityOf(s, name)) = {} => TargetKeyType(s, name) = Own(s, name)
           /\ KeyTarget(EntityOf(s, name)) # {} => TargetKeyType(s, name) = TargetKeyType(s, Own(s, name))
<1>1. PICK type : AreTypes(s, type) /\ \A target : TargetKeyType(s, target) = type[Len(s)][target]
  BY TypesExist
<1>2. PICK n \in Nat : n = Len(s)
  OBVIOUS
<1>3. \A target \in Names(s) : type[n][target] # "endless"
  BY <1>1, <1>2, TypeFound
<1>4. type[n][name] = IF KeyTarget(EntityOf(s, name)) = {} THEN Own(s, name)
                      ELSE IF n = 0 THEN "endless" ELSE type[n - 1][Own(s, name)]
  BY <1>1, <1>2 DEF AreTypes
<1>5. CASE KeyTarget(EntityOf(s, name)) = {}
  BY <1>1, <1>2, <1>3, <1>4, <1>5
<1>6. CASE KeyTarget(EntityOf(s, name)) # {}
  <2>1. PICK t \in Names(s) : t = Own(s, name)
    BY <1>6, KeyCase
  <2>2. n \in 1 .. n /\ type[n][name] = type[n - 1][t] /\ type[n - 1][t] # "endless"
    BY <1>2, <1>3, <1>4, <1>6, <2>1
  <2>3. type[n][t] = type[n - 1][t]
    BY <1>1, <1>2, <2>2, TypeSettled
  <2> QED
    BY <1>1, <1>2, <1>3, <1>6, <2>1, <2>2, <2>3
<1> QED
  BY <1>5, <1>6

-----------------------------------------------------------------------------
(* The columns *)

\* The name field i gets.
WrittenName(e, i) ==
    IF e.fields[i].kind = "scalar" THEN e.fields[i].name ELSE KeyName(e, e.fields[i])

\* A model has these fields and no other.
LEMMA ColumnsOf ==
    ASSUME NEW s, NEW e
    PROVE  /\ \A i \in DOMAIN e.fields : e.fields[i].kind # "Vec" =>
                 \A at \in WrittenAt(e, i) : ModelField(s, e, i, at) \in ModelFields(s, e)
           /\ \A c \in AddedNames(e) : AddedField(c) \in ModelFields(s, e)
           /\ \A c \in ModelFields(s, e) :
                 \/ \E i \in DOMAIN e.fields : \E at \in WrittenAt(e, i) :
                        e.fields[i].kind # "Vec" /\ c = ModelField(s, e, i, at)
                 \/ \E name \in AddedNames(e) : c = AddedField(name)
<1>1. \A c : c \in WrittenFields(s, e) <=>
            \E i \in DOMAIN e.fields : \E at \in WrittenAt(e, i) :
                e.fields[i].kind # "Vec" /\ c = ModelField(s, e, i, at)
  BY DEF WrittenFields
<1>2. \A c : c \in ModelFields(s, e) <=>
            \/ c \in WrittenFields(s, e)
            \/ \E name \in AddedNames(e) : c = AddedField(name)
  BY DEF ModelFields
<1> QED
  BY <1>1, <1>2

\* What a field of the model says.
LEMMA ColumnShape ==
    ASSUME NEW s, NEW e, NEW i, NEW at
    PROVE  LET c == ModelField(s, e, i, at)
           IN  /\ c.of = i /\ c.at = at /\ (c.key <=> at # 0) /\ c.name = WrittenName(e, i)
               /\ c.nullable = (e.fields[i].optional /\ at = 0)
               /\ c.type = IF e.fields[i].kind = "scalar" THEN e.fields[i].type
                           ELSE TargetKeyType(s, e.fields[i].type)
BY DEF ModelField, WrittenName

\* Where a field is written: at an entry of the key, or in no key.
LEMMA PlacesOf ==
    ASSUME NEW e \in Entity, NEW i \in DOMAIN e.fields
    PROVE  /\ ~InKey(e, e.fields[i]) => WrittenAt(e, i) = {0}
           /\ \A k \in DOMAIN e.primary_key : e.primary_key[k] = e.fields[i].name =>
                 InKey(e, e.fields[i]) /\ k \in WrittenAt(e, i) /\ k # 0
           /\ InKey(e, e.fields[i]) => \A k \in WrittenAt(e, i) :
                 k \in DOMAIN e.primary_key /\ e.primary_key[k] = e.fields[i].name
           /\ WrittenAt(e, i) # {}
<1>1. \A k \in DOMAIN e.primary_key : k # 0
  BY FieldShape
<1> QED
  BY <1>1 DEF WrittenAt, InKey

\* The column a foreign key refers to.
LEMMA KeyColumnFits ==
    ASSUME NEW s \in Seq(Entity), Accepted(s), NEW name \in Names(s),
           Len(EntityOf(s, name).primary_key) <= 1
    PROVE  \E d \in ModelFields(s, EntityOf(s, name)) :
              d.key /\ d.name = TargetKeyColumn(s, name) /\ d.type = TargetKeyType(s, name)
<1>1. PICK e \in Entity : e = EntityOf(s, name) /\ KeyExists(e)
  BY EntityFound DEF Accepted
<1>2. PICK n \in Nat : n = Len(e.primary_key) /\ DOMAIN e.primary_key = 1 .. n
  BY FieldShape
<1>3. CASE n = 0
  <2>1. e.primary_key = <<>>
    <3>1. e.primary_key \in Seq(Seq(STRING)) /\ Len(e.primary_key) = 0
      BY <1>2, <1>3, FieldShape
    <3> QED
      BY <3>1, EmptySeq
  <2>2. <<"id">> \in AddedNames(e)
    BY <2>1 DEF AddedNames
  <2>3. AddedField(<<"id">>) \in ModelFields(s, e)
    BY <2>2, ColumnsOf
  <2>4. KeyTarget(e) = {}
    BY <1>2, <1>3 DEF KeyTarget
  <2>5. TargetKeyType(s, name) = "i32"
    BY <1>1, <1>2, <1>3, <2>4, KeyTypeFound, KeyCase
  <2>6. TargetKeyColumn(s, name) = <<"id">>
    BY <1>1, <1>2, <1>3 DEF TargetKeyColumn
  <2>7. /\ AddedField(<<"id">>).key /\ AddedField(<<"id">>).name = <<"id">>
        /\ AddedField(<<"id">>).type = "i32"
    BY DEF AddedField
  <2> HIDE DEF AddedField
  <2> QED
    BY <1>1, <2>3, <2>5, <2>6, <2>7
<1>4. CASE n = 1
  <2>1. PICK i \in DOMAIN e.fields :
           /\ FieldOf(e, e.primary_key[1]) = e.fields[i]
           /\ e.fields[i].name = e.primary_key[1]
           /\ e.fields[i].kind \in {"scalar", "one"}
    BY SMTT(20), <1>1, <1>2, <1>4, KeyShape
  <2>2. InKey(e, e.fields[i]) /\ 1 \in WrittenAt(e, i)
    BY <1>2, <1>4, <2>1, PlacesOf
  <2>3. TargetKeyColumn(s, name) = e.fields[i].name
    BY <1>1, <1>2, <1>4, <2>1 DEF TargetKeyColumn
  <2>4. e.primary_key[1] \in FieldNames(e)
    BY <2>1 DEF FieldNames
  <2>5. KeyTarget(e) = IF e.fields[i].kind = "one" THEN {e.fields[i].type} ELSE {}
    BY <1>2, <1>4, <2>1, <2>4 DEF KeyTarget
  <2>6. Own(s, name) = e.fields[i].type
    BY <1>1, <1>2, <1>4, <2>1 DEF Own
  <2>7. TargetKeyType(s, name) = IF e.fields[i].kind = "scalar" THEN e.fields[i].type
                                 ELSE TargetKeyType(s, e.fields[i].type)
    <3>1. CASE e.fields[i].kind = "scalar"
      BY <1>1, <2>5, <2>6, <3>1, KeyTypeFound
    <3>2. CASE e.fields[i].kind = "one"
      BY <1>1, <2>5, <2>6, <3>2, KeyTypeFound
    <3> QED
      BY <2>1, <3>1, <3>2
  <2>8. WrittenName(e, i) = e.fields[i].name
    BY <2>2 DEF WrittenName, KeyName
  <2>9. ModelField(s, e, i, 1) \in ModelFields(s, e)
    BY <2>1, <2>2, ColumnsOf
  <2>10. /\ ModelField(s, e, i, 1).key
         /\ ModelField(s, e, i, 1).name = TargetKeyColumn(s, name)
         /\ ModelField(s, e, i, 1).type = TargetKeyType(s, name)
    <3> DEFINE c == ModelField(s, e, i, 1)
    <3>1. /\ (c.key <=> 1 # 0) /\ c.name = WrittenName(e, i)
          /\ c.type = IF e.fields[i].kind = "scalar" THEN e.fields[i].type
                      ELSE TargetKeyType(s, e.fields[i].type)
      BY ColumnShape
    <3> HIDE DEF c
    <3>2. c.key
      BY <3>1
    <3>3. c.name = TargetKeyColumn(s, name) /\ c.type = TargetKeyType(s, name)
      BY <2>3, <2>7, <2>8, <3>1
    <3> QED
      BY <3>2, <3>3 DEF c
  <2> QED
    BY <1>1, <2>9, <2>10
<1>5. n <= 1
  BY <1>1, <1>2
<1>6. n = 0 \/ n = 1
  BY <1>5
<1> QED
  BY <1>3, <1>4, <1>6

\* Foreign keys fit what they refer to.
LEMMA AcceptedKeysFit ==
    ASSUME NEW s \in Seq(Entity), Accepted(s)
    PROVE  ForeignKeysFit(s)
<1> SUFFICES ASSUME NEW i \in DOMAIN s, NEW k \in DOMAIN s[i].fields, s[i].fields[k].kind = "one"
             PROVE  \E c \in ModelFields(s, s[i]), d \in ModelFields(s, EntityOf(s, s[i].fields[k].type)) :
                       /\ c.of = k /\ c.nullable = s[i].fields[k].optional
                       /\ d.key /\ d.name = TargetKeyColumn(s, s[i].fields[k].type)
                       /\ c.type = d.type /\ c.type # "endless"
  BY DEF ForeignKeysFit
<1>1. PICK e \in Entity : e = s[i] /\ WellFormed(e) /\ KeyExists(e)
  BY DEF Accepted
<1>2. PICK f : f = e.fields[k] /\ f.optional \in BOOLEAN
  BY <1>1, FieldShape
<1>3. f.type \in Names(s)
  BY <1>1, <1>2 DEF Accepted, Known, IsRelation
<1>4. Len(EntityOf(s, f.type).primary_key) <= 1
  BY <1>1, <1>2 DEF Accepted, KeysResolve
<1>5. PICK d \in ModelFields(s, EntityOf(s, f.type)) :
         d.key /\ d.name = TargetKeyColumn(s, f.type) /\ d.type = TargetKeyType(s, f.type)
  BY <1>3, <1>4, KeyColumnFits
<1>6. TargetKeyType(s, f.type) # "endless"
  BY <1>3, KeyTypeFound
<1>7. InKey(e, f) => ~f.optional
  <2> SUFFICES ASSUME NEW n \in DOMAIN e.primary_key, e.primary_key[n] = f.name
               PROVE  ~f.optional
    BY DEF InKey
  <2>1. PICK j \in DOMAIN e.fields :
           e.fields[j].name = e.primary_key[n] /\ (e.fields[j].kind = "one" => ~e.fields[j].optional)
    BY <1>1, KeyShape
  <2>2. j = k
    BY <1>1, <1>2, <2>1, FieldsDiffer
  <2> QED
    BY <1>1, <1>2, <2>1, <2>2
<1>8. PICK at : at \in WrittenAt(e, k)
  BY <1>1, PlacesOf
<1>9. ~InKey(e, f) => at = 0
  BY <1>1, <1>2, <1>8, PlacesOf
<1>10. ModelField(s, e, k, at) \in ModelFields(s, e)
  BY <1>1, <1>8, ColumnsOf
<1>11. /\ ModelField(s, e, k, at).of = k /\ ModelField(s, e, k, at).type = TargetKeyType(s, f.type)
       /\ ModelField(s, e, k, at).nullable = (f.optional /\ at = 0)
  BY <1>1, <1>2, ColumnShape
<1>12. ModelField(s, e, k, at).nullable = f.optional
  BY <1>2, <1>7, <1>9, <1>11
<1> QED
  BY <1>1, <1>2, <1>5, <1>6, <1>10, <1>11, <1>12

\* A foreign key's own name is that of no column the macro adds.
LEMMA KeyNames ==
    ASSUME NEW name \in Seq(STRING) \ {<<>>}
    PROVE  /\ name \o <<"id">> # <<"id">>
           /\ name \o <<"id">> # <<"created", "at">>
           /\ name \o <<"id">> # <<"updated", "at">>
           /\ name \o <<"id">> # name
           /\ \A other \in Seq(STRING) : name \o <<"id">> = other \o <<"id">> => name = other
<1>1. PICK n \in Nat : n = Len(name) /\ n # 0
  BY EmptySeq
<1>2. <<"id">> \in Seq({"id"} \cup STRING) /\ name \in Seq({"id"} \cup STRING)
  <2>1. <<"id">> \in Seq({"id"} \cup STRING)
    OBVIOUS
  <2>2. \A i \in 1 .. n : name[i] \in {"id"} \cup STRING
    BY <1>1
  <2>3. name \in Seq(STRING)
    OBVIOUS
  <2>4. name \in [1 .. n -> {"id"} \cup STRING]
    BY <1>1, <2>2, <2>3
  <2> QED
    BY <1>1, <2>1, <2>4
<1>3. /\ Len(name \o <<"id">>) = n + 1
      /\ (name \o <<"id">>)[n + 1] = "id"
  <2>1. Len(<<"id">>) = 1 /\ <<"id">>[1] = "id"
    OBVIOUS
  <2>2. /\ Len(name \o <<"id">>) = Len(name) + Len(<<"id">>)
        /\ \A i \in 1 .. Len(name) + Len(<<"id">>) : (name \o <<"id">>)[i] =
              IF i <= Len(name) THEN name[i] ELSE <<"id">>[i - Len(name)]
    BY <1>2, ConcatProperties
  <2> QED
    BY <1>1, <2>1, <2>2
<1>4. Len(<<"id">>) = 1
  OBVIOUS
<1>5. /\ Len(<<"created", "at">>) = 2 /\ <<"created", "at">>[2] = "at"
      /\ Len(<<"updated", "at">>) = 2 /\ <<"updated", "at">>[2] = "at"
  OBVIOUS
<1>6. name \o <<"id">> # <<"id">> /\ name \o <<"id">> # name
  BY <1>1, <1>3, <1>4
<1>7. name \o <<"id">> # <<"created", "at">> /\ name \o <<"id">> # <<"updated", "at">>
  <2>1. ASSUME NEW stamp, Len(stamp) = 2, stamp[2] = "at" PROVE name \o <<"id">> # stamp
    <3> SUFFICES ASSUME name \o <<"id">> = stamp PROVE FALSE
      OBVIOUS
    <3>1. n + 1 = 2
      BY <1>3, <2>1
    <3> QED
      BY <1>3, <2>1, <3>1
  <2> QED
    BY <1>5, <2>1
<1>8. ASSUME NEW other \in Seq(STRING), name \o <<"id">> = other \o <<"id">> PROVE name = other
  <2>1. PICK m \in Nat : m = Len(other)
    OBVIOUS
  <2>2. other \in Seq({"id"} \cup STRING)
    <3>1. \A i \in 1 .. m : other[i] \in {"id"} \cup STRING
      BY <2>1
    <3>2. other \in [1 .. m -> {"id"} \cup STRING]
      BY <2>1, <3>1
    <3> QED
      BY <2>1, <3>2
  <2> QED
    BY <1>2, <1>8, <2>2, ConcatSimplifications
<1> QED
  BY <1>6, <1>7, <1>8

\* What to_snake_case makes of a name is a name.
LEMMA SnakeNames ==
    ASSUME NEW e \in Entity, NEW i \in DOMAIN e.fields
    PROVE  Snake(e.fields[i].name) \in Seq(STRING) \ {<<>>}
<1>1. e.fields[i].name \in Seq(STRING) \ {<<>>}
  BY FieldShape
<1> QED
  BY <1>1, SchemaMacroAssumption DEF Snake

\* No field has the column of a name the macro adds.
LEMMA AddedNamesFree ==
    ASSUME NEW e \in Entity, WellFormed(e), KeyExists(e), NEW name \in AddedNames(e),
           NEW i \in DOMAIN e.fields
    PROVE  name # WrittenName(e, i)
<1>1. name \in {<<"id">>, <<"created", "at">>, <<"updated", "at">>}
  BY DEF AddedNames
<1>2. name \notin FieldNames(e)
  BY DEF AddedNames, WellFormed, KeyExists
<1>3. name # e.fields[i].name
  BY <1>2 DEF FieldNames
<1>4. name # Snake(e.fields[i].name) \o <<"id">>
  BY <1>1, SnakeNames, KeyNames
<1> QED
  BY <1>3, <1>4 DEF WrittenName, KeyName

\* Two fields get one name only where one has that of the other's foreign key.
LEMMA NamesMeet ==
    ASSUME NEW e \in Entity, WellFormed(e),
           NEW k \in DOMAIN e.fields, NEW l \in DOMAIN e.fields, k # l,
           e.fields[k].kind # "Vec", e.fields[l].kind # "Vec",
           WrittenName(e, k) = WrittenName(e, l)
    PROVE  Shadows(e, k, l) \/ Shadows(e, l, k)
<1> DEFINE f == e.fields[k]
           g == e.fields[l]
           own(h) == h.kind = "scalar" \/ InKey(e, h)
<1>1. f.name # g.name
  BY FieldsDiffer
<1>2. /\ f.kind \in {"scalar", "one"} /\ g.kind \in {"scalar", "one"}
      /\ Snake(f.name) \in Seq(STRING) \ {<<>>} /\ Snake(g.name) \in Seq(STRING) \ {<<>>}
  BY FieldShape, SnakeNames
<1>3. /\ WrittenName(e, k) = IF own(f) THEN f.name ELSE Snake(f.name) \o <<"id">>
      /\ WrittenName(e, l) = IF own(g) THEN g.name ELSE Snake(g.name) \o <<"id">>
  BY DEF WrittenName, KeyName
<1>4. CASE own(f) /\ own(g)
  BY <1>1, <1>3, <1>4
<1>5. CASE own(f) /\ ~own(g)
  <2>1. f.name = Snake(g.name) \o <<"id">> /\ g.kind = "one" /\ ~InKey(e, g)
    BY <1>2, <1>3, <1>5
  <2> QED
    BY <1>5, <2>1 DEF Shadows
<1>6. CASE ~own(f) /\ own(g)
  <2>1. g.name = Snake(f.name) \o <<"id">> /\ f.kind = "one" /\ ~InKey(e, f)
    BY <1>2, <1>3, <1>6
  <2> QED
    BY <1>6, <2>1 DEF Shadows
<1>7. CASE ~own(f) /\ ~own(g)
  <2>1. Snake(f.name) \o <<"id">> = Snake(g.name) \o <<"id">>
    BY <1>3, <1>7
  <2>2. Snake(f.name) = Snake(g.name)
    BY <1>2, <2>1, KeyNames
  <2>3. f.kind = "one" /\ ~InKey(e, f) /\ g.kind = "one" /\ ~InKey(e, g)
    BY <1>2, <1>7
  <2> QED
    BY <2>2, <2>3 DEF Shadows
<1> QED
  BY <1>4, <1>5, <1>6, <1>7

\* Where a field has the name of the foreign key of another, both are written.
LEMMA ShadowsMeet ==
    ASSUME NEW e \in Entity, WellFormed(e), KeyExists(e),
           NEW k \in DOMAIN e.fields, NEW l \in DOMAIN e.fields, Shadows(e, k, l)
    PROVE  /\ e.fields[k].kind # "Vec" /\ e.fields[l].kind # "Vec"
           /\ WrittenName(e, k) = WrittenName(e, l)
<1>1. e.fields[k].kind = "one" /\ WrittenName(e, k) = Snake(e.fields[k].name) \o <<"id">>
  BY DEF Shadows, WrittenName, KeyName
<1>2. CASE e.fields[l].kind = "one" /\ ~InKey(e, e.fields[l])
  <2>1. Snake(e.fields[l].name) = Snake(e.fields[k].name)
    BY <1>2 DEF Shadows
  <2>2. WrittenName(e, l) = Snake(e.fields[l].name) \o <<"id">>
    BY <1>2 DEF WrittenName, KeyName
  <2> QED
    BY <1>1, <1>2, <2>1, <2>2
<1>3. CASE e.fields[l].kind = "scalar"
  BY <1>1, <1>3 DEF Shadows, WrittenName
<1>4. CASE InKey(e, e.fields[l])
  <2>1. PICK n \in DOMAIN e.primary_key : e.primary_key[n] = e.fields[l].name
    BY <1>4 DEF InKey
  <2>2. PICK j \in DOMAIN e.fields :
           e.fields[j].name = e.primary_key[n] /\ e.fields[j].kind \in {"scalar", "one"}
    BY KeyShape
  <2>3. j = l
    BY <2>1, <2>2, FieldsDiffer
  <2>4. e.fields[l].kind \in {"scalar", "one"}
    BY <2>2, <2>3
  <2>5. e.fields[l].name = Snake(e.fields[k].name) \o <<"id">>
    BY <1>4 DEF Shadows
  <2>6. WrittenName(e, l) = e.fields[l].name
    BY <1>4 DEF WrittenName, KeyName
  <2> QED
    BY <1>1, <2>4, <2>5, <2>6
<1> QED
  BY <1>2, <1>3, <1>4 DEF Shadows

\* Two fields of the model have one name where the key repeats a column or a
\* field has the name of a foreign key, and nowhere else.
LEMMA AcceptedColumnsDiffer ==
    ASSUME NEW s \in Seq(Entity), Accepted(s)
    PROVE  ColumnsDiffer(s)
<1> DEFINE repeated(e) == \E k, l \in DOMAIN e.primary_key : k # l /\ e.primary_key[k] = e.primary_key[l]
           shadowed(e) == \E k, l \in DOMAIN e.fields : k # l /\ Shadows(e, k, l)
           meet(e) == \E c, d \in ModelFields(s, e) : c # d /\ c.name = d.name
<1>1. SUFFICES ASSUME NEW e \in Entity, WellFormed(e), KeyExists(e)
               PROVE  meet(e) <=> repeated(e) \/ shadowed(e)
  <2>1. \A i \in DOMAIN s : s[i] \in Entity /\ WellFormed(s[i]) /\ KeyExists(s[i])
    BY DEF Accepted
  <2> QED
    BY <1>1, <2>1 DEF ColumnsDiffer
<1>2. ASSUME NEW c \in ModelFields(s, e), NEW d \in ModelFields(s, e), c # d, c.name = d.name
      PROVE  repeated(e) \/ shadowed(e)
  <2> DEFINE isField(x, i, at) == /\ i \in DOMAIN e.fields /\ at \in WrittenAt(e, i)
                                  /\ e.fields[i].kind # "Vec" /\ x = ModelField(s, e, i, at)
             isAdded(x) == \E name \in AddedNames(e) : x = AddedField(name)
  <2>1. ASSUME NEW x \in ModelFields(s, e) PROVE (\E i, at : isField(x, i, at)) \/ isAdded(x)
    BY ColumnsOf
  <2>2. ASSUME NEW x, NEW i, NEW at, isField(x, i, at) PROVE x.name = WrittenName(e, i)
    BY <2>2, ColumnShape
  <2>3. ASSUME NEW x, isAdded(x) PROVE x.name \in AddedNames(e) /\ x = AddedField(x.name)
    <3>1. PICK name \in AddedNames(e) : x = AddedField(name)
      BY <2>3
    <3>2. AddedField(name).name = name
      BY DEF AddedField
    <3> QED
      BY <3>1, <3>2
  <2>4. ASSUME NEW x, NEW i, NEW at, NEW y, isField(x, i, at), isAdded(y) PROVE x.name # y.name
    <3>1. y.name \in AddedNames(e) /\ x.name = WrittenName(e, i) /\ i \in DOMAIN e.fields
      BY <2>2, <2>3, <2>4
    <3> QED
      BY <1>1, <3>1, AddedNamesFree
  <2>5. ~(isAdded(c) /\ isAdded(d))
    <3> SUFFICES ASSUME isAdded(c), isAdded(d) PROVE FALSE
      OBVIOUS
    <3>1. c = AddedField(c.name) /\ d = AddedField(d.name)
      BY <2>3
    <3> QED
      BY <1>2, <3>1
  <2> HIDE DEF isAdded
  <2>6. PICK i, at, j, bt : isField(c, i, at) /\ isField(d, j, bt)
    <3> HIDE DEF isField
    <3> QED
      BY <1>2, <2>1, <2>4, <2>5
  <2>7. CASE i # j
    <3>1. WrittenName(e, i) = WrittenName(e, j)
      BY <1>2, <2>2, <2>6
    <3>2. Shadows(e, i, j) \/ Shadows(e, j, i)
      BY <1>1, <2>6, <2>7, <3>1, NamesMeet
    <3>3. i \in DOMAIN e.fields /\ j \in DOMAIN e.fields
      BY <2>6
    <3> QED
      BY <2>7, <3>2, <3>3
  <2>8. CASE i = j
    <3>1. at # bt /\ at \in WrittenAt(e, i) /\ bt \in WrittenAt(e, i) /\ i \in DOMAIN e.fields
      BY <1>2, <2>6, <2>8
    <3>2. InKey(e, e.fields[i])
      BY <1>1, <3>1, PlacesOf
    <3>3. /\ at \in DOMAIN e.primary_key /\ e.primary_key[at] = e.fields[i].name
          /\ bt \in DOMAIN e.primary_key /\ e.primary_key[bt] = e.fields[i].name
      BY <1>1, <3>1, <3>2, PlacesOf
    <3> QED
      BY <3>1, <3>3
  <2> QED
    BY <2>7, <2>8
<1>3. ASSUME NEW k \in DOMAIN e.primary_key, NEW l \in DOMAIN e.primary_key,
             k # l, e.primary_key[k] = e.primary_key[l]
      PROVE  meet(e)
  <2>1. PICK i \in DOMAIN e.fields : e.fields[i].name = e.primary_key[k] /\ e.fields[i].kind # "Vec"
    BY <1>1, KeyShape
  <2>2. k \in WrittenAt(e, i) /\ l \in WrittenAt(e, i)
    BY <1>1, <1>3, <2>1, PlacesOf
  <2>3. ModelField(s, e, i, k) \in ModelFields(s, e) /\ ModelField(s, e, i, l) \in ModelFields(s, e)
    BY <2>1, <2>2, ColumnsOf
  <2>4. /\ ModelField(s, e, i, k).at = k /\ ModelField(s, e, i, l).at = l
        /\ ModelField(s, e, i, k).name = ModelField(s, e, i, l).name
    BY ColumnShape
  <2> QED
    BY <1>3, <2>3, <2>4
<1>4. ASSUME NEW k \in DOMAIN e.fields, NEW l \in DOMAIN e.fields, k # l, Shadows(e, k, l)
      PROVE  meet(e)
  <2>1. /\ e.fields[k].kind # "Vec" /\ e.fields[l].kind # "Vec"
        /\ WrittenName(e, k) = WrittenName(e, l)
    BY <1>1, <1>4, ShadowsMeet
  <2>2. PICK at, bt : at \in WrittenAt(e, k) /\ bt \in WrittenAt(e, l)
    BY <1>1, PlacesOf
  <2>3. ModelField(s, e, k, at) \in ModelFields(s, e) /\ ModelField(s, e, l, bt) \in ModelFields(s, e)
    BY <2>1, <2>2, ColumnsOf
  <2>4. /\ ModelField(s, e, k, at).of = k /\ ModelField(s, e, l, bt).of = l
        /\ ModelField(s, e, k, at).name = ModelField(s, e, l, bt).name
    BY <2>1, ColumnShape
  <2> QED
    BY <1>4, <2>3, <2>4
<1> QED
  BY <1>2, <1>3, <1>4

-----------------------------------------------------------------------------
(* The way back of a has_many *)

\* pick_related_impl_field picks among the relations to the target.
LEMMA WinnerIsMember ==
    ASSUME NEW e \in Entity, NEW target
    PROVE  Winner(e, target) \subseteq Members(e, target, "one") \cup Members(e, target, "Vec")
BY DEF Winner

\* It picks a belongs_to, where there is one and no has_many is marked.
LEMMA BelongsToWins ==
    ASSUME NEW e \in Entity, NEW target, Members(e, target, "one") # {}, Winner(e, target) # {},
           \A n \in Members(e, target, "Vec") : ~e.fields[n].related
    PROVE  \E n \in Winner(e, target) : e.fields[n].kind = "one"
<1> DEFINE one == Members(e, target, "one")
           many == Members(e, target, "Vec")
           marked == {i \in one \cup many : e.fields[i].related}
<1>1. \A n \in one : e.fields[n].kind = "one"
  BY DEF Members
<1>2. marked \subseteq one
  OBVIOUS
<1>3. CASE Cardinality(one \cup many) = 1
  BY <1>1, <1>3 DEF Winner
<1>4. CASE Cardinality(one \cup many) # 1
  <2>1. Winner(e, target) = one \/ Winner(e, target) = marked
    BY <1>4 DEF Winner
  <2> QED
    BY <1>1, <1>2, <2>1
<1> QED
  BY <1>3, <1>4

\* The way back, from has_many to belongs_to, or nowhere.
LEMMA AcceptedBackEdgesFound ==
    ASSUME NEW s \in Seq(Entity), Accepted(s)
    PROVE  BackEdgesFound(s)
<1> SUFFICES ASSUME NEW i \in DOMAIN s, NEW k \in DOMAIN s[i].fields, s[i].fields[k].kind = "Vec",
                    NEW there, there = EntityOf(s, s[i].fields[k].type),
                    NEW back, back = Members(there, s[i].name, "one")
             PROVE  /\ back # {} /\ ~(\E n \in Members(there, s[i].name, "Vec") : there.fields[n].related)
                          => BackEdge(s, s[i], k) = "found"
                    /\ back = {} /\ Members(s[i], s[i].fields[k].type, "one") = {}
                          => BackEdge(s, s[i], k) # "found"
  BY Zenon DEF BackEdgesFound
<1>1. s[i].fields[k].type \in Names(s)
  BY DEF Accepted, Known, IsRelation
<1>2. there \in Entity /\ RelatedPicked(there) /\ there.name = s[i].fields[k].type
  BY <1>1, EntityFound DEF Accepted
<1> DEFINE won == Winner(there, s[i].name)
           again == Winner(s[i], there.name)
<1>3. BackEdge(s, s[i], k) = IF won = {} THEN "missing"
                             ELSE IF \/ \E n \in won : there.fields[n].kind = "one"
                                     \/ \E n \in again : s[i].fields[n].kind = "one"
                                  THEN "found" ELSE "endless"
  BY DEF BackEdge
<1>4. ASSUME back # {}, ~(\E n \in Members(there, s[i].name, "Vec") : there.fields[n].related)
      PROVE  BackEdge(s, s[i], k) = "found"
  <2>1. s[i].name \in Targets(there)
    BY <1>4 DEF Members, Targets, IsRelation
  <2>2. won # {}
    BY <1>2, <2>1 DEF RelatedPicked
  <2>3. \E n \in won : there.fields[n].kind = "one"
    BY <1>2, <1>4, <2>2, BelongsToWins
  <2> HIDE DEF won, again
  <2> QED
    BY <1>3, <2>2, <2>3
<1>5. ASSUME back = {}, Members(s[i], s[i].fields[k].type, "one") = {}
      PROVE  BackEdge(s, s[i], k) # "found"
  <2>1. \A n \in won : there.fields[n].kind # "one"
    BY <1>2, <1>5, WinnerIsMember DEF Members
  <2>2. \A n \in again : s[i].fields[n].kind # "one"
    BY <1>2, <1>5, WinnerIsMember DEF Members
  <2> HIDE DEF won, again
  <2> QED
    BY <1>3, <2>1, <2>2
<1> QED
  BY <1>4, <1>5

\* Whatever a block declares, if the macro accepts it: the search for the types
\* of foreign keys ends, the keys fit the columns they refer to, columns differ,
\* and each has_many finds its way back, with the exceptions that SchemasSound
\* names (analyze_schema, generate.rs).
THEOREM AcceptedSchemasAreSound == SchemaMacroSpec => []SchemasSound
<1>1. BlockOK => SchemasSound
  <2> SUFFICES ASSUME schema \in Seq(Entity), Accepted(schema)
               PROVE  ForeignKeysFit(schema) /\ ColumnsDiffer(schema) /\ BackEdgesFound(schema)
    BY DEF BlockOK, SchemasSound
  <2>1. ColumnsDiffer(schema)
    BY AcceptedColumnsDiffer
  <2> QED
    BY <2>1, AcceptedKeysFit, AcceptedBackEdgesFound
<1> QED
  BY <1>1, BlockStaysTyped, PTL

-----------------------------------------------------------------------------
(* OpenApiImport *)

\* What parsing makes of an operation.
Endpoint ==
    {[handler_name |-> Different(op.name, count),
      operation |-> op,
      request_body |-> RequestOf(op).type,
      response_body |-> ResponseOf(op).type,
      needs_validation |-> validated] :
        op \in Operation, count \in 1 .. MaxOperations, validated \in BOOLEAN}

ImportTyped ==
    /\ progress \in {"parse", "write", "done", "failed"}
    /\ document \in Seq(Operation) /\ Len(document) <= MaxOperations
    /\ seen \in [HandlerName -> 0 .. Len(document)]
    /\ DOMAIN endpoints = ImportModule /\ \A m \in ImportModule : endpoints[m] \in Seq(Endpoint)
    /\ DOMAIN dtos = ImportModule

\* The handlers of a module by the count they came with.
HandlersCounted ==
    \A m \in ImportModule : \A i \in DOMAIN endpoints[m] :
        LET e == endpoints[m][i]
        IN  /\ \E count \in 1 .. seen[e.operation.name] :
                  e.handler_name = Different(e.operation.name, count)
            /\ \A k \in DOMAIN endpoints[m] :
                  k # i /\ endpoints[m][k].operation.name = e.operation.name
                      => endpoints[m][k].handler_name # e.handler_name
Made(b, name) == Makes(b) /\ b.type = name

\* The body whose type it is among the first n: no inline one with its type's
\* name comes after it, and a component's has none of any kind before it.
Wins(list, n, i) ==
    /\ Makes(list[i])
    /\ \A k \in 1 .. n : Made(list[k], list[i].type) =>
          IF list[i].body.given = "ref" THEN list[k].body.given = "ref" /\ i <= k
          ELSE list[k].body.given # "ref" => k <= i

\* The types that the first n bodies of a list leave.
TypesOf(list, n, types) ==
    /\ \A i \in 1 .. n : Makes(list[i]) => list[i].type \in DOMAIN types
    /\ \A name \in DOMAIN types : \E i \in 1 .. n :
          Made(list[i], name) /\ types[name] = Dto(list[i].body, list[i].response)
    /\ \A i \in 1 .. n : Wins(list, n, i) => types[list[i].type] = Dto(list[i].body, list[i].response)

BodyCount(m) == 2 * Len(endpoints[m])

\* The types of a module are those of its bodies, and of its parameters once
\* all operations are parsed.
TypesKept ==
    \A m \in ImportModule : \E types :
        /\ TypesOf(Bodies(m), BodyCount(m), types)
        /\ dtos[m] = IF progress = "parse" THEN types ELSE WithQueries(types, endpoints[m])

ValidatedAlike(m, e) ==
    LET request == RequestOf(e.operation)
    IN  OwnName(m, request) => (e.needs_validation <=> Makes(request) /\ request.body.validated)

BodiesValidated ==
    \A m \in ImportModule : \A i \in DOMAIN endpoints[m] : ValidatedAlike(m, endpoints[m][i])

\* What was written was written in full.
WritesKept ==
    /\ progress # "failed" => written \cap on_disk \subseteq complete
    /\ progress = "done" => Imported \subseteq written

ImportInv ==
    /\ ImportTyped
    /\ HandlersCounted
    /\ TypesKept
    /\ BodiesValidated
    /\ WritesKept

\* The front and the last element of a sequence that was appended to.
LEMMA AppendedOnce ==
    ASSUME NEW n \in Nat, NEW k \in Nat, NEW s, NEW t, NEW x, NEW y,
           s = [i \in 1 .. n |-> s[i]], t = [i \in 1 .. k |-> t[i]]
    PROVE  /\ Len(s) = n /\ Len(Append(s, x)) = n + 1 /\ Append(s, x)[n + 1] = x
           /\ \A i \in 1 .. n : Append(s, x)[i] = s[i]
           /\ Append(s, x) = [i \in 1 .. n + 1 |-> Append(s, x)[i]]
           /\ Append(s, x) = Append(t, y) => s = t /\ x = y /\ n = k
<1> DEFINE S == {s[i] : i \in 1 .. n} \cup {t[i] : i \in 1 .. k} \cup {x, y}
<1>1. s \in [1 .. n -> S] /\ t \in [1 .. k -> S] /\ x \in S /\ y \in S
  OBVIOUS
<1> HIDE DEF S
<1>2. s \in Seq(S) /\ t \in Seq(S) /\ Len(s) = n /\ Len(t) = k
  BY <1>1
<1>3. /\ Append(s, x) \in Seq(S) /\ Append(t, y) \in Seq(S)
      /\ Len(Append(s, x)) = n + 1 /\ Len(Append(t, y)) = k + 1
  BY <1>1, <1>2
<1>4. /\ Append(s, x)[n + 1] = x /\ Append(t, y)[k + 1] = y
      /\ \A i \in 1 .. n : Append(s, x)[i] = s[i]
      /\ \A i \in 1 .. k : Append(t, y)[i] = t[i]
  BY <1>1, <1>2
<1>5. ASSUME Append(s, x) = Append(t, y) PROVE s = t /\ x = y /\ n = k
  <2>1. n = k
    BY <1>3, <1>5
  <2>2. \A i \in 1 .. n : s[i] = t[i]
    BY <1>4, <1>5, <2>1
  <2> QED
    BY <1>1, <1>4, <1>5, <2>1, <2>2
<1>6. Append(s, x) = [i \in 1 .. n + 1 |-> Append(s, x)[i]]
  BY <1>3
<1> QED
  BY <1>2, <1>3, <1>4, <1>5, <1>6

IsHandlerName(s) == Len(s) \in Nat \ {0} /\ s = [i \in 1 .. Len(s) |-> s[i]]

LEMMA NamesOfOperations ==
    ASSUME NEW op \in Operation
    PROVE  IsHandlerName(op.name)
BY OperationAssumption DEF IsHandlerName

LEMMA NamesAppended ==
    ASSUME NEW s, IsHandlerName(s), NEW t, IsHandlerName(t), NEW x, NEW y
    PROVE  /\ IsHandlerName(Append(s, x))
           /\ Append(s, x) = Append(t, y) => s = t /\ x = y
           /\ Append(s, x) # s
<1>1. PICK n \in Nat \ {0} : n = Len(s) /\ s = [i \in 1 .. n |-> s[i]]
  BY DEF IsHandlerName
<1>2. PICK k \in Nat \ {0} : k = Len(t) /\ t = [i \in 1 .. k |-> t[i]]
  BY DEF IsHandlerName
<1>3. /\ Len(Append(s, x)) = n + 1
      /\ Append(s, x) = [i \in 1 .. n + 1 |-> Append(s, x)[i]]
      /\ Append(s, x) = Append(t, y) => s = t /\ x = y
  <2>1. /\ n \in Nat /\ s = [i \in 1 .. n |-> s[i]]
        /\ k \in Nat /\ t = [i \in 1 .. k |-> t[i]]
    BY <1>1, <1>2
  <2> QED
    BY ONLY <2>1, AppendedOnce
<1>4. n + 1 \in Nat \ {0}
  BY <1>1
<1>5. IsHandlerName(Append(s, x))
  BY <1>3, <1>4 DEF IsHandlerName
<1>6. Append(s, x) # s
  BY <1>1, <1>3
<1> QED
  BY <1>3, <1>5, <1>6

\* A name that is made different is not the one made so by another count.
LEMMA DifferentNames ==
    ASSUME NEW s, IsHandlerName(s), NEW count \in Nat \ {0}
    PROVE  /\ IsHandlerName(Different(s, count))
           /\ \A other \in Nat \ {0} : Different(s, count) = Different(s, other) => count = other
<1>1. ASSUME NEW other \in Nat \ {0}, Different(s, count) = Different(s, other) PROVE count = other
  <2>1. Append(s, count) # s
    BY NamesAppended
  <2>2. Append(s, other) # s
    BY NamesAppended
  <2>3. Append(s, count) = Append(s, other) => count = other
    BY NamesAppended
  <2>4. /\ Different(s, count) = IF count > 1 THEN Append(s, count) ELSE s
        /\ Different(s, other) = IF other > 1 THEN Append(s, other) ELSE s
    BY DEF Different
  <2>5. (count > 1 <=> count # 1) /\ (other > 1 <=> other # 1)
    OBVIOUS
  <2> QED
    BY <1>1, <2>1, <2>2, <2>3, <2>4, <2>5
<1>2. IsHandlerName(Different(s, count))
  BY NamesAppended DEF Different
<1> QED
  BY <1>1, <1>2
\* One more body: what the first n left becomes what n + 1 of them leave.
LEMMA OneMore ==
    ASSUME NEW list, NEW n \in Nat, NEW types, TypesOf(list, n, types)
    PROVE  TypesOf(list, n + 1, WithBody(types, list[n + 1]))
<1> DEFINE b == list[n + 1]
           own == Dto(b.body, b.response)
           all == WithBody(types, b)
<1>0. /\ \A i \in 1 .. n + 1 : i \in 1 .. n \/ i = n + 1
      /\ \A i \in 1 .. n : i \in 1 .. n + 1 /\ i # n + 1 /\ ~(n + 1 <= i) /\ i <= n + 1
      /\ n + 1 \in 1 .. n + 1
  OBVIOUS
<1>1. \A i \in 1 .. n : Wins(list, n + 1, i) => Wins(list, n, i)
  BY <1>0 DEF Wins
<1>2. CASE ~Makes(b)
  <2>1. all = types
    BY <1>2 DEF WithBody
  <2>2. ~Wins(list, n + 1, n + 1)
    BY <1>2 DEF Wins
  <2> HIDE DEF all
  <2> QED
    BY <1>0, <1>1, <1>2, <2>1, <2>2 DEF TypesOf, all
<1>3. CASE Makes(b) /\ b.body.given = "ref" /\ b.type \in DOMAIN types
  <2>1. all = types
    BY <1>3 DEF WithBody
  <2>2. ~Wins(list, n + 1, n + 1)
    <3>1. PICK i \in 1 .. n : Made(list[i], b.type)
      BY <1>3 DEF TypesOf
    <3> QED
      BY <1>0, <1>3, <3>1 DEF Wins
  <2> HIDE DEF all
  <2> QED
    BY <1>0, <1>1, <1>3, <2>1, <2>2 DEF TypesOf, all
<1>4. CASE Makes(b) /\ ~(b.body.given = "ref" /\ b.type \in DOMAIN types)
  <2>1. all = Put(types, b.type, own)
    BY <1>4 DEF WithBody
  <2> HIDE DEF all, own
  <2>2. /\ DOMAIN all = DOMAIN types \cup {b.type} /\ all[b.type] = own
        /\ \A x \in DOMAIN types : x # b.type => all[x] = types[x]
    BY <2>1 DEF Put
  <2>3. ASSUME NEW i \in 1 .. n, Makes(list[i]), list[i].type = b.type
        PROVE  ~Wins(list, n + 1, i)
    <3>1. b.body.given # "ref"
      BY <1>4, <2>3 DEF TypesOf
    <3>2. Made(list[n + 1], list[i].type)
      BY <1>4, <2>3 DEF Made
    <3> QED
      BY <1>0, <3>1, <3>2 DEF Wins
  <2>4. \A i \in 1 .. n + 1 : Makes(list[i]) => list[i].type \in DOMAIN all
    BY <1>0, <2>2 DEF TypesOf
  <2>5. \A name \in DOMAIN all : \E i \in 1 .. n + 1 :
           Made(list[i], name) /\ all[name] = Dto(list[i].body, list[i].response)
    <3> TAKE name \in DOMAIN all
    <3>1. CASE name = b.type
      BY <1>0, <1>4, <2>2, <3>1 DEF Made, own
    <3>2. CASE name # b.type
      <4>1. name \in DOMAIN types /\ all[name] = types[name]
        BY <2>2, <3>2
      <4>2. PICK i \in 1 .. n : Made(list[i], name) /\ types[name] = Dto(list[i].body, list[i].response)
        BY <4>1 DEF TypesOf
      <4> QED
        BY <1>0, <4>1, <4>2
    <3> QED
      BY <3>1, <3>2
  <2>6. \A i \in 1 .. n + 1 : Wins(list, n + 1, i) => all[list[i].type] = Dto(list[i].body, list[i].response)
    <3> SUFFICES ASSUME NEW i \in 1 .. n + 1, Wins(list, n + 1, i)
                 PROVE  all[list[i].type] = Dto(list[i].body, list[i].response)
      OBVIOUS
    <3>1. CASE i = n + 1
      BY <2>2, <3>1 DEF own
    <3>2. CASE i \in 1 .. n
      <4>1. Makes(list[i]) /\ list[i].type # b.type /\ list[i].type \in DOMAIN types
        BY <2>3, <3>2 DEF Wins, TypesOf
      <4>2. types[list[i].type] = Dto(list[i].body, list[i].response)
        BY <1>1, <3>2 DEF TypesOf
      <4> QED
        BY <2>2, <4>1, <4>2
    <3> QED
      BY <1>0, <3>1, <3>2
  <2> QED
    BY <2>4, <2>5, <2>6 DEF TypesOf, all
<1> QED
  BY <1>2, <1>3, <1>4

\* Only the bodies count.
LEMMA SameBodies ==
    ASSUME NEW list, NEW other, NEW n \in Nat, \A i \in 1 .. n : other[i] = list[i],
           NEW types, TypesOf(list, n, types)
    PROVE  TypesOf(other, n, types)
<1>1. \A i \in 1 .. n : Wins(other, n, i) <=> Wins(list, n, i)
  BY DEF Wins
<1> QED
  BY <1>1 DEF TypesOf

LEMMA ImportInvAtFirst == ImportInit => ImportInv
<1> SUFFICES ASSUME ImportInit PROVE ImportInv
  OBVIOUS
<1>1. ImportTyped
  <2>1. document \in Seq(Operation) /\ Len(document) = 0 /\ MaxOperations \in Nat
    BY OperationAssumption DEF ImportInit
  <2> QED
    BY <2>1 DEF ImportInit, ImportTyped
<1>2. \A m \in ImportModule : endpoints[m] = <<>> /\ dtos[m] = <<>>
  BY DEF ImportInit
<1>3. \A m \in ImportModule : DOMAIN endpoints[m] = {} /\ DOMAIN dtos[m] = {} /\ BodyCount(m) = 0
  BY <1>2 DEF BodyCount
<1>4. TypesKept
  <2>1. \A m \in ImportModule : TypesOf(Bodies(m), BodyCount(m), dtos[m])
    BY <1>3 DEF TypesOf
  <2> QED
    BY <2>1 DEF TypesKept, ImportInit
<1> QED
  BY <1>1, <1>3, <1>4 DEF ImportInit, ImportInv, HandlersCounted, BodiesValidated, WritesKept

\* One operation that the filter lets through.
ParsedHere(op, list, types, count) ==
    /\ op \in Operation
    /\ list = endpoints[op.module] /\ list \in Seq(Endpoint)
    /\ types = ParsedDtos(dtos[op.module], op)
    /\ count = seen[op.name] + 1 /\ count \in 1 .. MaxOperations
    /\ Len(document') = Len(document) + 1 /\ Len(document) \in Nat
    /\ seen' = [seen EXCEPT ![op.name] = count]
    /\ dtos' = [dtos EXCEPT ![op.module] = types]
    /\ endpoints' = [endpoints EXCEPT ![op.module] = Append(list, ParsedEndpoint(op, types, count))]

LEMMA ParsedStep ==
    ASSUME ImportTyped, NEW op \in Operation, ParseOperation(op), op.module \in Tags
    PROVE  \E list, types, count : ParsedHere(op, list, types, count)
<1> DEFINE list == endpoints[op.module]
           types == ParsedDtos(dtos[op.module], op)
           count == seen[op.name] + 1
<1>1. op.name \in HandlerName /\ op.module \in ImportModule
  BY DEF HandlerName, ImportModule
<1>2. list \in Seq(Endpoint)
  BY <1>1 DEF ImportTyped
<1>3. document \in Seq(Operation) /\ document' = Append(document, op) /\ Len(document) < MaxOperations
  BY DEF ImportTyped, ParseOperation
<1>4. Len(document') = Len(document) + 1 /\ Len(document) \in Nat
  BY <1>3
<1>5. seen[op.name] \in 0 .. Len(document) /\ MaxOperations \in Nat
  BY <1>1, OperationAssumption DEF ImportTyped
<1>6. count \in 1 .. MaxOperations
  BY <1>3, <1>4, <1>5
<1>7. /\ seen' = [seen EXCEPT ![op.name] = count]
      /\ dtos' = [dtos EXCEPT ![op.module] = types]
      /\ endpoints' = [endpoints EXCEPT ![op.module] = Append(list, ParsedEndpoint(op, types, count))]
  BY DEF ParseOperation
<1> HIDE DEF list, types, count
<1>8. ParsedHere(op, list, types, count)
  BY <1>2, <1>4, <1>6, <1>7 DEF ParsedHere, list, types, count
<1> QED
  BY <1>8

\* The list of its module m grows by one endpoint, those of the others stay.
Grown(op, m, new, size, count) ==
    /\ op \in Operation /\ m = op.module /\ m \in ImportModule /\ op.name \in HandlerName
    /\ new \in Endpoint /\ new.operation = op
    /\ new = ParsedEndpoint(op, dtos'[m], count)
    /\ new.handler_name = Different(op.name, count)
    /\ size \in Nat /\ count \in 1 .. MaxOperations
    /\ DOMAIN endpoints' = ImportModule /\ DOMAIN dtos' = ImportModule
    /\ endpoints[m] \in Seq(Endpoint) /\ DOMAIN endpoints[m] = 1 .. size
    /\ endpoints'[m] \in Seq(Endpoint) /\ DOMAIN endpoints'[m] = 1 .. size + 1
    /\ endpoints'[m][size + 1] = new
    /\ \A i \in 1 .. size : endpoints'[m][i] = endpoints[m][i]
    /\ dtos'[m] = ParsedDtos(dtos[m], op)
    /\ \A other \in ImportModule : other # m =>
          endpoints'[other] = endpoints[other] /\ dtos'[other] = dtos[other]
    /\ seen' \in [HandlerName -> 0 .. Len(document')]
    /\ seen'[op.name] = count /\ seen[op.name] = count - 1
    /\ \A n \in HandlerName : n # op.name => seen'[n] = seen[n]

LEMMA ListGrows ==
    ASSUME ImportTyped, NEW op, NEW list, NEW types, NEW count, ParsedHere(op, list, types, count)
    PROVE  \E new, size : Grown(op, op.module, new, size, count)
<1> DEFINE new == ParsedEndpoint(op, types, count)
           m == op.module
<1>1. op \in Operation /\ m \in ImportModule /\ op.name \in HandlerName
  BY DEF HandlerName, ImportModule, ParsedHere
<1>2. new \in Endpoint /\ new.operation = op /\ new.handler_name = Different(op.name, count)
  <2> DEFINE request == RequestOf(op).type
             validated == request \in DOMAIN types /\ types[request].has_validations
  <2>1. new = [handler_name |-> Different(op.name, count),
               operation |-> op,
               request_body |-> RequestOf(op).type,
               response_body |-> ResponseOf(op).type,
               needs_validation |-> validated]
    BY DEF ParsedEndpoint
  <2>2. validated \in BOOLEAN /\ count \in 1 .. MaxOperations
    BY DEF ParsedHere
  <2> HIDE DEF validated
  <2>3. new \in Endpoint
    BY <1>1, <2>1, <2>2 DEF Endpoint
  <2> QED
    BY <2>1, <2>3
<1> HIDE DEF new
<1>3. PICK size \in Nat : size = Len(list) /\ DOMAIN list = 1 .. size
  BY DEF ParsedHere
<1>4. endpoints'[m] = Append(list, new)
  BY <1>1 DEF ParsedHere, ImportTyped, new
<1>5. /\ Append(list, new) \in Seq(Endpoint)
      /\ DOMAIN Append(list, new) = 1 .. size + 1
      /\ Append(list, new)[size + 1] = new
      /\ \A i \in 1 .. size : Append(list, new)[i] = list[i]
  BY <1>2, <1>3 DEF ParsedHere
<1>6. /\ DOMAIN endpoints' = ImportModule /\ DOMAIN dtos' = ImportModule
      /\ dtos'[m] = types
  BY <1>1 DEF ParsedHere, ImportTyped
<1>7. \A other \in ImportModule : other # m =>
         endpoints'[other] = endpoints[other] /\ dtos'[other] = dtos[other]
  BY <1>1 DEF ParsedHere, ImportTyped
<1>8. /\ seen'[op.name] = count /\ seen[op.name] = count - 1
      /\ \A n \in HandlerName : n # op.name => seen'[n] = seen[n]
      /\ seen' \in [HandlerName -> 0 .. Len(document')]
  <2>1. seen \in [HandlerName -> 0 .. Len(document)] /\ seen[op.name] \in 0 .. Len(document)
    BY <1>1 DEF ImportTyped
  <2>2. /\ seen' = [seen EXCEPT ![op.name] = count] /\ count = seen[op.name] + 1
        /\ Len(document') = Len(document) + 1 /\ Len(document) \in Nat
    BY DEF ParsedHere
  <2>3. count \in 0 .. Len(document') /\ seen[op.name] = count - 1
    BY <2>1, <2>2
  <2>4. \A n \in HandlerName : seen[n] \in 0 .. Len(document')
    <3> TAKE n \in HandlerName
    <3>1. seen[n] \in 0 .. Len(document)
      BY <2>1
    <3> QED
      BY <2>2, <3>1
  <2>5. \A n \in HandlerName : seen'[n] = IF n = op.name THEN count ELSE seen[n]
    BY <2>1, <2>2
  <2>6. seen' \in [HandlerName -> 0 .. Len(document')]
    BY <2>1, <2>2, <2>3, <2>4
  <2> QED
    BY <1>1, <2>3, <2>5, <2>6
<1>9. /\ new = ParsedEndpoint(op, dtos'[m], count) /\ dtos'[m] = ParsedDtos(dtos[m], op)
      /\ list = endpoints[m] /\ list \in Seq(Endpoint) /\ count \in 1 .. MaxOperations
  BY <1>6 DEF ParsedHere, new
<1>10. Grown(op, m, new, size, count)
  BY <1>1, <1>2, <1>3, <1>4, <1>5, <1>6, <1>7, <1>8, <1>9 DEF Grown
<1> QED
  BY <1>10

LEMMA HandlersCountedStep ==
    ASSUME ImportTyped, HandlersCounted, NEW op, NEW m, NEW new, NEW size, NEW count,
           Grown(op, m, new, size, count)
    PROVE  HandlersCounted'
<1> DEFINE Counted(other, i) ==
              LET e == endpoints'[other][i]
              IN  \E c \in 1 .. seen'[e.operation.name] : e.handler_name = Different(e.operation.name, c)
           Apart(other, i, k) ==
              k # i /\ endpoints'[other][k].operation.name = endpoints'[other][i].operation.name
                 => endpoints'[other][k].handler_name # endpoints'[other][i].handler_name
<1>1. \A other \in ImportModule : \A i \in DOMAIN endpoints[other] :
         /\ endpoints[other][i] \in Endpoint
         /\ endpoints[other][i].operation \in Operation
         /\ endpoints[other][i].operation.name \in HandlerName
         /\ seen[endpoints[other][i].operation.name] \in Nat
         /\ seen'[endpoints[other][i].operation.name] \in Nat
         /\ seen[endpoints[other][i].operation.name] <= seen'[endpoints[other][i].operation.name]
  <2> TAKE other \in ImportModule
  <2> TAKE i \in DOMAIN endpoints[other]
  <2>1. endpoints[other] \in Seq(Endpoint)
    BY DEF ImportTyped
  <2>2. endpoints[other][i] \in Endpoint
    BY <2>1
  <2>3. endpoints[other][i].operation \in Operation
    BY <2>2 DEF Endpoint
  <2> DEFINE n == endpoints[other][i].operation.name
  <2>4. n \in HandlerName
    BY <2>3 DEF HandlerName
  <2> HIDE DEF n
  <2>5. seen[n] \in 0 .. Len(document) /\ seen'[n] \in 0 .. Len(document') /\ count \in 1 .. MaxOperations
    BY <2>4 DEF ImportTyped, Grown
  <2>6. seen[n] <= seen'[n]
    <3>1. CASE n = op.name
      BY <2>5, <3>1 DEF Grown
    <3>2. CASE n # op.name
      BY <2>4, <2>5, <3>2 DEF Grown
    <3> QED
      BY <3>1, <3>2
  <2>7. seen[n] \in Nat /\ seen'[n] \in Nat
    BY <2>5
  <2> QED
    BY <2>2, <2>3, <2>4, <2>6, <2>7 DEF n
<1>2. \A other \in ImportModule : \A i \in DOMAIN endpoints[other] :
         /\ \E c \in 1 .. seen[endpoints[other][i].operation.name] :
               endpoints[other][i].handler_name = Different(endpoints[other][i].operation.name, c)
         /\ \E c \in 1 .. seen'[endpoints[other][i].operation.name] :
               endpoints[other][i].handler_name = Different(endpoints[other][i].operation.name, c)
  <2> TAKE other \in ImportModule
  <2> TAKE i \in DOMAIN endpoints[other]
  <2>1. PICK c \in 1 .. seen[endpoints[other][i].operation.name] :
           endpoints[other][i].handler_name = Different(endpoints[other][i].operation.name, c)
    BY DEF HandlersCounted
  <2>2. c \in 1 .. seen'[endpoints[other][i].operation.name]
    BY <1>1
  <2> QED
    BY <2>1, <2>2
<1>3. ASSUME NEW other \in ImportModule, NEW i \in DOMAIN endpoints'[other]
      PROVE  Counted(other, i)
  <2>1. CASE other # m
    <3>1. endpoints'[other] = endpoints[other]
      BY <2>1 DEF Grown
    <3>2. i \in DOMAIN endpoints[other]
      BY <1>3, <3>1
    <3> QED
      BY <1>2, <3>1, <3>2
  <2>2. CASE other = m /\ i # size + 1
    <3>1. i \in 1 .. size /\ i \in DOMAIN endpoints[m] /\ endpoints'[m][i] = endpoints[m][i]
      BY <1>3, <2>2 DEF Grown
    <3> QED
      BY <1>2, <1>3, <2>2, <3>1
  <2>3. CASE other = m /\ i = size + 1
    <3>1. /\ endpoints'[other][i].operation.name = op.name
          /\ endpoints'[other][i].handler_name = Different(op.name, count)
          /\ seen'[op.name] = count /\ count \in 1 .. count
      BY <2>3 DEF Grown
    <3> QED
      BY <3>1
  <2> QED
    BY <2>1, <2>2, <2>3
<1>4. ASSUME NEW i \in DOMAIN endpoints[m], endpoints[m][i].operation.name = op.name
      PROVE  endpoints[m][i].handler_name # new.handler_name
  <2>1. PICK c \in 1 .. seen[op.name] : endpoints[m][i].handler_name = Different(op.name, c)
    <3>1. m \in ImportModule
      BY DEF Grown
    <3> QED
      BY <1>2, <1>4, <3>1
  <2>2. c \in Nat \ {0} /\ count \in Nat \ {0} /\ c # count
    BY DEF Grown
  <2>3. IsHandlerName(op.name)
    BY NamesOfOperations DEF Grown
  <2>4. Different(op.name, c) # Different(op.name, count)
    BY <2>2, <2>3, DifferentNames
  <2> QED
    BY <2>1, <2>4 DEF Grown
<1>5. ASSUME NEW other \in ImportModule, NEW i \in DOMAIN endpoints'[other], NEW k \in DOMAIN endpoints'[other]
      PROVE  Apart(other, i, k)
  <2>1. CASE other # m
    BY <2>1 DEF Grown, HandlersCounted
  <2>2. CASE other = m
    <3>1. \A j \in {i, k} : \/ j = size + 1 /\ endpoints'[m][j] = new
                            \/ j \in DOMAIN endpoints[m] /\ endpoints'[m][j] = endpoints[m][j]
      BY <2>2 DEF Grown
    <3>2. CASE i = size + 1 \/ k = size + 1
      <4>1. new.operation.name = op.name
        BY DEF Grown
      <4>2. endpoints'[m][size + 1] = new
        BY DEF Grown
      <4> SUFFICES ASSUME k # i,
                          endpoints'[m][k].operation.name = endpoints'[m][i].operation.name
                   PROVE  endpoints'[m][k].handler_name # endpoints'[m][i].handler_name
        BY <2>2
      <4>3. CASE i = size + 1
        <5>1. k \in DOMAIN endpoints[m] /\ endpoints'[m][k] = endpoints[m][k]
          BY <3>1, <4>3
        <5>2. endpoints[m][k].operation.name = op.name
          BY <4>1, <4>2, <4>3, <5>1
        <5> QED
          BY <1>4, <4>2, <4>3, <5>1, <5>2
      <4>4. CASE k = size + 1
        <5>1. i \in DOMAIN endpoints[m] /\ endpoints'[m][i] = endpoints[m][i]
          BY <3>1, <4>4
        <5>2. endpoints[m][i].operation.name = op.name
          BY <4>1, <4>2, <4>4, <5>1
        <5> QED
          BY <1>4, <4>2, <4>4, <5>1, <5>2
      <4> QED
        BY <3>2, <4>3, <4>4
    <3>3. CASE i # size + 1 /\ k # size + 1
      BY <2>2, <3>1, <3>3 DEF HandlersCounted
    <3> QED
      BY <3>2, <3>3
  <2> QED
    BY <2>1, <2>2
<1> QED
  BY <1>3, <1>5 DEF HandlersCounted

\* The bodies of a module once one more operation is parsed.
LEMMA BodiesGrow ==
    ASSUME NEW op, NEW m, NEW new, NEW size, NEW count, Grown(op, m, new, size, count)
    PROVE  /\ size \in Nat /\ BodyCount(m) = 2 * size /\ BodyCount(m)' = 2 * size + 2
           /\ DOMAIN Bodies(m) = 1 .. 2 * size /\ DOMAIN Bodies(m)' = 1 .. 2 * size + 2
           /\ \A i \in 1 .. 2 * size : Bodies(m)'[i] = Bodies(m)[i]
           /\ Bodies(m)'[2 * size + 1] = RequestOf(op)
           /\ Bodies(m)'[2 * size + 2] = ResponseOf(op)
<1>1. /\ size \in Nat /\ Len(endpoints[m]) = size /\ Len(endpoints'[m]) = size + 1
      /\ endpoints'[m][size + 1].operation = op
      /\ \A i \in 1 .. size : endpoints'[m][i] = endpoints[m][i]
  BY DEF Grown
<1> DEFINE Body(o, i) == IF i % 2 = 1 THEN RequestOf(o) ELSE ResponseOf(o)
<1>2. /\ Bodies(m) = [i \in 1 .. 2 * size |-> Body(endpoints[m][(i + 1) \div 2].operation, i)]
      /\ Bodies(m)' = [i \in 1 .. 2 * size + 2 |-> Body(endpoints'[m][(i + 1) \div 2].operation, i)]
  <2>1. 2 * (size + 1) = 2 * size + 2
    BY <1>1
  <2> QED
    BY <1>1, <2>1 DEF Bodies
<1> HIDE DEF Body
<1>3. \A i \in 1 .. 2 * size : (i + 1) \div 2 \in 1 .. size /\ i \in 1 .. 2 * size + 2
  BY <1>1
<1>4. /\ (2 * size + 2) \div 2 = size + 1 /\ (2 * size + 3) \div 2 = size + 1
      /\ (2 * size + 1) % 2 = 1 /\ (2 * size + 2) % 2 = 0
      /\ (2 * size + 1) + 1 = 2 * size + 2 /\ (2 * size + 2) + 1 = 2 * size + 3
      /\ 2 * size + 1 \in 1 .. 2 * size + 2 /\ 2 * size + 2 \in 1 .. 2 * size + 2
  BY <1>1
<1>5. /\ BodyCount(m) = 2 * size /\ BodyCount(m)' = 2 * size + 2
      /\ DOMAIN Bodies(m) = 1 .. 2 * size /\ DOMAIN Bodies(m)' = 1 .. 2 * size + 2
  BY <1>1, <1>2 DEF BodyCount
<1>6. \A i \in 1 .. 2 * size : Bodies(m)'[i] = Bodies(m)[i]
  <2> TAKE i \in 1 .. 2 * size
  <2> DEFINE k == (i + 1) \div 2
  <2>1. k \in 1 .. size /\ i \in 1 .. 2 * size + 2
    BY <1>3
  <2>2. /\ Bodies(m)[i] = Body(endpoints[m][k].operation, i)
        /\ Bodies(m)'[i] = Body(endpoints'[m][k].operation, i)
    BY <1>2, <2>1
  <2> HIDE DEF k
  <2> QED
    BY <1>1, <2>1, <2>2
<1>7. /\ Bodies(m)'[2 * size + 1] = Body(op, 2 * size + 1)
      /\ Bodies(m)'[2 * size + 2] = Body(op, 2 * size + 2)
  BY <1>1, <1>2, <1>4
<1> QED
  BY <1>1, <1>4, <1>5, <1>6, <1>7 DEF Body

LEMMA OthersStay ==
    ASSUME NEW op, NEW m, NEW new, NEW size, NEW count, Grown(op, m, new, size, count),
           NEW other \in ImportModule, other # m
    PROVE  /\ endpoints'[other] = endpoints[other] /\ dtos'[other] = dtos[other]
           /\ Bodies(other)' = Bodies(other) /\ BodyCount(other)' = BodyCount(other)
BY DEF Grown, Bodies, BodyCount

\* The types of the module after one more operation.
LEMMA TypesGrow ==
    ASSUME NEW op, NEW m, NEW new, NEW size, NEW count, Grown(op, m, new, size, count),
           TypesOf(Bodies(m), BodyCount(m), dtos[m])
    PROVE  TypesOf(Bodies(m)', BodyCount(m)', dtos'[m])
<1> DEFINE more == Bodies(m)'
           n == 2 * size
           mid == WithBody(dtos[m], more[n + 1])
           all == WithBody(mid, more[n + 2])
<1>1. /\ size \in Nat /\ n \in Nat /\ n + 1 \in Nat /\ (n + 1) + 1 = n + 2
      /\ BodyCount(m) = n /\ BodyCount(m)' = n + 2
      /\ \A i \in 1 .. n : more[i] = Bodies(m)[i]
      /\ more[n + 1] = RequestOf(op) /\ more[n + 2] = ResponseOf(op)
  BY BodiesGrow
<1>2. dtos'[m] = all
  BY <1>1 DEF Grown, ParsedDtos
<1> HIDE DEF more, n, mid, all
<1>3. TypesOf(more, n, dtos[m])
  BY <1>1, SameBodies
<1>4. TypesOf(more, n + 1, mid)
  BY <1>1, <1>3, OneMore DEF mid
<1>5. TypesOf(more, n + 2, all)
  <2>1. TypesOf(more, (n + 1) + 1, WithBody(mid, more[(n + 1) + 1]))
    BY <1>1, <1>4, OneMore
  <2> QED
    BY <1>1, <2>1 DEF all
<1> QED
  BY <1>1, <1>2, <1>5 DEF more

LEMMA TypesKeptStep ==
    ASSUME TypesKept, progress = "parse", progress' = "parse", NEW op, NEW m, NEW new, NEW size, NEW count,
           Grown(op, m, new, size, count)
    PROVE  TypesKept' /\ TypesOf(Bodies(m)', BodyCount(m)', dtos'[m])
<1>1. \A module \in ImportModule : TypesOf(Bodies(module), BodyCount(module), dtos[module])
  BY DEF TypesKept
<1>2. m \in ImportModule
  BY DEF Grown
<1>3. TypesOf(Bodies(m)', BodyCount(m)', dtos'[m])
  BY <1>1, <1>2, TypesGrow
<1>4. ASSUME NEW module \in ImportModule PROVE TypesOf(Bodies(module)', BodyCount(module)', dtos'[module])
  <2>1. CASE module = m
    BY <1>3, <2>1
  <2>2. CASE module # m
    BY <1>1, <2>2, OthersStay
  <2> QED
    BY <2>1, <2>2
<1> QED
  BY <1>3, <1>4 DEF TypesKept

\* Bodies with one id are one schema.
LEMMA OneSchema ==
    ASSUME NEW op \in Operation, NEW other \in Operation,
           NEW b \in {RequestOf(op), ResponseOf(op)}, NEW c \in {RequestOf(other), ResponseOf(other)},
           b.body # Missing, c.body # Missing, b.body.id = c.body.id
    PROVE  /\ b.body.object = c.body.object /\ b.body.validated = c.body.validated
           /\ b.body.validated \in BOOLEAN
<1>1. b.body \in {op.request, op.response} \ {Missing} /\ c.body \in {other.request, other.response} \ {Missing}
  BY DEF RequestOf, ResponseOf
<1>2. ASSUME NEW x \in {op.request, op.response} \ {Missing},
             NEW y \in {other.request, other.response} \ {Missing}, x.id = y.id
      PROVE  x.object = y.object /\ x.validated = y.validated /\ y.validated \in BOOLEAN
  <2>1. y.validated \in BOOLEAN
    BY OperationAssumption
  <2>2. x.object = y.object /\ x.validated = y.validated
    BY <1>2, OperationAssumption
  <2> QED
    BY <2>1, <2>2
<1> DEFINE x == b.body
           y == c.body
<1>3. x.object = y.object /\ x.validated = y.validated /\ y.validated \in BOOLEAN
  <2> HIDE DEF x, y
  <2>1. /\ x \in {op.request, op.response} \ {Missing}
        /\ y \in {other.request, other.response} \ {Missing} /\ x.id = y.id
    BY <1>1 DEF x, y
  <2> QED
    BY <1>2, <2>1
<1> QED
  BY <1>3

\* Each body is that of an operation.
LEMMA BodiesOfOperations ==
    ASSUME NEW list \in Seq(Endpoint), NEW i \in 1 .. 2 * Len(list), NEW b,
           b = LET op == list[(i + 1) \div 2].operation
               IN  IF i % 2 = 1 THEN RequestOf(op) ELSE ResponseOf(op)
    PROVE  \E op \in Operation : b \in {RequestOf(op), ResponseOf(op)}
<1> DEFINE k == (i + 1) \div 2
           op == list[k].operation
<1>1. PICK size \in Nat : Len(list) = size /\ DOMAIN list = 1 .. size
  OBVIOUS
<1>2. k \in 1 .. size
  BY <1>1
<1>3. b \in {RequestOf(op), ResponseOf(op)}
  OBVIOUS
<1> HIDE DEF k
<1>4. list[k] \in Endpoint
  BY <1>1, <1>2
<1>5. op \in Operation
  BY <1>4 DEF Endpoint
<1> QED
  BY <1>3, <1>5

\* Without a body there is no type.
LEMMA TypesHaveBodies ==
    ASSUME NEW op \in Operation, NEW b \in {RequestOf(op), ResponseOf(op)}, b.type # Missing
    PROVE  b.body # Missing
BY DEF RequestOf, ResponseOf, BodyName

\* Bodies are validated as their schema asks for, right after they are parsed.
LEMMA BodiesValidatedStep ==
    ASSUME ImportTyped', BodiesValidated, NEW op, NEW m, NEW new, NEW size, NEW count,
           Grown(op, m, new, size, count), TypesOf(Bodies(m)', BodyCount(m)', dtos'[m])
    PROVE  BodiesValidated'
<1> DEFINE request == RequestOf(op)
           all == dtos'[m]
           more == Bodies(m)'
<1>1. /\ op \in Operation /\ new.operation = op /\ m \in ImportModule
      /\ new.needs_validation = (request.type \in DOMAIN all /\ all[request.type].has_validations)
  BY DEF Grown, ParsedEndpoint
<1>2. /\ size \in Nat /\ BodyCount(m)' = 2 * size + 2
      /\ DOMAIN Bodies(m) = 1 .. 2 * size /\ DOMAIN more = 1 .. 2 * size + 2
      /\ \A i \in 1 .. 2 * size : more[i] = Bodies(m)[i]
      /\ more[2 * size + 1] = request
  BY BodiesGrow
<1>3. ValidatedAlike(m, new)'
  <2> SUFFICES ASSUME OwnName(m, request)'
               PROVE  (request.type \in DOMAIN all /\ all[request.type].has_validations)
                         <=> Makes(request) /\ request.body.validated
    BY <1>1 DEF ValidatedAlike
  <2>1. \A i \in 1 .. 2 * size + 2 : Made(more[i], request.type) => more[i].body.id = request.body.id
    BY <1>2 DEF OwnName, Makers, Made
  <2>2. CASE request.type \notin DOMAIN all
    <3>1. 2 * size + 1 \in 1 .. 2 * size + 2
      BY <1>2
    <3>2. ~Makes(request)
      BY <1>2, <2>2, <3>1 DEF TypesOf
    <3> QED
      BY <2>2, <3>2
  <2>3. CASE request.type \in DOMAIN all
    <3>1. PICK i \in 1 .. 2 * size + 2 : /\ Made(more[i], request.type)
                                         /\ all[request.type] = Dto(more[i].body, more[i].response)
      BY <1>2, <2>3 DEF TypesOf
    <3>2. PICK other \in Operation : more[i] \in {RequestOf(other), ResponseOf(other)}
      <4> DEFINE longer == endpoints'[m]
      <4>1. longer \in Seq(Endpoint)
        BY DEF Grown
      <4>2. /\ more = [j \in 1 .. 2 * Len(longer) |->
                         LET o == longer[(j + 1) \div 2].operation
                         IN  IF j % 2 = 1 THEN RequestOf(o) ELSE ResponseOf(o)]
            /\ i \in 1 .. 2 * Len(longer)
        BY <1>2, <3>1 DEF Bodies
      <4> HIDE DEF more, longer
      <4>3. more[i] = LET o == longer[(i + 1) \div 2].operation
                      IN  IF i % 2 = 1 THEN RequestOf(o) ELSE ResponseOf(o)
        BY <4>2
      <4> QED
        BY <4>1, <4>2, <4>3, BodiesOfOperations
    <3>3. Makes(more[i]) /\ more[i].type = request.type /\ more[i].type # Missing
          /\ more[i].body.object
      BY <3>1 DEF Made, Makes
    <3>4. request.body # Missing /\ more[i].body # Missing
      BY <1>1, <3>2, <3>3, TypesHaveBodies
    <3>5. /\ request.body.object = more[i].body.object
          /\ request.body.validated = more[i].body.validated
          /\ more[i].body.validated \in BOOLEAN
      <4>1. request.body.id = more[i].body.id
        BY <2>1, <3>1
      <4> QED
        BY <1>1, <3>2, <3>4, <4>1, OneSchema
    <3>6. request.body.given # "array"
      BY <3>3 DEF RequestOf, BodyName
    <3>7. Makes(request)
      BY <3>3, <3>5, <3>6 DEF Makes
    <3>8. all[request.type].has_validations = more[i].body.validated
      BY <3>1 DEF Dto
    <3> QED
      BY <2>3, <3>5, <3>7, <3>8
  <2> QED
    BY <2>2, <2>3
<1>4. ASSUME NEW module \in ImportModule, NEW i \in DOMAIN endpoints'[module],
             NEW e, e = endpoints'[module][i]
      PROVE  ValidatedAlike(module, e)'
  <2>1. CASE module # m
    <3>1. endpoints'[module] = endpoints[module] /\ Bodies(module)' = Bodies(module)
      BY <2>1, OthersStay
    <3>2. \A b : OwnName(module, b)' <=> OwnName(module, b)
      BY <3>1 DEF OwnName, Makers
    <3>3. ValidatedAlike(module, e)
      BY <1>4, <3>1 DEF BodiesValidated
    <3> QED
      BY <3>2, <3>3 DEF ValidatedAlike
  <2>2. CASE module = m /\ i = size + 1
    <3>1. e = new
      BY <1>4, <2>2 DEF Grown
    <3> QED
      BY <1>3, <2>2, <3>1
  <2>3. CASE module = m /\ i # size + 1
    <3>1. i \in DOMAIN endpoints[m] /\ e = endpoints[m][i]
      BY <1>2, <1>4, <2>3 DEF Grown
    <3>2. \A b : Makers(m, b.type) \subseteq Makers(m, b.type)'
      BY <1>2 DEF Makers
    <3>3. \A b : OwnName(m, b)' => OwnName(m, b)
      BY <1>2, <3>2 DEF OwnName, Makers
    <3>4. ValidatedAlike(m, e)
      BY <1>1, <3>1 DEF BodiesValidated
    <3> QED
      BY <2>3, <3>3, <3>4 DEF ValidatedAlike
  <2> QED
    BY <2>1, <2>2, <2>3
<1> QED
  BY <1>4 DEF BodiesValidated, ValidatedAlike

LEMMA NothingParsed ==
    ASSUME ImportInv, UNCHANGED <<seen, dtos, endpoints>>, progress' = "parse" <=> progress = "parse"
    PROVE  HandlersCounted' /\ BodiesValidated' /\ TypesKept'
<1>1. HandlersCounted'
  BY DEF ImportInv, HandlersCounted
<1>2. \A m : Bodies(m)' = Bodies(m) /\ BodyCount(m)' = BodyCount(m)
  BY DEF Bodies, BodyCount
<1>3. \A m, b : OwnName(m, b)' <=> OwnName(m, b)
  BY <1>2 DEF OwnName, Makers
<1>4. BodiesValidated'
  BY <1>3 DEF ImportInv, BodiesValidated, ValidatedAlike
<1>5. TypesKept'
  BY <1>2 DEF ImportInv, TypesKept
<1> QED
  BY <1>1, <1>4, <1>5

LEMMA ParseKeepsInv ==
    ASSUME ImportInv, NEW op \in Operation, ParseOperation(op)
    PROVE  ImportInv'
<1>1. /\ progress = "parse" /\ progress' = "parse" /\ document' = Append(document, op)
      /\ Len(document) < MaxOperations
      /\ UNCHANGED <<on_disk, written, complete>>
  BY DEF ParseOperation
<1>2. document' \in Seq(Operation) /\ Len(document') <= MaxOperations /\ Len(document') = Len(document) + 1
      /\ Len(document) \in Nat
  BY <1>1, OperationAssumption DEF ImportInv, ImportTyped
<1>3. WritesKept'
  BY <1>1 DEF ImportInv, WritesKept
<1>4. CASE op.module \in Tags
  <2>0. ImportTyped
    BY DEF ImportInv
  <2>1. PICK list, types, count : ParsedHere(op, list, types, count)
    BY <1>4, <2>0, ParsedStep
  <2>2. PICK new, size : Grown(op, op.module, new, size, count)
    BY <2>0, <2>1, ListGrows
  <2>3. ImportTyped'
    BY <1>1, <1>2, <2>0, <2>2 DEF Grown, ImportTyped
  <2>4. HandlersCounted'
    BY <2>2, HandlersCountedStep DEF ImportInv
  <2>5. TypesKept' /\ TypesOf(Bodies(op.module)', BodyCount(op.module)', dtos'[op.module])
    BY <1>1, <2>2, TypesKeptStep DEF ImportInv
  <2>6. BodiesValidated'
    BY <2>2, <2>3, <2>5, BodiesValidatedStep DEF ImportInv
  <2> QED
    BY <1>3, <2>3, <2>4, <2>5, <2>6 DEF ImportInv
<1>5. CASE op.module \notin Tags
  <2>1. UNCHANGED <<seen, dtos, endpoints>>
    BY <1>5 DEF ParseOperation
  <2>2. seen \in [HandlerName -> 0 .. Len(document')]
    <3>1. seen \in [HandlerName -> 0 .. Len(document)]
      BY DEF ImportInv, ImportTyped
    <3>2. \A i \in 0 .. Len(document) : i \in 0 .. Len(document')
      BY <1>2
    <3> QED
      BY <3>1, <3>2
  <2>3. ImportTyped'
    BY <1>1, <1>2, <2>1, <2>2 DEF ImportInv, ImportTyped
  <2> QED
    BY <1>1, <1>3, <2>1, <2>3, NothingParsed DEF ImportInv
<1> QED
  BY <1>4, <1>5

LEMMA QueriesKeepInv ==
    ASSUME ImportInv, Queries
    PROVE  ImportInv'
<1>1. /\ UNCHANGED <<document, seen, endpoints, on_disk, written, complete>>
      /\ progress = "parse" /\ progress' \in {"failed", "write"}
      /\ dtos' = [m \in ImportModule |-> WithQueries(dtos[m], endpoints[m])]
  BY DEF Queries
<1>2. ImportTyped' /\ WritesKept'
  <2>1. ImportTyped'
    BY <1>1 DEF ImportInv, ImportTyped
  <2>2. WritesKept'
    BY <1>1 DEF ImportInv, WritesKept
  <2> QED
    BY <2>1, <2>2
<1>3. \A m : Bodies(m)' = Bodies(m) /\ BodyCount(m)' = BodyCount(m)
  BY <1>1 DEF Bodies, BodyCount
<1>4. HandlersCounted'
  BY <1>1 DEF ImportInv, HandlersCounted
<1>5. BodiesValidated'
  <2>1. \A m, b : OwnName(m, b)' <=> OwnName(m, b)
    BY <1>3 DEF OwnName, Makers
  <2> QED
    BY <1>1, <2>1 DEF ImportInv, BodiesValidated, ValidatedAlike
<1>6. TypesKept'
  <2>1. \A m \in ImportModule : TypesOf(Bodies(m), BodyCount(m), dtos[m])
    BY <1>1 DEF ImportInv, TypesKept
  <2>2. ASSUME NEW m \in ImportModule
        PROVE  /\ TypesOf(Bodies(m)', BodyCount(m)', dtos[m])
               /\ dtos'[m] = WithQueries(dtos[m], endpoints'[m])
    BY <1>1, <1>3, <2>1
  <2> QED
    BY <1>1, <2>2 DEF TypesKept
<1> QED
  BY <1>2, <1>4, <1>5, <1>6 DEF ImportInv

\* The directories, one at a time; what was parsed stays.
LEMMA WritesKeepInv ==
    ASSUME ImportInv, NEW m \in ImportModule, NEW all \in BOOLEAN,
           WriteModule(m, all) \/ RemoveDirectory(m) \/ RunAgain \/ UNCHANGED importVars
    PROVE  ImportInv'
<1>1. UNCHANGED <<document, seen, endpoints, dtos>>
  BY DEF WriteModule, RemoveDirectory, RunAgain, importVars
<1>2. progress' \in {"parse", "write", "done", "failed"} /\ (progress' = "parse" <=> progress = "parse")
  BY DEF ImportInv, ImportTyped, WriteModule, RemoveDirectory, RunAgain, importVars
<1>3. ImportTyped'
  BY <1>1, <1>2 DEF ImportInv, ImportTyped
<1>4. Imported' = Imported
  BY <1>1 DEF Imported
<1>5. WritesKept'
  <2>1. CASE WriteModule(m, all)
    BY <1>4, <2>1 DEF ImportInv, WritesKept, WriteModule
  <2>2. CASE RemoveDirectory(m)
    BY <1>4, <2>2 DEF ImportInv, WritesKept, RemoveDirectory
  <2>3. CASE RunAgain
    BY <1>4, <2>3 DEF ImportInv, WritesKept, RunAgain
  <2>4. CASE UNCHANGED importVars
    BY <1>4, <2>4 DEF ImportInv, WritesKept, importVars
  <2> QED
    BY <2>1, <2>2, <2>3, <2>4
<1> QED
  BY <1>1, <1>2, <1>3, <1>5, NothingParsed DEF ImportInv

\* The maker of a type is the body that wins.
LEMMA MakerWins ==
    ASSUME NEW m \in ImportModule, endpoints[m] \in Seq(Endpoint), NEW name, Makers(m, name) # {}
    PROVE  \E i \in 1 .. BodyCount(m) :
              Maker(m, name) = Bodies(m)[i] /\ Wins(Bodies(m), BodyCount(m), i) /\ Bodies(m)[i].type = name
<1> DEFINE n == BodyCount(m)
           list == Bodies(m)
           makers == Makers(m, name)
           inline == {i \in makers : list[i].body.given # "ref"}
<1>1. n \in Nat /\ DOMAIN list = 1 .. n
  BY DEF BodyCount, Bodies
<1>2. makers = {i \in 1 .. n : Made(list[i], name)}
  BY <1>1 DEF Makers, Made
<1>3. Maker(m, name) = list[IF inline # {} THEN Max(inline) ELSE Min(makers)]
  BY DEF Maker
<1> HIDE DEF n, list, makers
<1>4. CASE inline # {}
  <2> DEFINE i == Max(inline)
  <2>1. inline \in SUBSET Nat /\ inline \subseteq 1 .. n
    BY <1>1, <1>2
  <2> HIDE DEF inline
  <2>2. IsFiniteSet(inline)
    <3>1. IsFiniteSet(1 .. n)
      BY <1>1, FS_Interval
    <3> QED
      BY <2>1, <3>1, FS_Subset
  <2>3. i \in inline /\ \A k \in inline : i >= k
    BY <1>4, <2>1, <2>2, MaxIsLargest
  <2> HIDE DEF i
  <2>4. i \in 1 .. n /\ Made(list[i], name) /\ list[i].body.given # "ref"
    BY <1>2, <2>3 DEF inline
  <2>5. ASSUME NEW k \in 1 .. n, Made(list[k], name), list[k].body.given # "ref" PROVE k <= i
    <3>1. k \in inline
      BY <1>2, <2>5 DEF inline
    <3> QED
      BY <2>1, <2>3, <3>1
  <2>6. Wins(list, n, i)
    BY <2>4, <2>5 DEF Wins, Made
  <2>7. Maker(m, name) = list[i]
    BY <1>3, <1>4 DEF i
  <2>8. list[i].type = name
    BY <2>4 DEF Made
  <2> QED
    BY <2>4, <2>6, <2>7, <2>8 DEF n, list
<1>5. CASE inline = {}
  <2> DEFINE i == Min(makers)
  <2>1. makers \subseteq 1 .. n /\ makers # {}
    BY <1>2 DEF makers
  <2>2. \E k \in makers : \A j \in makers : k <= j
    BY <1>1, <2>1, LeastPlace
  <2>3. i \in makers /\ \A j \in makers : i <= j
    BY <2>2 DEF Min
  <2>4. Maker(m, name) = list[i]
    BY <1>3, <1>5
  <2> HIDE DEF i
  <2>5. \A k \in 1 .. n : Made(list[k], name) => k \in makers /\ list[k].body.given = "ref"
    BY <1>2, <1>5
  <2>6. i \in 1 .. n /\ Made(list[i], name)
    BY <1>2, <2>3
  <2>7. Wins(list, n, i)
    BY <2>3, <2>5, <2>6 DEF Wins, Made
  <2>8. list[i].type = name
    BY <2>6 DEF Made
  <2> QED
    BY <2>4, <2>6, <2>7, <2>8 DEF n, list
<1> QED
  BY <1>4, <1>5

\* The invariant says what the import promises.
LEMMA ImportInvSuffices == ImportInv => ImportFaithful
<1> SUFFICES ASSUME ImportInv, Parsed PROVE ImportFaithful
  BY DEF ImportFaithful
<1>1. HandlersDiffer
  <2> SUFFICES ASSUME NEW m \in ImportModule, NEW i \in DOMAIN endpoints[m], NEW k \in DOMAIN endpoints[m],
                      i # k, endpoints[m][i].handler_name = endpoints[m][k].handler_name
               PROVE  \E a, b \in {i, k} : \E n \in 2 .. MaxOperations :
                         endpoints[m][a].operation.name = Append(endpoints[m][b].operation.name, n)
    BY DEF HandlersDiffer
  <2> DEFINE s == endpoints[m][i].operation.name
             t == endpoints[m][k].operation.name
  <2>1. /\ endpoints[m][i].operation \in Operation /\ endpoints[m][k].operation \in Operation
        /\ s \in HandlerName /\ t \in HandlerName
    <3>1. endpoints[m] \in Seq(Endpoint)
      BY DEF ImportInv, ImportTyped
    <3>2. endpoints[m][i] \in Endpoint /\ endpoints[m][k] \in Endpoint
      BY <3>1
    <3> QED
      BY <3>2 DEF Endpoint, HandlerName
  <2>2. /\ IsHandlerName(s) /\ IsHandlerName(t)
        /\ seen[s] \in 0 .. MaxOperations /\ seen[t] \in 0 .. MaxOperations
    <3>1. /\ seen[s] \in 0 .. Len(document) /\ seen[t] \in 0 .. Len(document)
          /\ Len(document) \in Nat /\ Len(document) <= MaxOperations /\ MaxOperations \in Nat
      BY <2>1, OperationAssumption DEF ImportInv, ImportTyped
    <3> QED
      BY <2>1, <3>1, NamesOfOperations
  <2>3. /\ s # t
        /\ \E c \in 1 .. seen[s] : endpoints[m][i].handler_name = Different(s, c)
        /\ \E d \in 1 .. seen[t] : endpoints[m][k].handler_name = Different(t, d)
    BY DEF ImportInv, HandlersCounted
  <2> HIDE DEF s, t
  <2>4. PICK c \in 1 .. seen[s], d \in 1 .. seen[t] : Different(s, c) = Different(t, d)
    BY <2>3
  <2>5. c \in 1 .. MaxOperations /\ d \in 1 .. MaxOperations /\ MaxOperations \in Nat
    BY <2>2, <2>4, OperationAssumption
  <2>6. Append(s, c) # Append(t, d)
    BY <2>2, <2>3, NamesAppended
  <2>7. \/ d > 1 /\ s = Append(t, d)
        \/ c > 1 /\ t = Append(s, c)
    BY <2>3, <2>4, <2>6 DEF Different
  <2>8. CASE d > 1 /\ s = Append(t, d)
    <3>1. d \in 2 .. MaxOperations
      BY <2>5, <2>8
    <3> QED
      BY <2>8, <3>1 DEF s, t
  <2>9. CASE c > 1 /\ t = Append(s, c)
    <3>1. c \in 2 .. MaxOperations
      BY <2>5, <2>9
    <3> QED
      BY <2>9, <3>1 DEF s, t
  <2> QED
    BY <2>7, <2>8, <2>9
<1>2. ASSUME NEW m \in ImportModule
      PROVE  /\ TypesMade(m)
             /\ \A i \in DOMAIN endpoints[m] :
                   LET e == endpoints[m][i]
                   IN  \A b \in {RequestOf(e.operation), ResponseOf(e.operation)} :
                          OwnName(m, b) /\ b.type \notin QueryNames(endpoints[m]) => AsAsked(m, b)
  <2> DEFINE n == BodyCount(m)
             list == Bodies(m)
             names == QueryNames(endpoints[m])
  <2>1. PICK types : TypesOf(list, n, types) /\ dtos[m] = WithQueries(types, endpoints[m])
    BY DEF ImportInv, TypesKept, Parsed
  <2>2. endpoints[m] \in Seq(Endpoint)
    BY DEF ImportInv, ImportTyped
  <2>3. n \in Nat /\ DOMAIN list = 1 .. n
    BY <2>2 DEF BodyCount, Bodies
  <2>4. /\ DOMAIN dtos[m] = DOMAIN types \cup names
        /\ \A x \in names : dtos[m][x] = QueryDto
        /\ \A x \in DOMAIN types \ names : dtos[m][x] = types[x]
    <3> HIDE DEF names
    <3> QED
      BY <2>1 DEF WithQueries, names
  <2> HIDE DEF n, list, names
  <2>5. \A name : Makers(m, name) = {i \in 1 .. n : Made(list[i], name)}
    BY <2>3 DEF Makers, Made, list
  <2>6. \A name : name \in DOMAIN types <=> Makers(m, name) # {}
    BY <2>1, <2>5 DEF TypesOf, Made
  <2>7. DOMAIN types = {name \in {b.type : b \in ToSet(list)} : Makers(m, name) # {}}
    <3>1. ASSUME NEW name, Makers(m, name) # {} PROVE name \in {b.type : b \in ToSet(list)}
      <4>1. PICK i \in 1 .. n : list[i].type = name
        BY <2>5, <3>1 DEF Made
      <4>2. list[i] \in ToSet(list)
        BY <2>3, <4>1 DEF ToSet
      <4> QED
        BY <4>1, <4>2
    <3> QED
      BY <2>6, <3>1
  <2>8. ASSUME NEW name \in DOMAIN types PROVE types[name] = Dto(Maker(m, name).body, Maker(m, name).response)
    <3>1. PICK i \in 1 .. n : Maker(m, name) = list[i] /\ Wins(list, n, i) /\ list[i].type = name
      BY <2>2, <2>6, <2>8, MakerWins DEF n, list
    <3> QED
      BY <2>1, <3>1 DEF TypesOf
  <2>9. TypesMade(m)
    BY <2>4, <2>7, <2>8 DEF TypesMade, list, names
  <2>10. ASSUME NEW i \in DOMAIN endpoints[m],
                NEW b \in {RequestOf(endpoints[m][i].operation), ResponseOf(endpoints[m][i].operation)},
                OwnName(m, b), b.type \notin names, Makes(b)
         PROVE  dtos[m][b.type].schema = b.body.id
    <3>1. PICK size \in Nat : Len(endpoints[m]) = size /\ DOMAIN endpoints[m] = 1 .. size
      BY <2>2
    <3>2. n = 2 * size /\ i \in 1 .. size
      BY <2>10, <3>1 DEF n, BodyCount
    <3>3. \E k \in 1 .. n : list[k] = b
      <4>1. /\ 2 * i \in 1 .. n /\ 2 * i - 1 \in 1 .. n
            /\ (2 * i - 1) % 2 = 1 /\ (2 * i) % 2 = 0
            /\ ((2 * i - 1) + 1) \div 2 = i /\ (2 * i + 1) \div 2 = i
        <5>1. size \in Nat /\ i \in 1 .. size /\ n = 2 * size
          BY <3>1, <3>2
        <5>2. i \in Nat /\ 2 * i \in 1 .. n /\ 2 * i - 1 \in 1 .. n
          BY <5>1
        <5>3. (2 * i - 1) % 2 = 1 /\ (2 * i) % 2 = 0
          BY <5>2
        <5>4. ((2 * i - 1) + 1) \div 2 = i /\ (2 * i + 1) \div 2 = i
          BY <5>2
        <5> QED
          BY <5>2, <5>3, <5>4
      <4>2. /\ list[2 * i - 1] = RequestOf(endpoints[m][i].operation)
            /\ list[2 * i] = ResponseOf(endpoints[m][i].operation)
        BY <3>1, <3>2, <4>1 DEF list, Bodies
      <4> QED
        BY <2>10, <4>1, <4>2
    <3>4. b.type \in DOMAIN types
      BY <2>1, <2>10, <3>3 DEF TypesOf
    <3>5. PICK k \in 1 .. n : Made(list[k], b.type) /\ types[b.type] = Dto(list[k].body, list[k].response)
      BY <2>1, <3>4 DEF TypesOf
    <3>6. list[k].body.id = b.body.id
      BY <2>5, <2>10, <3>5 DEF OwnName, list
    <3>7. Dto(list[k].body, list[k].response).schema = list[k].body.id
      BY DEF Dto
    <3> QED
      BY <2>4, <2>10, <3>4, <3>5, <3>6, <3>7
  <2> QED
    BY <2>9, <2>10 DEF AsAsked, names
<1>3. \A m \in ImportModule : \A i \in DOMAIN endpoints[m] : ValidatedAlike(m, endpoints[m][i])
  BY DEF ImportInv, BodiesValidated
<1>4. progress = "done" => Imported \subseteq written /\ written \cap on_disk \subseteq complete
  BY DEF ImportInv, WritesKept
<1> QED
  BY <1>1, <1>2, <1>3, <1>4 DEF ImportFaithful, ValidatedAlike

\* rapina import openapi, for any document and whatever names its types come
\* to: handlers differ, a type is made of the schema its operation asked for and
\* a request validated as that schema says, unless the document gives the name
\* to another one, when the last inline body or the first component has it; and
\* an import that says it is done left no module half written.
THEOREM ImportsAreFaithful == ImportSpec => []ImportFaithful
<1>1. ImportInv /\ [ImportNext]_importVars => ImportInv'
  <2> SUFFICES ASSUME ImportInv, [ImportNext]_importVars PROVE ImportInv'
    OBVIOUS
  <2>1. ASSUME NEW op \in Operation, ParseOperation(op) PROVE ImportInv'
    BY <2>1, ParseKeepsInv
  <2>2. CASE Queries
    BY <2>2, QueriesKeepInv
  <2>3. ASSUME NEW m \in ImportModule, NEW all \in BOOLEAN, WriteModule(m, all) \/ RemoveDirectory(m)
        PROVE  ImportInv'
    BY <2>3, WritesKeepInv
  <2>4. CASE RunAgain
    <3>1. PICK m \in ImportModule : TRUE
      BY <2>4 DEF RunAgain, Imported
    <3> QED
      BY <2>4, <3>1, WritesKeepInv
  <2>5. CASE UNCHANGED importVars
    BY <2>5, NothingParsed DEF ImportInv, ImportTyped, WritesKept, Imported, importVars
  <2> QED
    BY <2>1, <2>2, <2>3, <2>4, <2>5 DEF ImportNext
<1> QED
  BY <1>1, ImportInvAtFirst, ImportInvSuffices, PTL DEF ImportSpec

-----------------------------------------------------------------------------
(* Seeds *)

\* The rows of a table, whose ids differ, the records of a file, and the
\* transaction of a load.
SeedRow == [id : Nat \ {0}, ref : Nat, exact : BOOLEAN]

SeedRecord == [id : Nat, ref : Nat, exact : BOOLEAN]

SeedRows ==
    {rows \in SUBSET SeedRow :
        IsFiniteSet(rows) /\ \A a, b \in rows : a.id = b.id => a = b}

LoadState ==
    [tables : SUBSET Table, fresh : BOOLEAN, empty : SUBSET Table,
     left : [Table -> SUBSET SeedRecord], gone : [Table -> SUBSET SeedRow],
     added : [Table -> SUBSET SeedRow], alone : BOOLEAN, crossed : BOOLEAN]

-----------------------------------------------------------------------------
(* The invariant *)

SeedsOK ==
    /\ child \in Table
    /\ db \in [Table -> SeedRows]
    /\ next_id \in [Table -> Nat \ {0}]
    /\ listed \subseteq Table
    /\ file \in [Table -> SUBSET SeedRecord]
    /\ dumping \subseteq Table
    /\ excused \in BOOLEAN

\* What a load l on the committed rows d sees.
Seen(l, d, t) == (d[t] \ l.gone[t]) \cup l.added[t]

SeenIn(l, d) == [t \in Table |-> Seen(l, d, t)]

\* The rows a load sees are in order, and refer to rows it sees where each
\* statement is checked.
LoadShape(l, d) ==
    /\ l \in LoadState
    /\ \A t \in Table : /\ IsFiniteSet(l.gone[t]) /\ IsFiniteSet(l.added[t])
                        /\ Seen(l, d, t) \in SeedRows
    /\ l.empty # {} => \A t \in Table : l.added[t] = {}
    /\ ~l.fresh => l.empty = {} /\ \A t \in Table : l.gone[t] = {}
    /\ l.crossed => ~l.alone
    /\ Checked => Refers(SeenIn(l, d))

LoadUnderway == load # NoLoad => dumping = {} /\ LoadShape(load, db)

\* The rows of the dump, as they come back.
Carried(t, rows) == {json_to_sea_value(t, r) : r \in rows}

\* How far a load of a whole dump has come.
DumpGoesIn(l, d, dump) ==
    /\ \A t \in Table : l.left[t] \subseteq dump[t] /\ l.added[t] \subseteq Carried(t, dump[t])
    /\ l.empty # {} => \A t \in Table : l.left[t] = dump[t]
    /\ \A t \in Table : l.alone \/ (t = parent /\ ~l.crossed) =>
          \A r \in dump[t] : r \in l.left[t] \/ r.id \in Ids(Seen(l, d, t))
    /\ \A t \in Table : l.fresh /\ t \notin l.empty /\ (l.alone \/ (t = child /\ ~l.crossed)) =>
          d[t] \subseteq l.gone[t]

WholeLoad == load # NoLoad /\ load.tables = Table /\ backup # NoBackup => DumpGoesIn(load, db, backup)

\* Where each statement is checked, nothing is excused.
ReferencesHold == (excused => ~Checked) /\ (~excused => Refers(db))

\* As long as nobody writes, the files a dump has written are of one database.
DumpUnderway ==
    at_start # NoBackup =>
        /\ at_start = db /\ dumping # {}
        /\ \A t \in Table \ dumping : t \in listed /\ file[t] = db[t]

FilesAreBackup ==
    backup # NoBackup =>
        /\ backup \in [Table -> SeedRows]
        /\ listed = Table /\ \A t \in Table : file[t] = backup[t]
        /\ ~excused => Refers(backup)

\* How the last command ended.
CommandEnded ==
    /\ last.op = "restore" /\ backup # NoBackup =>
          /\ last.ok => db = [t \in Table |-> Carried(t, backup[t])]
          /\ last.ok \/ (Checked /\ child = 1) \/ alien \/ \E t \in Table : column[t] = "text"
    /\ last.op = "insert" /\ ~last.ok => backend = "postgres"

SeedsInv ==
    /\ SeedsOK /\ LoadUnderway /\ WholeLoad /\ ReferencesHold
    /\ DumpUnderway /\ FilesAreBackup /\ CommandEnded

-----------------------------------------------------------------------------
(* Tables and rows *)

LEMMA SeedWords ==
    ASSUME SeedsOK
    PROVE  /\ Table = {1, 2} /\ child \in Table /\ parent \in Table /\ parent # child
           /\ \A t \in Table : t = child \/ t = parent
           /\ parent = 3 - child
BY DEF SeedsOK, Table, parent

\* One more row.
LEMMA RowAdded ==
    ASSUME NEW rows \in SeedRows, NEW row \in SeedRow, row.id \notin Ids(rows)
    PROVE  rows \cup {row} \in SeedRows
<1>1. IsFiniteSet(rows \cup {row})
  BY FS_AddElement DEF SeedRows
<1>2. \A a, b \in rows \cup {row} : a.id = b.id => a = b
  BY DEF SeedRows, Ids
<1> QED
  BY <1>1, <1>2 DEF SeedRows

\* Fewer rows.
LEMMA RowsRemoved ==
    ASSUME NEW rows \in SeedRows, NEW fewer, fewer \subseteq rows
    PROVE  fewer \in SeedRows
<1>1. IsFiniteSet(fewer)
  BY FS_Subset DEF SeedRows
<1> QED
  BY <1>1 DEF SeedRows

LEMMA IdsAre ==
    ASSUME NEW rows, rows \subseteq SeedRow, IsFiniteSet(rows)
    PROVE  /\ Ids(rows) \subseteq Nat \ {0}
           /\ IsFiniteSet({i + 1 : i \in Ids(rows)})
<1> DEFINE above == {i + 1 : i \in Ids(rows)}
           f == [r \in rows |-> r.id + 1]
<1>1. Ids(rows) \subseteq Nat \ {0}
  BY DEF SeedRow, Ids
<1>2. above = {r.id + 1 : r \in rows}
  BY DEF Ids
<1>3. f \in Surjection(rows, above)
  BY <1>2 DEF Surjection
<1>4. IsFiniteSet(above)
  <2> HIDE DEF f, above
  <2> QED
    BY <1>3, FS_Surjection
<1> QED
  BY <1>1, <1>4

\* The rows that are locked, and the id the database gives: it is no row's,
\* but on Postgres.
LEMMA GivenIs ==
    ASSUME SeedsOK, LoadUnderway, NEW t \in Table
    PROVE  /\ Given(t) \in Nat \ {0}
           /\ backend # "postgres" => Given(t) \notin Ids(db[t]) \cup Locked(t)
<1> DEFINE locked == Gone(t) \cup Added(t)
           rows == db[t] \cup locked
           above == {i + 1 : i \in Ids(rows)}
           numbers == {next_id[t]} \cup above
<1>1. locked \subseteq SeedRow /\ IsFiniteSet(locked)
  <2>1. CASE load = NoLoad
    BY <2>1, FS_EmptySet DEF Gone, Added
  <2>2. CASE load # NoLoad
    <3>1. locked = load.gone[t] \cup load.added[t]
      BY <2>2 DEF Gone, Added
    <3>2. /\ load \in LoadState
          /\ IsFiniteSet(load.gone[t]) /\ IsFiniteSet(load.added[t])
      BY <2>2 DEF LoadUnderway, LoadShape
    <3>3. load.gone[t] \in SUBSET SeedRow /\ load.added[t] \in SUBSET SeedRow
      BY <3>2 DEF LoadState
    <3> HIDE DEF locked
    <3> QED
      BY <3>1, <3>2, <3>3, FS_Union
  <2> QED
    BY <2>1, <2>2
<1>2. db[t] \subseteq SeedRow /\ IsFiniteSet(db[t])
  BY DEF SeedsOK, SeedRows
<1>3. Ids(rows) = Ids(db[t]) \cup Locked(t)
  BY DEF Ids, Locked
<1> HIDE DEF locked
<1>4. rows \subseteq SeedRow /\ IsFiniteSet(rows)
  BY <1>1, <1>2, FS_Union
<1> HIDE DEF rows
<1>5. Ids(rows) \subseteq Nat \ {0} /\ IsFiniteSet(above)
  BY <1>4, IdsAre
<1>6. next_id[t] \in Nat \ {0}
  BY DEF SeedsOK
<1>7. IsFiniteSet(numbers)
  <2>1. IsFiniteSet({next_id[t]})
    BY FS_Singleton
  <2> HIDE DEF above
  <2> QED
    BY <1>5, <2>1, FS_Union
<1>8. numbers \in SUBSET Nat /\ numbers # {}
  BY <1>5, <1>6
<1>9. Max(numbers) \in numbers /\ \A other \in numbers : Max(numbers) >= other
  <2> HIDE DEF numbers
  <2> QED
    BY <1>7, <1>8, MaxIsLargest
<1>10. Max(numbers) \in Nat /\ Max(numbers) >= next_id[t] /\ \A i \in Ids(rows) : Max(numbers) >= i + 1
  BY <1>8, <1>9
<1>11. Given(t) = IF backend = "postgres" THEN next_id[t] ELSE Max(numbers)
  BY <1>3 DEF Given
<1>12. \A i \in Ids(rows) : Max(numbers) # i
  <2> HIDE DEF numbers
  <2> QED
    BY <1>5, <1>10
<1> HIDE DEF numbers
<1> QED
  BY <1>3, <1>6, <1>10, <1>11, <1>12

\* What load sees by the operators of the module is what it sees by these.
LEMMA ViewIsSeen ==
    ASSUME load # NoLoad, NEW t \in Table
    PROVE  /\ View(t) = Seen(load, db, t)
           /\ Gone(t) = load.gone[t] /\ Added(t) = load.added[t] /\ Left(t) = load.left[t]
           /\ Locked(t) = Ids(load.gone[t] \cup load.added[t])
BY DEF View, Gone, Added, Left, Locked, Seen

\* The words of the invariant mean the same before and after a step.
LEMMA SameWords ==
    ASSUME UNCHANGED <<backend, child, column>>
    PROVE  /\ parent' = parent /\ (Checked' <=> Checked)
           /\ (load' # NoLoad => dumping' = {} /\ LoadShape(load', db')) => LoadUnderway'
           /\ (load' # NoLoad /\ load'.tables = Table /\ backup' # NoBackup =>
                  DumpGoesIn(load', db', backup')) => WholeLoad'
           /\ (excused' => ~Checked) /\ (~excused' => Refers(db')) => ReferencesHold'
<1>1. parent' = parent /\ (Checked' <=> Checked)
  BY DEF parent, Checked
<1>2. (excused' => ~Checked) /\ (~excused' => Refers(db')) => ReferencesHold'
  BY <1>1 DEF ReferencesHold, Refers
<1>3. (load' # NoLoad => dumping' = {} /\ LoadShape(load', db')) => LoadUnderway'
  BY <1>1 DEF LoadUnderway, LoadShape, Refers, SeenIn, Seen
<1>4. (load' # NoLoad /\ load'.tables = Table /\ backup' # NoBackup =>
          DumpGoesIn(load', db', backup')) => WholeLoad'
  BY <1>1 DEF WholeLoad, DumpGoesIn, Carried, json_to_sea_value, Seen, Ids
<1> QED
  BY <1>1, <1>2, <1>3, <1>4

\* The same for what is said of the files, and of the last command.
LEMMA SameFiles ==
    ASSUME UNCHANGED <<backend, child, column, listed, file, backup>>, FilesAreBackup, excused => excused'
    PROVE  FilesAreBackup'
<1>1. parent' = parent
  BY DEF parent
<1> QED
  BY <1>1 DEF FilesAreBackup, Refers

LEMMA SeedsStart == SeedInit => SeedsInv
<1> SUFFICES ASSUME SeedInit PROVE SeedsInv
  OBVIOUS
<1>1. SeedsOK
  <2>1. {} \in SeedRows
    BY FS_EmptySet DEF SeedRows
  <2>2. db \in [Table -> SeedRows]
    BY <2>1 DEF SeedInit
  <2>3. next_id \in [Table -> Nat \ {0}] /\ file \in [Table -> SUBSET SeedRecord]
    BY DEF SeedInit
  <2>4. child \in Table /\ listed = {} /\ dumping = {} /\ excused = FALSE
    BY DEF SeedInit
  <2> QED
    BY <2>2, <2>3, <2>4 DEF SeedsOK
<1>2. ReferencesHold
  BY <1>1, SeedWords DEF SeedInit, ReferencesHold, Refers
<1>3. load = NoLoad /\ at_start = NoBackup /\ backup = NoBackup /\ last.op = "generate"
  BY DEF SeedInit
<1> QED
  BY <1>1, <1>2, <1>3 DEF SeedsInv, LoadUnderway, WholeLoad, DumpUnderway, FilesAreBackup, CommandEnded

-----------------------------------------------------------------------------
(* The application *)

\* A load under way sees the tables as the application leaves them.
LEMMA WroteIs ==
    ASSUME SeedsInv, load # NoLoad, NEW crossing \in BOOLEAN, Wrote(crossing)
    PROVE  /\ load' # NoLoad =>
                 /\ load' \in LoadState /\ load'.crossed = (load.crossed \/ crossing)
                 /\ load'.tables = load.tables /\ load'.fresh = load.fresh /\ ~load'.alone
                 /\ load'.empty = load.empty /\ load'.left = load.left
                 /\ load'.gone = load.gone /\ load'.added = load.added
           /\ load \in LoadState /\ dumping = {} /\ LoadShape(load, db)
<1>1. load \in LoadState /\ dumping = {} /\ LoadShape(load, db)
  BY DEF SeedsInv, LoadUnderway, LoadShape
<1>2. load' = [load EXCEPT !.alone = FALSE, !.crossed = @ \/ crossing]
  BY DEF Wrote
<1>3. load' = [tables |-> load.tables, fresh |-> load.fresh, empty |-> load.empty,
               left |-> load.left, gone |-> load.gone, added |-> load.added,
               alone |-> FALSE, crossed |-> load.crossed \/ crossing]
  BY <1>1, <1>2 DEF LoadState
<1>4. load.crossed \/ crossing \in BOOLEAN
  BY <1>1 DEF LoadState
<1>5. /\ load'.crossed = (load.crossed \/ crossing)
      /\ load'.tables = load.tables /\ load'.fresh = load.fresh /\ load'.alone = FALSE
      /\ load'.empty = load.empty /\ load'.left = load.left
      /\ load'.gone = load.gone /\ load'.added = load.added
  BY <1>3
<1>6. load' \in LoadState
  BY <1>1, <1>3, <1>4 DEF LoadState
<1> QED
  BY <1>1, <1>5, <1>6

LEMMA InsertKeepsSeeds ==
    ASSUME SeedsInv, NEW t \in Table, NEW ref \in 0 .. MaxParent + 1, InsertRow(t, ref)
    PROVE  SeedsInv'
<1> DEFINE id == Given(t)
           row == [id |-> id, ref |-> ref, exact |-> TRUE]
<1>1. /\ SeedsOK /\ LoadUnderway /\ WholeLoad /\ ReferencesHold
      /\ DumpUnderway /\ FilesAreBackup /\ CommandEnded
  BY DEF SeedsInv
<1>2. /\ child \in Table /\ parent \in Table /\ parent # child
      /\ db \in [Table -> SeedRows]
  BY <1>1, SeedWords DEF SeedsOK
<1>3. id \in Nat \ {0} /\ (backend # "postgres" => id \notin Ids(db[t]) \cup Locked(t))
  BY <1>1, GivenIs
<1>4. /\ Writable /\ id \notin Locked(t)
      /\ ref \in IF t = child THEN Ids(db[parent]) \ Locked(parent) ELSE {0}
      /\ next_id' = [next_id EXCEPT ![t] = id + 1]
      /\ IF id \in Ids(db[t]) THEN UNCHANGED db ELSE db' = [db EXCEPT ![t] = @ \cup {row}]
      /\ last' = [op |-> "insert", ok |-> id \notin Ids(db[t])]
      /\ Wrote(t = child) /\ at_start' = NoBackup
      /\ UNCHANGED <<backend, child, column, listed, file, alien, dumping, backup, excused>>
  BY DEF InsertRow, Record, Wrote
<1> HIDE DEF id
<1>5. row \in SeedRow
  <2>1. Ids(db[parent]) \subseteq Nat
    BY <1>2 DEF SeedRows, SeedRow, Ids
  <2> QED
    BY <1>3, <1>4, <2>1 DEF SeedRow
<1>6. /\ db' \in [Table -> SeedRows]
      /\ \A u \in Table : db[u] \subseteq db'[u] /\ (u # t => db'[u] = db[u])
      /\ \A r \in db'[t] : r \in db[t] \/ (r = row /\ id \notin Ids(db[t]))
  <2>1. CASE id \in Ids(db[t])
    BY <1>2, <1>4, <2>1
  <2>2. CASE id \notin Ids(db[t])
    <3>1. db[t] \cup {row} \in SeedRows
      BY <1>2, <1>5, <2>2, RowAdded
    <3>2. db' = [db EXCEPT ![t] = db[t] \cup {row}]
      BY <1>4, <2>2
    <3> HIDE DEF row
    <3> QED
      BY <1>2, <2>2, <3>1, <3>2
  <2> QED
    BY <2>1, <2>2
<1>7. row.id = id /\ row.ref = ref
  OBVIOUS
<1> HIDE DEF row
<1>8. SeedsOK'
  <2>1. next_id' \in [Table -> Nat \ {0}]
    BY <1>1, <1>3, <1>4 DEF SeedsOK
  <2> QED
    BY <1>1, <1>4, <1>6, <2>1 DEF SeedsOK
<1>9. ReferencesHold'
  <2>1. excused' => ~Checked
    BY <1>1, <1>4 DEF ReferencesHold
  <2>2. ASSUME ~excused', NEW r \in db'[child] PROVE r.ref \in Ids(db'[parent])
    <3>1. Ids(db[parent]) \subseteq Ids(db'[parent])
      BY <1>2, <1>6 DEF Ids
    <3>2. CASE r \in db[child]
      BY <1>1, <1>4, <2>2, <3>1, <3>2 DEF ReferencesHold, Refers
    <3>3. CASE r \notin db[child]
      <4>1. t = child /\ r = row
        BY <1>2, <1>6, <2>2, <3>3
      <4> QED
        BY <1>4, <1>7, <3>1, <4>1
    <3> QED
      BY <3>2, <3>3
  <2>3. ~excused' => Refers(db')
    BY <2>2 DEF Refers
  <2> QED
    BY <1>4, <2>1, <2>3, SameWords
<1>10. ASSUME load # NoLoad, load' # NoLoad
       PROVE  dumping' = {} /\ LoadShape(load', db')
  <2>1. /\ load' \in LoadState /\ ~load'.alone /\ load'.fresh = load.fresh /\ load'.empty = load.empty
        /\ load'.gone = load.gone /\ load'.added = load.added
        /\ load \in LoadState /\ dumping = {} /\ LoadShape(load, db)
    BY <1>4, <1>10, WroteIs
  <2>2. ~Checked
    BY <1>4, <1>10 DEF Writable
  <2>3. ASSUME NEW u \in Table PROVE Seen(load', db', u) \in SeedRows
    <3>1. Seen(load, db, u) \in SeedRows
      BY <2>1 DEF LoadShape
    <3>2. CASE Seen(load', db', u) = Seen(load, db, u)
      BY <3>1, <3>2
    <3>3. CASE Seen(load', db', u) # Seen(load, db, u)
      <4>1. u = t
        BY <1>6, <2>1, <3>3 DEF Seen
      <4>2. id \notin Ids(load.gone[u] \cup load.added[u])
        BY <1>4, <1>10, <4>1, ViewIsSeen
      <4>3. id \notin Ids(db[u]) /\ db'[u] = db[u] \cup {row}
        BY <1>4, <1>6, <2>1, <3>3, <4>1 DEF Seen
      <4>4. row \notin load.gone[u]
        BY <1>7, <4>2 DEF Ids
      <4>5. Seen(load', db', u) = Seen(load, db, u) \cup {row}
        BY <2>1, <4>3, <4>4 DEF Seen
      <4>6. id \notin Ids(Seen(load, db, u))
        BY <4>2, <4>3 DEF Seen, Ids
      <4> QED
        BY <1>5, <1>7, <3>1, <4>5, <4>6, RowAdded
    <3> QED
      BY <3>2, <3>3
  <2> QED
    BY <1>4, <2>1, <2>2, <2>3 DEF LoadShape
<1>11. LoadUnderway'
  <2>1. load = NoLoad => load' = NoLoad
    BY <1>4 DEF Wrote
  <2> QED
    BY <1>4, <1>10, <2>1, SameWords
<1>12. WholeLoad'
  <2> SUFFICES ASSUME load' # NoLoad, load'.tables = Table, backup' # NoBackup
               PROVE  DumpGoesIn(load', db', backup')
    BY <1>4, SameWords
  <2>1. load # NoLoad
    BY <1>4 DEF Wrote
  <2>2. /\ load'.crossed = (load.crossed \/ t = child)
        /\ load'.tables = load.tables /\ load'.fresh = load.fresh /\ ~load'.alone
        /\ load'.empty = load.empty /\ load'.left = load.left
        /\ load'.gone = load.gone /\ load'.added = load.added
    BY <1>4, <2>1, WroteIs
  <2>3. DumpGoesIn(load, db, backup) /\ backup' = backup
    BY <1>1, <1>4, <2>1, <2>2 DEF WholeLoad
  <2>4. ASSUME ~load'.crossed
        PROVE  /\ \A r \in backup[parent] :
                     r \in load.left[parent] \/ r.id \in Ids(Seen(load', db', parent))
               /\ load.fresh /\ child \notin load.empty => db'[child] \subseteq load.gone[child]
    <3>1. ~load.crossed /\ t # child
      BY <2>2, <2>4
    <3>2. Ids(Seen(load, db, parent)) \subseteq Ids(Seen(load', db', parent))
      BY <1>2, <1>6, <2>2 DEF Seen, Ids
    <3>3. \A r \in backup[parent] :
             r \in load.left[parent] \/ r.id \in Ids(Seen(load, db, parent))
      BY <1>2, <2>3, <3>1 DEF DumpGoesIn
    <3>4. load.fresh /\ child \notin load.empty => db[child] \subseteq load.gone[child]
      BY <1>2, <2>3, <3>1 DEF DumpGoesIn
    <3>5. db'[child] = db[child]
      BY <1>2, <1>6, <3>1
    <3> QED
      BY <3>2, <3>3, <3>4, <3>5
  <2> QED
    BY <2>2, <2>3, <2>4 DEF DumpGoesIn
<1>13. DumpUnderway'
  BY <1>4 DEF DumpUnderway
<1>14. FilesAreBackup'
  BY <1>1, <1>4, SameFiles
<1>15. CommandEnded'
  BY <1>3, <1>4 DEF CommandEnded
<1> QED
  BY <1>8, <1>9, <1>11, <1>12, <1>13, <1>14, <1>15 DEF SeedsInv

LEMMA DeleteKeepsSeeds ==
    ASSUME SeedsInv, NEW t \in Table, NEW r \in db[t], DeleteRow(t, r)
    PROVE  SeedsInv'
<1>1. /\ SeedsOK /\ LoadUnderway /\ WholeLoad /\ ReferencesHold
      /\ DumpUnderway /\ FilesAreBackup /\ CommandEnded
  BY DEF SeedsInv
<1>2. /\ child \in Table /\ parent \in Table /\ parent # child
      /\ db \in [Table -> SeedRows]
  BY <1>1, SeedWords DEF SeedsOK
<1>3. /\ Writable
      /\ t = parent => \A c \in db[child] : c.ref # r.id
      /\ db' = [db EXCEPT ![t] = db[t] \ {r}]
      /\ last' = [op |-> "delete", ok |-> TRUE]
      /\ Wrote(t = parent) /\ at_start' = NoBackup
      /\ UNCHANGED <<backend, child, column, next_id, listed, file, alien, dumping, backup, excused>>
  BY DEF DeleteRow, Record, Wrote
<1>4. \A u \in Table : db'[u] \subseteq db[u] /\ (u # t => db'[u] = db[u])
  BY <1>2, <1>3
<1>5. SeedsOK'
  <2>1. db[t] \ {r} \in SeedRows
    BY <1>2, RowsRemoved
  <2> QED
    BY <1>1, <1>3, <2>1 DEF SeedsOK
<1>6. ReferencesHold'
  <2>1. ASSUME ~excused, NEW c \in db'[child] PROVE c.ref \in Ids(db'[parent])
    <3>1. c \in db[child]
      BY <1>2, <1>4
    <3>2. PICK q \in db[parent] : q.id = c.ref
      BY <1>1, <2>1, <3>1 DEF ReferencesHold, Refers, Ids
    <3>3. q \in db'[parent]
      BY <1>2, <1>3, <3>1, <3>2
    <3> QED
      BY <3>2, <3>3 DEF Ids
  <2>2. ~excused' => Refers(db')
    BY <1>3, <2>1 DEF Refers
  <2> QED
    BY <1>1, <1>3, <2>2, SameWords DEF ReferencesHold
<1>7. ASSUME load # NoLoad, load' # NoLoad
      PROVE  dumping' = {} /\ LoadShape(load', db')
  <2>1. /\ load' \in LoadState /\ ~load'.alone /\ load'.fresh = load.fresh /\ load'.empty = load.empty
        /\ load'.gone = load.gone /\ load'.added = load.added
        /\ load \in LoadState /\ dumping = {} /\ LoadShape(load, db)
    BY <1>3, <1>7, WroteIs
  <2>2. ~Checked
    BY <1>3, <1>7 DEF Writable
  <2>3. ASSUME NEW u \in Table PROVE Seen(load', db', u) \in SeedRows
    <3>1. Seen(load, db, u) \in SeedRows
      BY <2>1 DEF LoadShape
    <3>2. Seen(load', db', u) \subseteq Seen(load, db, u)
      BY <1>4, <2>1 DEF Seen
    <3> QED
      BY <3>1, <3>2, RowsRemoved
  <2> QED
    BY <1>3, <2>1, <2>2, <2>3 DEF LoadShape
<1>8. LoadUnderway'
  <2>1. load = NoLoad => load' = NoLoad
    BY <1>3 DEF Wrote
  <2> QED
    BY <1>3, <1>7, <2>1, SameWords
<1>9. WholeLoad'
  <2> SUFFICES ASSUME load' # NoLoad, load'.tables = Table, backup' # NoBackup
               PROVE  DumpGoesIn(load', db', backup')
    BY <1>3, SameWords
  <2>1. load # NoLoad
    BY <1>3 DEF Wrote
  <2>2. /\ load'.crossed = (load.crossed \/ t = parent)
        /\ load'.tables = load.tables /\ load'.fresh = load.fresh /\ ~load'.alone
        /\ load'.empty = load.empty /\ load'.left = load.left
        /\ load'.gone = load.gone /\ load'.added = load.added
    BY <1>3, <2>1, WroteIs
  <2>3. DumpGoesIn(load, db, backup) /\ backup' = backup
    BY <1>1, <1>3, <2>1, <2>2 DEF WholeLoad
  <2>4. ASSUME ~load'.crossed
        PROVE  /\ \A q \in backup[parent] :
                     q \in load.left[parent] \/ q.id \in Ids(Seen(load', db', parent))
               /\ load.fresh /\ child \notin load.empty => db'[child] \subseteq load.gone[child]
    <3>1. ~load.crossed /\ t # parent
      BY <2>2, <2>4
    <3>2. Seen(load', db', parent) = Seen(load, db, parent)
      BY <1>2, <1>4, <2>2, <3>1 DEF Seen
    <3>3. \A q \in backup[parent] :
             q \in load.left[parent] \/ q.id \in Ids(Seen(load, db, parent))
      BY <1>2, <2>3, <3>1 DEF DumpGoesIn
    <3>4. load.fresh /\ child \notin load.empty => db[child] \subseteq load.gone[child]
      BY <1>2, <2>3, <3>1 DEF DumpGoesIn
    <3> QED
      BY <1>2, <1>4, <3>2, <3>3, <3>4
  <2> QED
    BY <2>2, <2>3, <2>4 DEF DumpGoesIn
<1>10. DumpUnderway'
  BY <1>3 DEF DumpUnderway
<1>11. FilesAreBackup'
  BY <1>1, <1>3, SameFiles
<1>12. CommandEnded'
  BY <1>3 DEF CommandEnded
<1> QED
  BY <1>5, <1>6, <1>8, <1>9, <1>10, <1>11, <1>12 DEF SeedsInv

-----------------------------------------------------------------------------
(* The load *)

\* What holds of a load under way.
LEMMA LoadingIs ==
    ASSUME SeedsInv, load # NoLoad
    PROVE  /\ dumping = {} /\ at_start = NoBackup /\ load \in LoadState /\ LoadShape(load, db)
           /\ load.tables = Table /\ backup # NoBackup =>
                 DumpGoesIn(load, db, backup) /\ backup \in [Table -> SeedRows]
BY DEF SeedsInv, LoadUnderway, LoadShape, WholeLoad, DumpUnderway, FilesAreBackup

\* While the load goes on, what is said of the database and the files stays.
LEMMA StatementKeepsSeeds ==
    ASSUME SeedsInv, next_id' \in [Table -> Nat \ {0}],
           load' # NoLoad => dumping = {} /\ LoadShape(load', db),
           load' # NoLoad /\ load'.tables = Table /\ backup # NoBackup => DumpGoesIn(load', db, backup),
           UNCHANGED <<backend, child, column, db, listed, file, alien, dumping,
                       at_start, backup, excused, last>>
    PROVE  SeedsInv'
<1>1. /\ SeedsOK /\ ReferencesHold /\ DumpUnderway /\ FilesAreBackup /\ CommandEnded
  BY DEF SeedsInv
<1>2. LoadUnderway' /\ WholeLoad' /\ ReferencesHold'
  BY <1>1, SameWords DEF ReferencesHold
<1>3. SeedsOK' /\ DumpUnderway'
  BY <1>1 DEF SeedsOK, DumpUnderway
<1>4. FilesAreBackup'
  BY <1>1, SameFiles
<1>5. CommandEnded'
  BY <1>1 DEF CommandEnded, Carried, json_to_sea_value, Checked
<1> QED
  BY <1>2, <1>3, <1>4, <1>5 DEF SeedsInv

LEMMA LoadBeginsKeepsSeeds ==
    ASSUME SeedsInv, NEW tables \in SUBSET Table, NEW fresh \in BOOLEAN, LoadBegins(tables, fresh)
    PROVE  SeedsInv'
<1> DEFINE found == listed \cap tables
<1>1. /\ SeedsOK /\ ReferencesHold /\ FilesAreBackup
  BY DEF SeedsInv
<1>2. /\ dumping = {}
      /\ load' = [tables |-> tables, fresh |-> fresh,
                  empty |-> IF fresh THEN found ELSE {},
                  left |-> [t \in Table |-> IF t \in found THEN file[t] ELSE {}],
                  gone |-> [t \in Table |-> {}], added |-> [t \in Table |-> {}],
                  alone |-> TRUE, crossed |-> FALSE]
      /\ UNCHANGED <<backend, child, column, db, next_id, listed, file, alien, dumping,
                     at_start, backup, excused, last>>
  BY DEF LoadBegins
<1>3. /\ load'.tables = tables /\ load'.fresh = fresh
      /\ load'.empty = IF fresh THEN found ELSE {}
      /\ \A t \in Table : /\ load'.left[t] = IF t \in found THEN file[t] ELSE {}
                          /\ load'.gone[t] = {} /\ load'.added[t] = {}
      /\ load'.alone = TRUE /\ load'.crossed = FALSE
  BY <1>2
<1>4. load' \in LoadState
  <2>1. [t \in Table |-> IF t \in found THEN file[t] ELSE {}] \in [Table -> SUBSET SeedRecord]
    BY <1>1 DEF SeedsOK
  <2>2. [t \in Table |-> {}] \in [Table -> SUBSET SeedRow]
    OBVIOUS
  <2>3. (IF fresh THEN found ELSE {}) \in SUBSET Table
    OBVIOUS
  <2> HIDE DEF found
  <2> QED
    BY <1>2, <2>1, <2>2, <2>3 DEF LoadState
<1>5. \A t \in Table : Seen(load', db, t) = db[t]
  BY <1>3 DEF Seen
<1>6. LoadShape(load', db)
  <2>1. \A t \in Table : Seen(load', db, t) \in SeedRows
    BY <1>1, <1>5 DEF SeedsOK
  <2>2. Checked => Refers(SeenIn(load', db))
    <3>1. child \in Table /\ parent \in Table
      BY <1>1, SeedWords
    <3>2. Checked => Refers(db)
      BY <1>1 DEF ReferencesHold
    <3> QED
      BY <1>5, <3>1, <3>2 DEF Refers, SeenIn
  <2>3. IsFiniteSet({})
    BY FS_EmptySet
  <2> QED
    BY <1>3, <1>4, <2>1, <2>2, <2>3 DEF LoadShape
<1>7. ASSUME tables = Table, backup # NoBackup PROVE DumpGoesIn(load', db, backup)
  <2>1. listed = Table /\ \A t \in Table : file[t] = backup[t]
    BY <1>1, <1>7 DEF FilesAreBackup
  <2>2. found = Table
    BY <1>7, <2>1
  <2>3. \A t \in Table : load'.left[t] = backup[t]
    BY <1>3, <2>1, <2>2
  <2> QED
    BY <1>3, <2>2, <2>3 DEF DumpGoesIn
<1>8. next_id' \in [Table -> Nat \ {0}]
  BY <1>1, <1>2 DEF SeedsOK
<1> QED
  BY <1>2, <1>3, <1>6, <1>7, <1>8, StatementKeepsSeeds

LEMMA LoadEmptiesKeepsSeeds ==
    ASSUME SeedsInv, NEW t \in Table, LoadEmpties(t)
    PROVE  SeedsInv'
<1>1. /\ load # NoLoad /\ t \in load.empty /\ ~DeleteRefused(t)
      /\ load' = [load EXCEPT !.empty = @ \ {t}, !.gone[t] = db[t]]
      /\ UNCHANGED <<backend, child, column, db, next_id, listed, file, alien, dumping,
                     at_start, backup, excused, last>>
  BY DEF LoadEmpties, ToEmpty
<1>2. /\ load \in LoadState /\ LoadShape(load, db) /\ dumping = {} /\ SeedsOK
      /\ load.tables = Table /\ backup # NoBackup => DumpGoesIn(load, db, backup)
  BY <1>1, LoadingIs DEF SeedsInv
<1>3. /\ child \in Table /\ parent \in Table /\ parent # child
      /\ \A u \in Table : u = child \/ u = parent
      /\ db \in [Table -> SeedRows]
  BY <1>2, SeedWords DEF SeedsOK
<1>4. /\ load'.tables = load.tables /\ load'.fresh = load.fresh /\ load'.left = load.left
      /\ load'.added = load.added /\ load'.alone = load.alone /\ load'.crossed = load.crossed
      /\ load'.empty = load.empty \ {t} /\ load'.gone = [load.gone EXCEPT ![t] = db[t]]
      /\ load' \in LoadState
  <2>1. db[t] \in SUBSET SeedRow
    BY <1>3 DEF SeedRows
  <2>2. load' = [tables |-> load.tables, fresh |-> load.fresh, empty |-> load.empty \ {t},
                 left |-> load.left, gone |-> [load.gone EXCEPT ![t] = db[t]],
                 added |-> load.added, alone |-> load.alone, crossed |-> load.crossed]
    BY <1>1, <1>2 DEF LoadState
  <2>3. [load.gone EXCEPT ![t] = db[t]] \in [Table -> SUBSET SeedRow]
    BY <1>2, <2>1 DEF LoadState
  <2> QED
    BY <1>2, <2>2, <2>3 DEF LoadState
<1>5. /\ \A u \in Table : load.added[u] = {}
      /\ load.fresh
      /\ load.gone \in [Table -> SUBSET SeedRow]
  BY <1>1, <1>2 DEF LoadShape, LoadState
<1>6. /\ load'.gone[t] = db[t] /\ Seen(load', db, t) = {}
      /\ \A u \in Table : u # t => load'.gone[u] = load.gone[u] /\ Seen(load', db, u) = Seen(load, db, u)
  BY <1>3, <1>4, <1>5 DEF Seen
<1>7. LoadShape(load', db)
  <2>1. \A u \in Table : /\ IsFiniteSet(load'.gone[u]) /\ IsFiniteSet(load'.added[u])
                         /\ Seen(load', db, u) \in SeedRows
    <3> TAKE u \in Table
    <3>1. IsFiniteSet(db[t])
      BY <1>3 DEF SeedRows
    <3>2. {} \in SeedRows
      BY FS_EmptySet DEF SeedRows
    <3> QED
      BY <1>2, <1>4, <1>6, <3>1, <3>2 DEF LoadShape
  <2>2. ASSUME Checked PROVE Refers(SeenIn(load', db))
    <3>1. Refers(SeenIn(load, db))
      BY <1>2, <2>2 DEF LoadShape
    <3>2. \A u \in Table : View(u) = Seen(load, db, u)
      BY <1>1, ViewIsSeen
    <3>3. \A c \in Seen(load, db, child) : c.ref \in Ids(Seen(load, db, parent))
      BY <1>3, <3>1 DEF Refers, SeenIn
    <3>4. CASE t = child
      BY <1>3, <1>6, <3>4 DEF Refers, SeenIn
    <3>5. CASE t = parent
      <4>1. Seen(load, db, child) = {}
        BY <1>1, <1>3, <2>2, <3>2, <3>3, <3>5 DEF DeleteRefused
      <4> QED
        BY <1>3, <1>6, <3>5, <4>1 DEF Refers, SeenIn
    <3> QED
      BY <1>3, <3>4, <3>5
  <2>3. load'.crossed => ~load'.alone
    BY <1>2, <1>4 DEF LoadShape
  <2> QED
    BY <1>4, <1>5, <2>1, <2>2, <2>3 DEF LoadShape
<1>8. ASSUME load.tables = Table, backup # NoBackup PROVE DumpGoesIn(load', db, backup)
  <2>1. DumpGoesIn(load, db, backup)
    BY <1>2, <1>8
  <2>2. \A u \in Table : load.left[u] = backup[u]
    BY <1>1, <2>1 DEF DumpGoesIn
  <2> QED
    BY <1>1, <1>4, <1>6, <2>1, <2>2 DEF DumpGoesIn
<1>9. next_id' \in [Table -> Nat \ {0}]
  BY <1>1, <1>2 DEF SeedsOK
<1> QED
  BY <1>1, <1>2, <1>4, <1>7, <1>8, <1>9, StatementKeepsSeeds

LEMMA JsonIs ==
    ASSUME NEW t, NEW record \in SeedRecord
    PROVE  /\ json_to_sea_value(t, record) \in SeedRecord
           /\ json_to_sea_value(t, record).id = record.id
           /\ json_to_sea_value(t, record).ref = record.ref
<1>1. [record EXCEPT !.exact = FALSE] =
         [id |-> record.id, ref |-> record.ref, exact |-> FALSE]
  <2> SUFFICES ASSUME NEW carried, carried = [record EXCEPT !.exact = FALSE]
               PROVE  carried = [id |-> record.id, ref |-> record.ref, exact |-> FALSE]
    OBVIOUS
  <2> QED
    BY DEF SeedRecord
<1> QED
  BY <1>1 DEF json_to_sea_value, SeedRecord

LEMMA LoadInsertsKeepsSeeds ==
    ASSUME SeedsInv, NEW t \in Table, NEW record \in Left(t), LoadInserts(t, record)
    PROVE  SeedsInv'
<1> DEFINE id == IdOf(t, record)
           row == [json_to_sea_value(t, record) EXCEPT !.id = id]
           known == id \in Ids(View(t))
<1>1. /\ load # NoLoad /\ load.empty = {} /\ record \in load.left[t] /\ ~InsertRefused(t, record)
      /\ load' = [load EXCEPT !.left[t] = @ \ {record},
                              !.added[t] = IF known THEN @ ELSE @ \cup {row}]
      /\ next_id' = IF record.id = NoId THEN [next_id EXCEPT ![t] = id + 1] ELSE next_id
      /\ UNCHANGED <<backend, child, column, db, listed, file, alien, dumping,
                     at_start, backup, excused, last>>
  BY DEF LoadInserts, ToInsert
<1>2. /\ load \in LoadState /\ LoadShape(load, db) /\ dumping = {} /\ SeedsOK /\ LoadUnderway
      /\ load.tables = Table /\ backup # NoBackup =>
            DumpGoesIn(load, db, backup) /\ backup \in [Table -> SeedRows]
  BY <1>1, LoadingIs DEF SeedsInv
<1>3. /\ child \in Table /\ parent \in Table /\ parent # child
      /\ \A u \in Table : u = child \/ u = parent
      /\ \A u \in Table : View(u) = Seen(load, db, u)
  BY <1>1, <1>2, SeedWords, ViewIsSeen
<1>4. record \in SeedRecord /\ id \in Nat \ {0} /\ (record.id # NoId => id = record.id)
  <2>1. record \in SeedRecord
    BY <1>1, <1>2 DEF LoadState
  <2> QED
    BY <1>2, <2>1, GivenIs DEF IdOf, SeedRecord, NoId
<1>5. /\ row \in SeedRow /\ row.id = id /\ row.ref = record.ref
      /\ record.id # NoId => row = json_to_sea_value(t, record)
  <2>1. json_to_sea_value(t, record) \in SeedRecord /\ json_to_sea_value(t, record).ref = record.ref
        /\ json_to_sea_value(t, record).id = record.id
    BY <1>4, JsonIs
  <2> HIDE DEF id
  <2> QED
    BY <1>4, <2>1 DEF SeedRecord, SeedRow
<1> HIDE DEF id, row
<1>6. /\ load'.tables = load.tables /\ load'.fresh = load.fresh /\ load'.empty = {}
      /\ load'.gone = load.gone /\ load'.alone = load.alone /\ load'.crossed = load.crossed
      /\ load'.left = [load.left EXCEPT ![t] = @ \ {record}]
      /\ load'.added = [load.added EXCEPT ![t] = IF known THEN @ ELSE @ \cup {row}]
      /\ load' \in LoadState
  <2> DEFINE left == [load.left EXCEPT ![t] = @ \ {record}]
             added == [load.added EXCEPT ![t] = IF known THEN @ ELSE @ \cup {row}]
  <2>1. left \in [Table -> SUBSET SeedRecord]
    BY <1>2 DEF LoadState
  <2>2. added \in [Table -> SUBSET SeedRow]
    BY <1>2, <1>5 DEF LoadState
  <2>3. load' = [tables |-> load.tables, fresh |-> load.fresh, empty |-> load.empty,
                 left |-> left, gone |-> load.gone,
                 added |-> added, alone |-> load.alone, crossed |-> load.crossed]
    BY <1>1, <1>2 DEF LoadState
  <2> HIDE DEF left, added
  <2>4. load' \in LoadState
    BY <1>2, <2>1, <2>2, <2>3 DEF LoadState
  <2> QED
    BY <1>1, <2>3, <2>4 DEF left, added
<1>7. /\ load.left \in [Table -> SUBSET SeedRecord] /\ load.added \in [Table -> SUBSET SeedRow]
  BY <1>2 DEF LoadState
<1>8. /\ \A u \in Table : u # t => load'.left[u] = load.left[u] /\ load'.added[u] = load.added[u]
      /\ load'.left[t] = load.left[t] \ {record}
      /\ load'.added[t] = IF known THEN load.added[t] ELSE load.added[t] \cup {row}
  BY <1>6, <1>7
<1>9. /\ \A u \in Table : u # t => Seen(load', db, u) = Seen(load, db, u)
      /\ Seen(load', db, t) = IF known THEN Seen(load, db, t) ELSE Seen(load, db, t) \cup {row}
      /\ id \in Ids(Seen(load', db, t))
      /\ \A u \in Table : Ids(Seen(load, db, u)) \subseteq Ids(Seen(load', db, u))
  <2>1. /\ \A u \in Table : u # t => Seen(load', db, u) = Seen(load, db, u)
        /\ Seen(load', db, t) = IF known THEN Seen(load, db, t) ELSE Seen(load, db, t) \cup {row}
    BY <1>6, <1>8 DEF Seen
  <2>2. known <=> id \in Ids(Seen(load, db, t))
    BY <1>3
  <2> HIDE DEF known
  <2> QED
    BY <1>5, <2>1, <2>2 DEF Ids
<1>10. LoadShape(load', db)
  <2>1. \A u \in Table : /\ IsFiniteSet(load'.gone[u]) /\ IsFiniteSet(load'.added[u])
                         /\ Seen(load', db, u) \in SeedRows
    <3> TAKE u \in Table
    <3>1. IsFiniteSet(load.gone[u]) /\ IsFiniteSet(load.added[u]) /\ Seen(load, db, u) \in SeedRows
      BY <1>2 DEF LoadShape
    <3>2. IsFiniteSet(load'.added[u])
      BY <1>8, <3>1, FS_AddElement
    <3>3. CASE u = t /\ ~known
      <4>1. row.id \notin Ids(Seen(load, db, u))
        BY <1>3, <1>5, <3>3
      <4>2. Seen(load, db, u) \cup {row} \in SeedRows
        BY <1>5, <3>1, <4>1, RowAdded
      <4> QED
        BY <1>6, <1>9, <3>1, <3>2, <3>3, <4>2
    <3> QED
      BY <1>6, <1>9, <3>1, <3>2, <3>3
  <2>2. ASSUME Checked PROVE Refers(SeenIn(load', db))
    <3>1. \A c \in Seen(load, db, child) : c.ref \in Ids(Seen(load, db, parent))
      BY <1>2, <1>3, <2>2 DEF LoadShape, Refers, SeenIn
    <3>2. ASSUME NEW c \in Seen(load', db, child) PROVE c.ref \in Ids(Seen(load', db, parent))
      <4>1. CASE c \in Seen(load, db, child)
        BY <1>3, <1>9, <3>1, <4>1
      <4>2. CASE c \notin Seen(load, db, child)
        <5>1. t = child /\ c = row /\ ~known
          BY <1>3, <1>9, <3>2, <4>2
        <5>2. record.ref \in Ids(View(parent))
          BY <1>1, <2>2, <5>1 DEF InsertRefused, id
        <5> QED
          BY <1>3, <1>5, <1>9, <5>1, <5>2
      <4> QED
        BY <4>1, <4>2
    <3> QED
      BY <1>3, <3>2 DEF Refers, SeenIn
  <2>3. /\ load'.crossed => ~load'.alone
        /\ ~load'.fresh => \A u \in Table : load'.gone[u] = {}
    BY <1>2, <1>6 DEF LoadShape
  <2> QED
    BY <1>6, <2>1, <2>2, <2>3 DEF LoadShape
<1>11. ASSUME load.tables = Table, backup # NoBackup PROVE DumpGoesIn(load', db, backup)
  <2>1. DumpGoesIn(load, db, backup) /\ record \in backup[t] /\ backup[t] \in SeedRows
    BY <1>1, <1>2, <1>11 DEF DumpGoesIn
  <2>2. record.id # NoId
    BY <2>1 DEF SeedRows, SeedRow, NoId
  <2>3. row \in Carried(t, backup[t]) /\ id = record.id
    BY <1>4, <1>5, <2>1, <2>2 DEF Carried
  <2>4. \A u \in Table : /\ load'.left[u] \subseteq backup[u]
                         /\ load'.added[u] \subseteq Carried(u, backup[u])
    <3> TAKE u \in Table
    <3>1. load.left[u] \subseteq backup[u] /\ load.added[u] \subseteq Carried(u, backup[u])
      BY <2>1 DEF DumpGoesIn
    <3> QED
      BY <1>8, <2>3, <3>1
  <2>5. ASSUME NEW u \in Table, load.alone \/ (u = parent /\ ~load.crossed), NEW r \in backup[u]
        PROVE  r \in load'.left[u] \/ r.id \in Ids(Seen(load', db, u))
    <3>1. r \in load.left[u] \/ r.id \in Ids(Seen(load, db, u))
      BY <2>1, <2>5 DEF DumpGoesIn
    <3> QED
      BY <1>8, <1>9, <2>3, <3>1
  <2>6. \A u \in Table : load.fresh /\ (load.alone \/ (u = child /\ ~load.crossed)) =>
           db[u] \subseteq load.gone[u]
    BY <1>1, <2>1 DEF DumpGoesIn
  <2> QED
    BY <1>6, <2>4, <2>5, <2>6 DEF DumpGoesIn
<1>12. next_id' \in [Table -> Nat \ {0}]
  BY <1>1, <1>2, <1>4 DEF SeedsOK
<1> QED
  BY <1>1, <1>2, <1>6, <1>10, <1>11, <1>12, StatementKeepsSeeds

\* What a load that commits leaves.
LEMMA LoadCommitsKeepsSeeds ==
    ASSUME SeedsInv, LoadCommits
    PROVE  SeedsInv'
<1>1. /\ load # NoLoad /\ load.empty = {} /\ \A t \in Table : load.left[t] = {}
      /\ db' = [t \in Table |-> View(t)]
      /\ excused' = (excused \/ (~Checked /\ (load.crossed \/ load.tables # Table
                                              \/ backup = NoBackup)))
      /\ load' = NoLoad
      /\ last' = [op |-> Command, ok |-> TRUE]
      /\ UNCHANGED <<backend, child, column, next_id, listed, file, alien, dumping, at_start, backup>>
  BY DEF LoadCommits, Record
<1>2. /\ load \in LoadState /\ LoadShape(load, db) /\ dumping = {} /\ at_start = NoBackup
      /\ load.tables = Table /\ backup # NoBackup =>
            DumpGoesIn(load, db, backup) /\ backup \in [Table -> SeedRows]
      /\ SeedsOK /\ ReferencesHold /\ FilesAreBackup
  BY <1>1, LoadingIs DEF SeedsInv
<1>3. /\ child \in Table /\ parent \in Table /\ parent # child
      /\ \A t \in Table : View(t) = Seen(load, db, t)
      /\ \A t \in Table : db'[t] = Seen(load, db, t)
      /\ db' \in [Table -> SeedRows]
  <2>1. \A t \in Table : View(t) = Seen(load, db, t) /\ Seen(load, db, t) \in SeedRows
    BY <1>1, <1>2, ViewIsSeen DEF LoadShape
  <2> QED
    BY <1>1, <1>2, <2>1, SeedWords
<1>4. SeedsOK'
  BY <1>1, <1>2, <1>3 DEF SeedsOK
<1>5. ASSUME ~excused' PROVE Refers(db')
  <2>1. ~excused /\ Refers(db)
    BY <1>1, <1>2, <1>5 DEF ReferencesHold
  <2>2. CASE Checked
    <3>1. Refers(SeenIn(load, db))
      BY <1>2, <2>2 DEF LoadShape
    <3> QED
      BY <1>3, <3>1 DEF Refers, SeenIn
  <2>3. CASE ~Checked
    <3>1. ~load.crossed /\ load.tables = Table /\ backup # NoBackup
      BY <1>1, <1>5, <2>3
    <3>2. DumpGoesIn(load, db, backup) /\ Refers(backup) /\ backup \in [Table -> SeedRows]
      BY <1>2, <2>1, <3>1 DEF FilesAreBackup
    <3>3. \A p \in backup[parent] : p.id \in Ids(Seen(load, db, parent))
      BY <1>1, <1>3, <3>1, <3>2 DEF DumpGoesIn
    <3>4. ASSUME NEW c \in Seen(load, db, child) PROVE c.ref \in Ids(Seen(load, db, parent))
      <4>1. CASE c \in load.added[child]
        <5>1. c \in Carried(child, backup[child])
          BY <1>3, <3>2, <4>1 DEF DumpGoesIn
        <5>2. PICK r \in backup[child] : c = json_to_sea_value(child, r)
          BY <5>1 DEF Carried
        <5>3. r \in SeedRecord
          BY <1>3, <3>2, <5>2 DEF SeedRows, SeedRow, SeedRecord
        <5>4. c.ref = r.ref
          BY <5>2, <5>3, JsonIs
        <5>5. PICK p \in backup[parent] : p.id = c.ref
          BY <3>2, <5>2, <5>4 DEF Refers, Ids
        <5> QED
          BY <3>3, <5>5
      <4>2. CASE c \in db[child] \ load.gone[child]
        <5>1. ~load.fresh
          BY <1>1, <1>3, <3>1, <3>2, <4>2 DEF DumpGoesIn
        <5>2. load.gone[parent] = {}
          BY <1>2, <1>3, <5>1 DEF LoadShape
        <5>3. c.ref \in Ids(db[parent])
          BY <2>1, <4>2 DEF Refers
        <5> QED
          BY <5>2, <5>3 DEF Seen, Ids
      <4> QED
        BY <4>1, <4>2 DEF Seen
    <3> QED
      BY <1>3, <3>4 DEF Refers
  <2> QED
    BY <2>2, <2>3
<1>6. ReferencesHold'
  <2>1. excused' => ~Checked
    BY <1>1, <1>2 DEF ReferencesHold
  <2> QED
    BY <1>1, <1>5, <2>1, SameWords
<1>7. LoadUnderway' /\ WholeLoad' /\ DumpUnderway'
  BY <1>1, <1>2 DEF LoadUnderway, WholeLoad, DumpUnderway
<1>8. FilesAreBackup'
  <2>1. excused => excused'
    BY <1>1
  <2> QED
    BY <1>1, <1>2, <2>1, SameFiles
<1>9. CommandEnded'
  <2>1. ASSUME Command = "restore", backup # NoBackup
        PROVE  db' = [t \in Table |-> Carried(t, backup[t])]
    <3>1. load.tables = Table /\ load.alone /\ load.fresh
      BY <2>1 DEF Command
    <3>2. DumpGoesIn(load, db, backup) /\ backup \in [Table -> SeedRows]
      BY <1>2, <2>1, <3>1
    <3>3. ASSUME NEW t \in Table PROVE db'[t] = Carried(t, backup[t])
      <4>1. /\ load.added[t] \subseteq Carried(t, backup[t])
            /\ db[t] \subseteq load.gone[t]
            /\ \A r \in backup[t] : r.id \in Ids(Seen(load, db, t))
        BY <1>1, <3>1, <3>2 DEF DumpGoesIn
      <4>2. Seen(load, db, t) = load.added[t]
        BY <4>1 DEF Seen
      <4>3. \A r \in backup[t] : r \in SeedRecord
        BY <3>2 DEF SeedRows, SeedRow, SeedRecord
      <4>4. ASSUME NEW r \in backup[t] PROVE json_to_sea_value(t, r) \in load.added[t]
        <5>1. PICK s \in load.added[t] : s.id = r.id
          BY <4>1, <4>2 DEF Ids
        <5>2. PICK q \in backup[t] : s = json_to_sea_value(t, q)
          BY <4>1, <5>1 DEF Carried
        <5>3. q.id = r.id
          BY <4>3, <5>1, <5>2, JsonIs
        <5>4. q = r
          BY <3>2, <5>3 DEF SeedRows
        <5> QED
          BY <5>1, <5>2, <5>4
      <4>5. Carried(t, backup[t]) \subseteq load.added[t]
        BY <4>4 DEF Carried
      <4> QED
        BY <1>3, <4>1, <4>2, <4>5
    <3> QED
      BY <1>1, <1>3, <3>3
  <2>2. last'.op = Command /\ last'.ok /\ Command # "insert"
    BY <1>1 DEF Command
  <2> QED
    BY <1>1, <2>1, <2>2 DEF CommandEnded, Carried, json_to_sea_value
<1> QED
  BY <1>4, <1>6, <1>7, <1>8, <1>9 DEF SeedsInv

\* Why a restore that nobody disturbs is refused.
LEMMA RestoreRefused ==
    ASSUME SeedsInv, LoadRefused, Command = "restore", backup # NoBackup
    PROVE  (Checked /\ child = 1) \/ alien \/ \E t \in Table : column[t] = "text"
<1> SUFFICES ASSUME ~alien, \A t \in Table : column[t] # "text"
             PROVE  Checked /\ child = 1
  OBVIOUS
<1>1. load # NoLoad
  BY DEF LoadRefused, ToEmpty, ToInsert
<1>2. /\ load \in LoadState /\ LoadShape(load, db) /\ SeedsOK /\ ReferencesHold /\ FilesAreBackup
      /\ load.tables = Table /\ load.alone /\ load.fresh
      /\ DumpGoesIn(load, db, backup)
  <2>1. load.tables = Table /\ load.alone /\ load.fresh
    BY DEF Command
  <2> QED
    BY <1>1, <2>1, LoadingIs DEF SeedsInv
<1>3. /\ child \in Table /\ parent \in Table /\ Table = {1, 2} /\ parent = 3 - child
      /\ \A t \in Table : /\ View(t) = Seen(load, db, t)
                          /\ Left(t) = load.left[t]
  BY <1>1, <1>2, SeedWords, ViewIsSeen
<1>4. ~Unusable
  BY DEF Unusable
<1>5. CASE \E t \in Table : ToEmpty(t) /\ DeleteRefused(t)
  <2>1. PICK t \in Table : ToEmpty(t) /\ DeleteRefused(t)
    BY <1>5
  <2>2. /\ Checked /\ t = parent
        /\ \E c \in View(child) : c.ref \in Ids(View(t))
        /\ t \in load.empty /\ \A u \in load.empty : u <= t
    BY <2>1 DEF ToEmpty, DeleteRefused
  <2>3. ASSUME child = 2 PROVE FALSE
    <3>1. parent = 1 /\ child \notin load.empty
      BY <1>3, <2>2, <2>3
    <3>2. db[child] \subseteq load.gone[child]
      BY <1>2, <1>3, <3>1 DEF DumpGoesIn
    <3>3. load.added[child] = {}
      BY <1>2, <1>3, <2>2 DEF LoadShape
    <3>4. View(child) = {}
      BY <1>3, <3>2, <3>3 DEF Seen
    <3> QED
      BY <2>2, <3>4
  <2> QED
    BY <1>3, <2>2, <2>3
<1>6. CASE \E t \in Table : \E record \in Left(t) : ToInsert(t, record) /\ InsertRefused(t, record)
  <2>1. PICK t \in Table : \E record \in Left(t) : ToInsert(t, record) /\ InsertRefused(t, record)
    BY <1>6
  <2>2. PICK record \in Left(t) : ToInsert(t, record) /\ InsertRefused(t, record)
    BY <2>1
  <2>3. /\ record \in load.left[t] /\ load.empty = {} /\ \A u \in Table : u < t => load.left[u] = {}
        /\ Checked /\ t = child /\ record.ref \notin Ids(View(parent))
    BY <2>2 DEF ToInsert, InsertRefused
  <2>4. ASSUME child = 2 PROVE FALSE
    <3>1. parent = 1 /\ load.left[parent] = {}
      BY <1>3, <2>3, <2>4
    <3>2. \A p \in backup[parent] : p.id \in Ids(Seen(load, db, parent))
      BY <1>2, <1>3, <3>1 DEF DumpGoesIn
    <3>3. Refers(backup)
      BY <1>2, <2>3 DEF ReferencesHold, FilesAreBackup
    <3>4. record \in backup[child]
      BY <1>2, <1>3, <2>3 DEF DumpGoesIn
    <3>5. PICK p \in backup[parent] : p.id = record.ref
      BY <3>3, <3>4 DEF Refers, Ids
    <3> QED
      BY <1>3, <2>3, <3>2, <3>5
  <2> QED
    BY <1>3, <2>3, <2>4
<1> QED
  BY <1>4, <1>5, <1>6 DEF LoadRefused

LEMMA RollbackKeepsSeeds ==
    ASSUME SeedsInv, LoadRefused \/ LoadInterrupted
    PROVE  SeedsInv'
<1>1. /\ load # NoLoad /\ load' = NoLoad /\ UNCHANGED db
      /\ ~last'.ok
      /\ last'.op = "restore" => LoadRefused /\ Command = "restore"
      /\ last'.op # "insert"
      /\ UNCHANGED <<backend, child, column, next_id, listed, file, alien, dumping,
                     at_start, backup, excused>>
  <2>1. CASE LoadRefused
    <3>1. load # NoLoad
      BY <2>1 DEF LoadRefused, ToEmpty, ToInsert
    <3>2. last' = [op |-> Command, ok |-> FALSE] /\ Command # "insert"
      BY <2>1 DEF LoadRefused, Record, Command
    <3> QED
      BY <2>1, <3>1, <3>2 DEF LoadRefused, RolledBack
  <2>2. CASE LoadInterrupted /\ ~LoadRefused
    BY <2>2 DEF LoadInterrupted, RolledBack, Record
  <2> QED
    BY <2>1, <2>2
<1>2. /\ SeedsOK /\ ReferencesHold /\ DumpUnderway /\ FilesAreBackup
  BY DEF SeedsInv
<1>3. SeedsOK' /\ DumpUnderway' /\ LoadUnderway' /\ WholeLoad'
  BY <1>1, <1>2 DEF SeedsOK, DumpUnderway, LoadUnderway, WholeLoad
<1>4. ReferencesHold' /\ FilesAreBackup'
  BY <1>1, <1>2, SameWords, SameFiles DEF ReferencesHold
<1>5. CommandEnded'
  <2>1. last'.op = "restore" /\ backup' # NoBackup =>
           (Checked /\ child = 1) \/ alien \/ \E t \in Table : column[t] = "text"
    BY <1>1, RestoreRefused
  <2> QED
    BY <1>1, <2>1 DEF CommandEnded, Checked
<1> QED
  BY <1>3, <1>4, <1>5 DEF SeedsInv

-----------------------------------------------------------------------------
(* dump, generate, and files that are removed *)

LEMMA StartDumpKeepsSeeds ==
    ASSUME SeedsInv, NEW tables \in {Table, {1}, {2}}, StartDump(tables)
    PROVE  SeedsInv'
<1>1. /\ load = NoLoad /\ dumping' = tables
      /\ at_start' = IF tables = Table THEN db ELSE NoBackup
      /\ last' = [op |-> "dump", ok |-> TRUE]
      /\ UNCHANGED <<backend, child, column, db, next_id, listed, file, alien, load, backup, excused>>
  BY DEF StartDump, Record
<1>2. SeedsOK /\ ReferencesHold /\ FilesAreBackup
  BY DEF SeedsInv
<1>3. SeedsOK' /\ DumpUnderway'
  BY <1>1, <1>2 DEF SeedsOK, DumpUnderway, Table
<1>4. LoadUnderway' /\ WholeLoad' /\ CommandEnded'
  BY <1>1 DEF LoadUnderway, WholeLoad, CommandEnded
<1>5. ReferencesHold' /\ FilesAreBackup'
  BY <1>1, <1>2, SameWords, SameFiles DEF ReferencesHold
<1> QED
  BY <1>3, <1>4, <1>5 DEF SeedsInv

LEMMA DumpTableKeepsSeeds ==
    ASSUME SeedsInv, NEW t \in Table, DumpTable(t)
    PROVE  SeedsInv'
<1>1. /\ t \in dumping /\ dumping' = dumping \ {t}
      /\ listed' = listed \cup {t}
      /\ file' = [file EXCEPT ![t] = db[t]]
      /\ backup' = IF dumping = {t} THEN at_start ELSE NoBackup
      /\ at_start' = IF dumping = {t} THEN NoBackup ELSE at_start
      /\ last' = [op |-> "dump", ok |-> TRUE]
      /\ UNCHANGED <<backend, child, column, db, next_id, alien, load, excused>>
  BY DEF DumpTable, Record
<1>2. SeedsOK /\ LoadUnderway /\ ReferencesHold /\ DumpUnderway /\ FilesAreBackup
  BY DEF SeedsInv
<1>3. load = NoLoad
  BY <1>1, <1>2 DEF LoadUnderway
<1>4. db \in [Table -> SeedRows] /\ file \in [Table -> SUBSET SeedRecord] /\ dumping \subseteq Table
  BY <1>2 DEF SeedsOK
<1>5. \A u \in Table : file'[u] = IF u = t THEN db[t] ELSE file[u]
  BY <1>1, <1>4
<1>6. SeedsOK'
  <2>1. db[t] \in SUBSET SeedRecord
    BY <1>4 DEF SeedRows, SeedRow, SeedRecord
  <2>2. file' \in [Table -> SUBSET SeedRecord]
    BY <1>1, <1>4, <2>1
  <2> QED
    BY <1>1, <1>2, <2>2 DEF SeedsOK
<1>7. LoadUnderway' /\ WholeLoad' /\ CommandEnded'
  BY <1>1, <1>3 DEF LoadUnderway, WholeLoad, CommandEnded
<1>8. ReferencesHold'
  BY <1>1, <1>2, SameWords DEF ReferencesHold
<1>9. DumpUnderway'
  BY <1>1, <1>2, <1>4, <1>5 DEF DumpUnderway
<1>10. FilesAreBackup'
  <2> SUFFICES ASSUME backup' # NoBackup
               PROVE  /\ backup' \in [Table -> SeedRows]
                      /\ listed' = Table /\ \A u \in Table : file'[u] = backup'[u]
                      /\ ~excused => Refers(backup')
    <3>1. parent' = parent
      BY <1>1 DEF parent
    <3> QED
      BY <1>1, <3>1 DEF FilesAreBackup, Refers
  <2>1. dumping = {t} /\ backup' = at_start /\ at_start # NoBackup
    BY <1>1
  <2>2. at_start = db /\ \A u \in Table \ {t} : u \in listed /\ file[u] = db[u]
    BY <1>2, <2>1 DEF DumpUnderway
  <2>3. listed' = Table
    BY <1>1, <1>2, <2>2 DEF SeedsOK
  <2> QED
    BY <1>2, <1>4, <1>5, <2>1, <2>2, <2>3 DEF ReferencesHold
<1> QED
  BY <1>6, <1>7, <1>8, <1>9, <1>10 DEF SeedsInv

LEMMA FilesKeepSeeds ==
    ASSUME SeedsInv, \/ DumpFails
                     \/ \E t \in Table, fits \in BOOLEAN : Generate(t, fits)
                     \/ RemoveAlien
    PROVE  SeedsInv'
<1>1. SeedsOK /\ LoadUnderway /\ WholeLoad /\ ReferencesHold /\ DumpUnderway /\ FilesAreBackup
  BY DEF SeedsInv
<1>2. CASE DumpFails
  <2>1. /\ dumping # {} /\ dumping' = {} /\ at_start' = NoBackup
        /\ last' = [op |-> "dump", ok |-> FALSE]
        /\ UNCHANGED <<backend, child, column, db, next_id, listed, file, alien, load, backup, excused>>
    BY <1>2 DEF DumpFails, Record
  <2>2. load = NoLoad
    BY <1>1, <2>1 DEF LoadUnderway
  <2>3. SeedsOK' /\ LoadUnderway' /\ WholeLoad' /\ DumpUnderway' /\ CommandEnded'
    BY <1>1, <2>1, <2>2 DEF SeedsOK, LoadUnderway, WholeLoad, DumpUnderway, CommandEnded
  <2>4. ReferencesHold' /\ FilesAreBackup'
    BY <1>1, <2>1, SameWords, SameFiles DEF ReferencesHold
  <2> QED
    BY <2>3, <2>4 DEF SeedsInv
<1>3. ASSUME NEW t \in Table, NEW fits \in BOOLEAN, Generate(t, fits) PROVE SeedsInv'
  <2>1. /\ dumping = {} /\ load = NoLoad /\ backup' = NoBackup
        /\ last' = [op |-> "generate", ok |-> TRUE]
        /\ UNCHANGED <<backend, child, column, db, next_id, load, dumping, at_start, excused>>
        /\ \/ /\ listed' = listed \cup {t}
              /\ file' = [file EXCEPT ![t] = {[id |-> NoId, ref |-> 0, exact |-> TRUE]}]
           \/ UNCHANGED <<listed, file>>
    BY <1>3 DEF Generate, Record
  <2>2. [id |-> NoId, ref |-> 0, exact |-> TRUE] \in SeedRecord
    BY DEF SeedRecord, NoId
  <2>3. SeedsOK'
    BY <1>1, <2>1, <2>2 DEF SeedsOK
  <2>4. ReferencesHold'
    BY <1>1, <2>1, SameWords DEF ReferencesHold
  <2>5. LoadUnderway' /\ WholeLoad' /\ DumpUnderway' /\ FilesAreBackup' /\ CommandEnded'
    BY <1>1, <2>1 DEF LoadUnderway, WholeLoad, DumpUnderway, FilesAreBackup, CommandEnded
  <2> QED
    BY <2>3, <2>4, <2>5 DEF SeedsInv
<1>4. CASE RemoveAlien
  <2>1. /\ dumping = {} /\ load = NoLoad
        /\ last' = [op |-> "remove", ok |-> TRUE]
        /\ UNCHANGED <<backend, child, column, db, next_id, listed, file, load, dumping,
                       at_start, backup, excused>>
    BY <1>4 DEF RemoveAlien, Record
  <2>2. SeedsOK' /\ LoadUnderway' /\ WholeLoad' /\ DumpUnderway' /\ CommandEnded'
    BY <1>1, <2>1 DEF SeedsOK, LoadUnderway, WholeLoad, DumpUnderway, CommandEnded
  <2>3. ReferencesHold' /\ FilesAreBackup'
    BY <1>1, <2>1, SameWords, SameFiles DEF ReferencesHold
  <2> QED
    BY <2>2, <2>3 DEF SeedsInv
<1> QED
  BY <1>2, <1>3, <1>4

LEMMA SeedsStep == SeedsInv /\ [SeedNext]_seedVars => SeedsInv'
<1> SUFFICES ASSUME SeedsInv, [SeedNext]_seedVars PROVE SeedsInv'
  OBVIOUS
<1>1. CASE UNCHANGED seedVars
  <2>1. SeedsOK /\ LoadUnderway /\ WholeLoad
    BY DEF SeedsInv
  <2>2. next_id' \in [Table -> Nat \ {0}]
    BY <1>1, <2>1 DEF SeedsOK, seedVars
  <2>3. /\ load' # NoLoad => dumping = {} /\ LoadShape(load', db)
        /\ load' # NoLoad /\ load'.tables = Table /\ backup # NoBackup => DumpGoesIn(load', db, backup)
        /\ UNCHANGED <<backend, child, column, db, listed, file, alien, dumping,
                       at_start, backup, excused, last>>
    BY <1>1, <2>1 DEF LoadUnderway, WholeLoad, seedVars
  <2> QED
    BY <2>2, <2>3, StatementKeepsSeeds
<1>2. CASE SeedNext
  <2>1. ASSUME NEW t \in Table, NEW ref \in 0 .. MaxParent + 1, InsertRow(t, ref) PROVE SeedsInv'
    BY <2>1, InsertKeepsSeeds
  <2>2. ASSUME NEW t \in Table, NEW r \in db[t], DeleteRow(t, r) PROVE SeedsInv'
    BY <2>2, DeleteKeepsSeeds
  <2>3. ASSUME NEW t \in Table, LoadEmpties(t) PROVE SeedsInv'
    BY <2>3, LoadEmptiesKeepsSeeds
  <2>4. ASSUME NEW t \in Table, NEW record \in Left(t), LoadInserts(t, record) PROVE SeedsInv'
    BY <2>4, LoadInsertsKeepsSeeds
  <2>5. ASSUME NEW t \in Table, DumpTable(t) PROVE SeedsInv'
    BY <2>5, DumpTableKeepsSeeds
  <2>6. ASSUME NEW tables \in {Table, {1}, {2}}, StartDump(tables) PROVE SeedsInv'
    BY <2>6, StartDumpKeepsSeeds
  <2>7. ASSUME NEW tables \in {Table, {1}, {2}}, NEW fresh \in BOOLEAN, LoadBegins(tables, fresh)
        PROVE  SeedsInv'
    <3>1. tables \in SUBSET Table
      BY DEF Table
    <3> QED
      BY <2>7, <3>1, LoadBeginsKeepsSeeds
  <2> QED
    BY <1>2, <2>1, <2>2, <2>3, <2>4, <2>5, <2>6, <2>7,
       LoadCommitsKeepsSeeds, RollbackKeepsSeeds, FilesKeepSeeds DEF SeedNext
<1> QED
  BY <1>1, <1>2

\* The seed commands keep the data whole, whatever ids the rows have and whatever the
\* application does between two statements of a load (seed.rs:32-75, 264-380).
THEOREM SeedsAreKept == SeedSpec => []SeedsKeepData
<1>1. SeedsInv => SeedsKeepData
  BY DEF SeedsInv, ReferencesHold, CommandEnded, SeedsKeepData, Carried
<1> QED
  BY <1>1, SeedsStart, SeedsStep, PTL DEF SeedSpec

=============================================================================
