------------------------- MODULE RemoteCodecsProofs -------------------------
(***************************************************************************)
(* Proofs about the remote codecs, for any payloads, contexts, sizes and   *)
(* threshold: what comes back unharmed, and whom an encode request names.  *)
(***************************************************************************)
EXTENDS RemoteCodecs, NumberLemmas

(***************************************************************************)
(* Payloads of the application and what a conversion does to them.         *)
(***************************************************************************)
WellFormed(p) ==
    /\ p = [metadata |-> p.metadata, data |-> p.data]
    /\ p.metadata = [k \in DOMAIN p.metadata |-> p.metadata[k]]
    /\ \E a \in App : p.data = <<"app", a>>
    /\ "encoding" \in DOMAIN p.metadata
    /\ p.metadata["encoding"] = <<"text", "json/plain">>
    /\ DOMAIN p.metadata \subseteq ContextKeys \cup {"encoding"}
    /\ \A k \in DOMAIN p.metadata :
           p.metadata[k] \in Written /\ p.metadata[k][1] = "text"

LEMMA OriginalIsWellFormed ==
    ASSUME NEW p \in Original
    PROVE  WellFormed(p)
<1> DEFINE json == <<"text", "json/plain">>
<1>1. ASSUME NEW a \in App PROVE WellFormed(Bare(a))
  <2>1. Bare(a).metadata = [k \in {"encoding"} |-> json] /\ json \in Written
    BY DEF Bare, Written
  <2> QED
    BY <2>1 DEF WellFormed, Bare
<1>2. ASSUME NEW c \in Injected, NEW a \in App
      PROVE  WellFormed(InjectContext(c, Bare(a)))
  <2> DEFINE m == [k \in ContextKeys \cup {"encoding"} |->
                      IF k \in ContextKeys THEN c[k] ELSE json]
             x == InjectContext(c, Bare(a))
  <2>1. DOMAIN c = ContextKeys /\ "encoding" \notin ContextKeys
    BY RemoteAssumption DEF ContextKeys
  <2>2. x = [metadata |-> m, data |-> <<"app", a>>]
    BY <2>1 DEF InjectContext, Bare
  <2>3. \A k \in DOMAIN m : m[k] \in Written /\ m[k][1] = "text"
    BY <2>1, RemoteAssumption DEF Written
  <2>4. m["encoding"] = json /\ DOMAIN m = ContextKeys \cup {"encoding"}
    BY <2>1
  <2> HIDE DEF m, x
  <2>5. m = [k \in DOMAIN m |-> m[k]]
    BY DEF m
  <2> QED
    BY <2>2, <2>3, <2>4, <2>5 DEF WellFormed, x
<1> QED
  BY <1>1, <1>2 DEF Original

LEMMA BatchIsWellFormed ==
    ASSUME NEW payloads \in Batches
    PROVE  /\ Len(payloads) \in 1..MaxBatch
           /\ DOMAIN payloads = 1..Len(payloads)
           /\ payloads = [i \in 1..Len(payloads) |-> payloads[i]]
           /\ \A i \in DOMAIN payloads : WellFormed(payloads[i])
<1>1. PICK n \in 1..MaxBatch : payloads \in [1..n -> Original]
  BY DEF Batches
<1>2. n \in Nat /\ Len(payloads) = n
  BY <1>1, RemoteAssumption
<1> QED
  BY <1>1, <1>2, OriginalIsWellFormed

LEMMA JSONLosesNothing ==
    ASSUME NEW p, WellFormed(p)
    PROVE  Convert(Convert(p, Base64), FromBase64) = p
<1>1. \A x : FromBase64(Base64(x)) = x
  BY DEF FromBase64, Base64
<1> DEFINE q == Convert(p, Base64)
<1>2. /\ q.data = Base64(p.data)
      /\ DOMAIN q.metadata = DOMAIN p.metadata
      /\ \A k \in DOMAIN p.metadata : q.metadata[k] = Base64(p.metadata[k])
  BY DEF Convert
<1>3. Convert(q, FromBase64) =
          [metadata |-> [k \in DOMAIN p.metadata |-> p.metadata[k]],
           data |-> p.data]
  <2> HIDE DEF q
  <2> QED
    BY <1>1, <1>2 DEF Convert
<1> QED
  BY <1>3 DEF WellFormed

(***************************************************************************)
(* Encoding and decoding.                                                  *)
(***************************************************************************)
Small(p) == SizeOf(Convert(p, Base64)) < Threshold

Unharmed(items, payloads) ==
    /\ DOMAIN items = DOMAIN payloads
    /\ \A i \in DOMAIN payloads : Small(payloads[i]) => items[i] = payloads[i]

(* The base64 text of some bytes is no shorter than they are.              *)
LEMMA Base64IsLonger ==
    ASSUME NEW n \in Nat
    PROVE  4 * ((n + 2) \div 3) \in Nat /\ 4 * ((n + 2) \div 3) >= n
<1> DEFINE q == (n + 2) \div 3
<1>1. q \in Nat /\ n + 2 < 3 * (q + 1)
  OBVIOUS
<1> HIDE DEF q
<1>2. 4 * q \in Nat /\ 4 * q >= n
  BY <1>1
<1> QED
  BY <1>2 DEF q

LEMMA LengthGrows ==
    ASSUME NEW b \in Written, b[1] # "base64"
    PROVE  /\ LengthOf(b) \in Nat /\ LengthOf(Base64(b)) \in Nat
           /\ LengthOf(Base64(b)) >= LengthOf(b)
<1>1. Length[b] \in Nat
  BY RemoteAssumption
<1>2. LengthOf(b) = Length[b] /\ LengthOf(Base64(b)) = 4 * ((Length[b] + 2) \div 3)
  BY DEF LengthOf, Base64
<1> QED
  BY <1>1, <1>2, Base64IsLonger

LEMMA EntryGrows ==
    ASSUME NEW p, WellFormed(p), NEW k \in ContextKeys \cup {"encoding"}
    PROVE  /\ EntrySize(p.metadata, k) \in Nat
           /\ EntrySize(Convert(p, Base64).metadata, k) \in Nat
           /\ EntrySize(Convert(p, Base64).metadata, k) >= EntrySize(p.metadata, k)
<1> DEFINE m == Convert(p, Base64).metadata
<1>1. /\ DOMAIN m = DOMAIN p.metadata
      /\ \A j \in DOMAIN p.metadata : m[j] = Base64(p.metadata[j])
  BY DEF Convert
<1> HIDE DEF m
<1>2. KeyLength[k] \in Nat
  BY DEF KeyLength, ContextKeys
<1>3. CASE k \in DOMAIN p.metadata
  <2> DEFINE v == p.metadata[k]
  <2>1. v \in Written /\ v[1] # "base64"
    BY <1>3 DEF WellFormed
  <2>2. /\ LengthOf(v) \in Nat /\ LengthOf(Base64(v)) \in Nat
        /\ LengthOf(Base64(v)) >= LengthOf(v)
    BY <2>1, LengthGrows
  <2>3. /\ EntrySize(p.metadata, k) = KeyLength[k] + LengthOf(v)
        /\ EntrySize(m, k) = KeyLength[k] + LengthOf(Base64(v))
    BY <1>1, <1>3 DEF EntrySize
  <2> QED
    BY <1>2, <2>2, <2>3 DEF m
<1>4. CASE k \notin DOMAIN p.metadata
  BY <1>1, <1>4 DEF EntrySize, m
<1> QED
  BY <1>3, <1>4

(* The JSON form of a payload is no smaller than the payload.              *)
LEMMA SizeOfSmall ==
    ASSUME NEW p, WellFormed(p), Small(p)
    PROVE  /\ ~ (SizeOf(p) >= Threshold)
           /\ ~ (SizeOf(Convert(p, Base64)) >= Threshold)
<1> DEFINE q == Convert(p, Base64)
           E(r, k) == EntrySize(r.metadata, k)
           At(r) == LengthOf(r.data)
<1>1. At(p) \in Nat /\ At(q) \in Nat /\ At(q) >= At(p)
  <2>1. p.data \in Written /\ p.data[1] # "base64" /\ q.data = Base64(p.data)
    BY DEF WellFormed, Written, Convert
  <2> QED
    BY <2>1, LengthGrows
<1>2. \A k \in ContextKeys \cup {"encoding"} :
          E(p, k) \in Nat /\ E(q, k) \in Nat /\ E(q, k) >= E(p, k)
  BY EntryGrows
<1>3. \A r \in {p, q} :
          SizeOf(r) = At(r) + E(r, "encoding") + E(r, "temporal-workflow-id")
                      + E(r, "temporal-run-id") + E(r, "temporal-namespace")
  BY DEF SizeOf
<1>4. SizeOf(q) < Threshold /\ Threshold \in Nat
  BY RemoteAssumption DEF Small
<1>5. {"encoding", "temporal-workflow-id", "temporal-run-id",
       "temporal-namespace"} \subseteq ContextKeys \cup {"encoding"}
  BY DEF ContextKeys
<1> HIDE DEF q, E, At
<1>6. SizeOf(p) \in Nat /\ SizeOf(q) \in Nat /\ SizeOf(q) >= SizeOf(p)
  BY <1>1, <1>2, <1>3, <1>5
<1> QED
  BY <1>4, <1>6 DEF q

LEMMA PlainIsNoReference ==
    ASSUME NEW p, WellFormed(p)
    PROVE  ~ isS3Reference(p) /\ ~ isS3Reference(Convert(p, Base64))
<1>1. Convert(p, Base64).metadata["encoding"] = <<"base64", <<"text", "json/plain">>>>
  BY DEF Convert, Base64, WellFormed
<1> QED
  BY <1>1 DEF isS3Reference, WellFormed

LEMMA GoRoundTrip ==
    ASSUME NEW payloads \in Batches, NEW context
    PROVE  Decoded(Encoded(context, payloads)) = payloads
<1> DEFINE items == Encoded(context, payloads)
<1>1. DOMAIN items = DOMAIN payloads
  BY DEF Encoded
<1>2. ASSUME NEW i \in DOMAIN payloads
      PROVE  (IF isS3Reference(items[i]) THEN items[i].data[2].content
                                         ELSE items[i]) = payloads[i]
  <2>1. CASE SizeOf(payloads[i]) >= Threshold
    <3>1. items[i] = Reference([context |-> context, content |-> payloads[i]])
      BY <2>1 DEF Encoded
    <3> QED
      BY <3>1 DEF Reference, isS3Reference
  <2>2. CASE ~ (SizeOf(payloads[i]) >= Threshold)
    <3>1. items[i] = payloads[i]
      BY <2>2 DEF Encoded
    <3> QED
      BY <3>1, BatchIsWellFormed, PlainIsNoReference
  <2> QED
    BY <2>1, <2>2
<1>3. Decoded(items) = [i \in DOMAIN payloads |-> payloads[i]]
  <2> HIDE DEF items
  <2> QED
    BY <1>1, <1>2 DEF Decoded
<1> QED
  BY <1>3, BatchIsWellFormed

LEMMA GoEncodeSparesSmall ==
    ASSUME NEW payloads \in Batches, NEW context
    PROVE  Unharmed(Encoded(context, payloads), payloads)
BY BatchIsWellFormed, SizeOfSmall DEF Unharmed, Encoded

LEMMA TypeScriptEncodeSparesSmall ==
    ASSUME NEW payloads \in Batches, NEW context
    PROVE  Unharmed(FromJSON(payloadsToJSON(
                        Encoded(context, jsonToPayloads(ToJSON(payloads))))),
                    payloads)
<1> DEFINE sent == ToJSON(payloads)
           items == Encoded(context, sent)
<1>1. /\ DOMAIN sent = DOMAIN payloads
      /\ \A i \in DOMAIN payloads : sent[i] = Convert(payloads[i], Base64)
  BY DEF ToJSON
<1>2. /\ DOMAIN items = DOMAIN payloads
      /\ \A i \in DOMAIN payloads :
             ~ (SizeOf(sent[i]) >= Threshold) => items[i] = sent[i]
  BY <1>1 DEF Encoded
<1>3. /\ DOMAIN FromJSON(items) = DOMAIN payloads
      /\ \A i \in DOMAIN payloads :
             FromJSON(items)[i] = Convert(items[i], FromBase64)
  BY <1>2 DEF FromJSON
<1>4. ASSUME NEW i \in DOMAIN payloads, Small(payloads[i])
      PROVE  FromJSON(items)[i] = payloads[i]
  <2>1. WellFormed(payloads[i])
    BY BatchIsWellFormed
  <2>2. items[i] = Convert(payloads[i], Base64)
    BY <1>1, <1>2, <1>4, <2>1, SizeOfSmall
  <2> QED
    BY <1>3, <2>1, <2>2, JSONLosesNothing
<1> QED
  BY <1>3, <1>4 DEF Unharmed, payloadsToJSON, jsonToPayloads

LEMMA GoDecodeSparesSmall ==
    ASSUME NEW payloads \in Batches, NEW items, Unharmed(items, payloads)
    PROVE  Unharmed(Decoded(items), payloads)
BY BatchIsWellFormed, PlainIsNoReference DEF Unharmed, Decoded

LEMMA TypeScriptDecodeSparesSmall ==
    ASSUME NEW payloads \in Batches, NEW items, Unharmed(items, payloads)
    PROVE  Unharmed(FromJSON(payloadsToJSON(
                        Decoded(jsonToPayloads(ToJSON(items))))), payloads)
<1> DEFINE sent == ToJSON(items)
           answer == Decoded(sent)
<1>1. /\ DOMAIN sent = DOMAIN payloads
      /\ \A i \in DOMAIN payloads : sent[i] = Convert(items[i], Base64)
  BY DEF ToJSON, Unharmed
<1>2. /\ DOMAIN answer = DOMAIN payloads
      /\ \A i \in DOMAIN payloads :
             ~ isS3Reference(sent[i]) => answer[i] = sent[i]
  BY <1>1 DEF Decoded
<1>3. /\ DOMAIN FromJSON(answer) = DOMAIN payloads
      /\ \A i \in DOMAIN payloads :
             FromJSON(answer)[i] = Convert(answer[i], FromBase64)
  BY <1>2 DEF FromJSON
<1>4. ASSUME NEW i \in DOMAIN payloads, Small(payloads[i])
      PROVE  FromJSON(answer)[i] = payloads[i]
  <2>1. WellFormed(payloads[i])
    BY BatchIsWellFormed
  <2>2. answer[i] = Convert(payloads[i], Base64)
    BY <1>1, <1>2, <1>4, <2>1, PlainIsNoReference DEF Unharmed
  <2> QED
    BY <1>3, <2>1, <2>2, JSONLosesNothing
<1> QED
  BY <1>3, <1>4 DEF Unharmed, payloadsToJSON, jsonToPayloads

(***************************************************************************)
(* Contexts.                                                               *)
(***************************************************************************)
Carries(p, c) ==
    \A k \in ContextKeys : k \in DOMAIN p.metadata /\ p.metadata[k] = c[k]

Holders(payloads, n) ==
    {i \in 1..n : \E c \in Injected : Carries(payloads[i], c)}

LEMMA ContextsAreWhole ==
    ASSUME NEW p \in Original
    PROVE  \/ \A k \in ContextKeys : k \notin DOMAIN p.metadata
           \/ \E c \in Injected : Carries(p, c)
<1>1. ASSUME NEW a \in App, p = Bare(a)
      PROVE  \A k \in ContextKeys : k \notin DOMAIN p.metadata
  BY <1>1 DEF Bare, ContextKeys
<1>2. ASSUME NEW c \in Injected, NEW a \in App, p = InjectContext(c, Bare(a))
      PROVE  Carries(p, c)
  BY <1>2 DEF Carries, InjectContext, Bare
<1> QED
  BY <1>1, <1>2 DEF Original

(* The last payload with a context decides, and it gives all three fields. *)
LEMMA LastContextCounts ==
    ASSUME NEW payloads \in Batches, NEW n \in 1..Len(payloads)
    PROVE  /\ Holders(payloads, n) = {} => ContextAfter(payloads, n) = Default
           /\ Holders(payloads, n) # {} =>
                  \E i \in Holders(payloads, n), c \in Injected :
                      /\ Carries(payloads[i], c)
                      /\ ContextAfter(payloads, n) = c
<1> DEFINE I(k) == {i \in 1..n : k \in DOMAIN payloads[i].metadata}
<1>1. n \in Nat /\ 1..n \subseteq DOMAIN payloads
  BY BatchIsWellFormed, RemoteAssumption
<1>2. \A i \in 1..n : payloads[i] \in Original
  BY <1>1 DEF Batches
<1>3. \A k \in ContextKeys : I(k) = Holders(payloads, n)
  BY <1>2, ContextsAreWhole DEF Holders, Carries
<1>4. ContextAfter(payloads, n) =
          [k \in ContextKeys |->
              IF Holders(payloads, n) = {} THEN Default[k]
              ELSE payloads[Max(Holders(payloads, n))].metadata[k]]
  <2>1. ASSUME NEW H, H \subseteq 1..n, H # {} PROVE Max(H) # 0
    <3>1. H \in SUBSET Nat /\ \A x \in H : x <= n
      BY <2>1, <1>1
    <3>2. Max(H) \in H
      BY <2>1, <3>1, <1>1, MaxIsGreatest
    <3> QED
      BY <2>1, <3>2, <1>1
  <2>2. Holders(payloads, n) \subseteq 1..n
    BY DEF Holders
  <2> QED
    BY <1>3, <2>1, <2>2 DEF ContextAfter, SelectLastInSubSeq
<1>5. CASE Holders(payloads, n) = {}
  BY <1>4, <1>5 DEF Default
<1>6. CASE Holders(payloads, n) # {}
  <2> DEFINE i == Max(Holders(payloads, n))
  <2>1. i \in Holders(payloads, n)
    <3>1. /\ Holders(payloads, n) \in SUBSET Nat
          /\ \A x \in Holders(payloads, n) : x <= n
      BY <1>1 DEF Holders
    <3> QED
      BY <1>1, <1>6, <3>1, MaxIsGreatest
  <2>2. PICK c \in Injected : Carries(payloads[i], c)
    BY <2>1 DEF Holders
  <2>3. ContextAfter(payloads, n) = [k \in ContextKeys |-> c[k]]
    BY <1>4, <1>6, <2>2 DEF Carries
  <2> QED
    BY <2>1, <2>2, <2>3, <1>6, RemoteAssumption
<1> QED
  BY <1>5, <1>6

InjectedOrDefault(context, payloads) ==
    \/ context \in InjectedInto(payloads)
    \/ InjectedInto(payloads) = {} /\ context = Default

(* Any loop that goes on at least until it has a context finds one.        *)
LEMMA RoundsSuffice ==
    ASSUME NEW payloads \in Batches, NEW n \in 1..Len(payloads),
           n = Len(payloads) \/ ContextAfter(payloads, n) # Default
    PROVE  InjectedOrDefault(ContextAfter(payloads, n), payloads)
<1>1. /\ DOMAIN payloads = 1..Len(payloads) /\ Len(payloads) \in Nat
      /\ 1..n \subseteq DOMAIN payloads
  BY BatchIsWellFormed, RemoteAssumption
<1>2. CASE Holders(payloads, n) = {}
  <2>1. n = Len(payloads) /\ ContextAfter(payloads, n) = Default
    BY <1>2, LastContextCounts
  <2>2. InjectedInto(payloads) = {}
    BY <1>1, <1>2, <2>1 DEF InjectedInto, Holders, Carries
  <2> QED
    BY <2>1, <2>2 DEF InjectedOrDefault
<1>3. CASE Holders(payloads, n) # {}
  <2>1. PICK i \in Holders(payloads, n), c \in Injected :
            Carries(payloads[i], c) /\ ContextAfter(payloads, n) = c
    BY <1>3, LastContextCounts
  <2>2. i \in DOMAIN payloads
    BY <1>1, <2>1 DEF Holders
  <2> QED
    BY <2>1, <2>2 DEF InjectedOrDefault, InjectedInto, Carries
<1> QED
  BY <1>2, <1>3

LEMMA GoNamesOne ==
    ASSUME NEW payloads \in Batches
    PROVE  InjectedOrDefault(GoContext(payloads), payloads)
<1> DEFINE Ends == {n \in 1..Len(payloads) :
                       ContextAfter(payloads, n)["temporal-workflow-id"]
                           # <<"text", "unknown">>}
           n == IF Ends = {} THEN Len(payloads) ELSE Min(Ends)
<1>1. GoContext(payloads) = ContextAfter(payloads, n)
  BY DEF GoContext, Rounds
<1>2. Len(payloads) \in Nat \ {0}
  BY BatchIsWellFormed, RemoteAssumption
<1>3. n \in 1..Len(payloads) /\ (n = Len(payloads) \/ n \in Ends)
  <2>1. Ends \in SUBSET Nat /\ Ends \subseteq 1..Len(payloads)
    BY <1>2
  <2> HIDE DEF Ends
  <2>2. Ends # {} => Min(Ends) \in Ends
    BY <2>1, MinIsLeast
  <2>3. CASE Ends = {}
    BY <1>2, <2>3
  <2>4. CASE Ends # {}
    <3>1. n = Min(Ends)
      BY <2>4
    <3> QED
      BY <2>1, <2>2, <2>4, <3>1
  <2> QED
    BY <2>3, <2>4
<1>4. Default["temporal-workflow-id"] = <<"text", "unknown">>
  BY DEF Default, ContextKeys
<1>5. n = Len(payloads) \/ ContextAfter(payloads, n) # Default
  BY <1>3, <1>4
<1> QED
  BY <1>1, <1>3, <1>5, RoundsSuffice

LEMMA TypeScriptNamesOne ==
    ASSUME NEW payloads \in Batches
    PROVE  InjectedOrDefault(TypeScriptContext(payloads), payloads)
<1> DEFINE Ends == {n \in 1..Len(payloads) :
                       \A k \in ContextKeys :
                           ContextAfter(payloads, n)[k] # Default[k]}
           n == IF Ends = {} THEN Len(payloads) ELSE Min(Ends)
<1>1. TypeScriptContext(payloads) = ContextAfter(payloads, n)
  BY DEF TypeScriptContext, Rounds
<1>2. Len(payloads) \in Nat \ {0}
  BY BatchIsWellFormed, RemoteAssumption
<1>3. n \in 1..Len(payloads) /\ (n = Len(payloads) \/ n \in Ends)
  <2>1. Ends \in SUBSET Nat /\ Ends \subseteq 1..Len(payloads)
    BY <1>2
  <2> HIDE DEF Ends
  <2>2. Ends # {} => Min(Ends) \in Ends
    BY <2>1, MinIsLeast
  <2>3. CASE Ends = {}
    BY <1>2, <2>3
  <2>4. CASE Ends # {}
    <3>1. n = Min(Ends)
      BY <2>4
    <3> QED
      BY <2>1, <2>2, <2>4, <3>1
  <2> QED
    BY <2>3, <2>4
<1>4. n = Len(payloads) \/ ContextAfter(payloads, n) # Default
  BY <1>3 DEF ContextKeys
<1> QED
  BY <1>1, <1>3, <1>4, RoundsSuffice
-----------------------------------------------------------------------------
(***************************************************************************)
(* The inductive invariant: what the history holds of each value, and what *)
(* was made of it.                                                         *)
(***************************************************************************)
Maps ==
    /\ batch = [c \in Call |-> batch[c]]
    /\ encodedBy = [c \in Call |-> encodedBy[c]]
    /\ named = [c \in Call |-> named[c]]
    /\ history = [c \in Call |-> history[c]]
    /\ decodedBy = [c \in Call |-> decodedBy[c]]
    /\ result = [c \in Call |-> result[c]]

Nothing(c) ==
    /\ batch[c] = None /\ result[c] = None /\ decodedBy[c] = None

Something(c) ==
    /\ batch[c] \in Batches
    /\ encodedBy[c] \in {"go", "typescript"}
    /\ InjectedOrDefault(named[c], batch[c])
    /\ Unharmed(history[c], batch[c])
    /\ encodedBy[c] = "go" => history[c] = Encoded(named[c], batch[c])
    /\ decodedBy[c] = None => result[c] = None
    /\ decodedBy[c] # None => Unharmed(result[c], batch[c])
    /\ encodedBy[c] = "go" /\ decodedBy[c] = "go" => result[c] = batch[c]

IInv ==
    /\ Maps
    /\ \A c \in Call : IF encodedBy[c] = None THEN Nothing(c) ELSE Something(c)

LEMMA InitIInv == Init => IInv
BY DEF Init, IInv, Maps, Nothing

(* A value that has just been encoded                                      *)
LEMMA KeepIInv ==
    ASSUME IInv, NEW c \in Call, NEW payloads \in Batches,
           NEW codec \in {"go", "typescript"}, NEW context, NEW items,
           Keep(c, payloads, codec, context, items),
           InjectedOrDefault(context, payloads), Unharmed(items, payloads),
           codec = "go" => items = Encoded(context, payloads)
    PROVE  IInv'
<1>1. Maps'
  BY DEF IInv, Maps, Keep
<1>2. codec # None
  BY RemoteAssumption
<1>3. ASSUME NEW d \in Call
      PROVE  (IF encodedBy[d] = None THEN Nothing(d) ELSE Something(d))'
  <2>1. CASE d = c
    <3>1. /\ batch'[c] = payloads /\ encodedBy'[c] = codec
          /\ named'[c] = context /\ history'[c] = items
          /\ decodedBy'[c] = decodedBy[c] /\ result'[c] = result[c]
      BY DEF Keep, IInv, Maps
    <3>2. decodedBy[c] = None /\ result[c] = None
      BY DEF Keep, IInv, Nothing
    <3>3. Something(c)'
      BY <3>1, <3>2, RemoteAssumption DEF Something
    <3> QED
      BY <2>1, <1>2, <3>1, <3>3
  <2>2. CASE d # c
    <3>1. /\ batch'[d] = batch[d] /\ encodedBy'[d] = encodedBy[d]
          /\ named'[d] = named[d] /\ history'[d] = history[d]
          /\ decodedBy'[d] = decodedBy[d] /\ result'[d] = result[d]
      BY <2>2 DEF Keep, IInv, Maps
    <3> QED
      BY <3>1 DEF IInv, Nothing, Something
  <2> QED
    BY <2>1, <2>2
<1> QED
  BY <1>1, <1>3 DEF IInv

(* A value that has just been decoded                                      *)
LEMMA HandIInv ==
    ASSUME IInv, NEW c \in Call, encodedBy[c] # None,
           NEW codec \in {"go", "typescript"}, NEW items,
           Hand(c, codec, items), Unharmed(items, batch[c]),
           (encodedBy[c] = "go" /\ codec = "go") => items = batch[c]
    PROVE  IInv'
<1>1. Maps'
  BY DEF IInv, Maps, Hand
<1>2. codec # None
  BY RemoteAssumption
<1>3. ASSUME NEW d \in Call
      PROVE  (IF encodedBy[d] = None THEN Nothing(d) ELSE Something(d))'
  <2>1. CASE d = c
    <3>1. /\ batch'[c] = batch[c] /\ encodedBy'[c] = encodedBy[c]
          /\ named'[c] = named[c] /\ history'[c] = history[c]
          /\ decodedBy'[c] = codec /\ result'[c] = items
      BY DEF Hand, IInv, Maps
    <3>2. Something(c)'
      BY <3>1, <1>2 DEF Something, IInv
    <3> QED
      BY <2>1, <3>1, <3>2
  <2>2. CASE d # c
    <3>1. /\ batch'[d] = batch[d] /\ encodedBy'[d] = encodedBy[d]
          /\ named'[d] = named[d] /\ history'[d] = history[d]
          /\ decodedBy'[d] = decodedBy[d] /\ result'[d] = result[d]
      BY <2>2 DEF Hand, IInv, Maps
    <3> QED
      BY <3>1 DEF IInv, Nothing, Something
  <2> QED
    BY <2>1, <2>2
<1> QED
  BY <1>1, <1>3 DEF IInv

LEMMA NextIInv == IInv /\ [Next]_vars => IInv'
<1> SUFFICES ASSUME IInv, [Next]_vars PROVE IInv'
  OBVIOUS
<1>1. ASSUME NEW c \in Call, NEW payloads \in Batches, GoEncode(c, payloads)
      PROVE  IInv'
  BY <1>1, KeepIInv, GoNamesOne, GoEncodeSparesSmall DEF GoEncode
<1>2. ASSUME NEW c \in Call, NEW payloads \in Batches,
             GoEncodeFails(c, payloads)
      PROVE  IInv'
  BY <1>2 DEF GoEncodeFails, IInv, Maps, Nothing, Something
<1>3. ASSUME NEW c \in Call, NEW payloads \in Batches,
             TypeScriptEncode(c, payloads)
      PROVE  IInv'
  BY <1>3, KeepIInv, TypeScriptNamesOne, TypeScriptEncodeSparesSmall
     DEF TypeScriptEncode
<1>4. ASSUME NEW c \in Call, NEW payloads \in Batches,
             TypeScriptEncodeFails(c, payloads)
      PROVE  IInv'
  <2>1. Unharmed(payloads, payloads)
    BY DEF Unharmed
  <2> QED
    BY <1>4, <2>1, KeepIInv, TypeScriptNamesOne DEF TypeScriptEncodeFails
<1>5. ASSUME NEW c \in Call, encodedBy[c] # None
      PROVE  /\ batch[c] \in Batches /\ Unharmed(history[c], batch[c])
             /\ encodedBy[c] = "go" =>
                    history[c] = Encoded(named[c], batch[c])
  BY <1>5 DEF IInv, Something
<1>6. ASSUME NEW c \in Call, GoDecode(c) PROVE IInv'
  <2>1. encodedBy[c] # None /\ Hand(c, "go", Decoded(history[c]))
    BY <1>6 DEF GoDecode
  <2> QED
    BY <2>1, <1>5, HandIInv, GoDecodeSparesSmall, GoRoundTrip
<1>7. ASSUME NEW c \in Call, TypeScriptDecode(c) PROVE IInv'
  BY <1>7, <1>5, HandIInv, TypeScriptDecodeSparesSmall DEF TypeScriptDecode
<1>8. ASSUME NEW c \in Call, TypeScriptDecodeFails(c) PROVE IInv'
  BY <1>8, <1>5, HandIInv DEF TypeScriptDecodeFails
<1>9. CASE UNCHANGED vars
  BY <1>9 DEF vars, IInv, Maps, Nothing, Something
<1> QED
  BY <1>1, <1>2, <1>3, <1>4, <1>6, <1>7, <1>8, <1>9 DEF Next

THEOREM Invariance == Spec => []IInv
BY InitIInv, NextIInv, PTL DEF Spec
-----------------------------------------------------------------------------
(***************************************************************************)
(* Theorems.                                                               *)
(***************************************************************************)

(* Between Go workers any payload survives, whatever its size and context. *)
THEOREM GoSurvives == Spec => []GoIsTransparent
<1>1. IInv => GoIsTransparent
  BY DEF IInv, Nothing, Something, GoIsTransparent
<1> QED
  BY <1>1, Invariance, PTL

(* A small payload survives every pair of codecs and every failure.        *)
THEOREM SmallSurvives == Spec => []SmallUnharmed
<1>1. ASSUME NEW payloads PROVE
      \A i \in DOMAIN payloads : ToJSON(payloads)[i] = Convert(payloads[i], Base64)
  BY DEF ToJSON
<1>2. IInv => SmallUnharmed
  BY <1>1 DEF IInv, Nothing, Something, SmallUnharmed, Unharmed, Small
<1> QED
  BY <1>2, Invariance, PTL

(* An encode request names the context of one of its payloads, whole, or   *)
(* the unknown one if there is none.                                       *)
THEOREM RequestsNameOne == Spec => []NamesItsWorkflow
<1>1. IInv => NamesItsWorkflow
  BY DEF IInv, Nothing, Something, NamesItsWorkflow, InjectedOrDefault
<1> QED
  BY <1>1, Invariance, PTL
=============================================================================
