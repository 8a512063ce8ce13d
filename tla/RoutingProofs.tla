---------------------------- MODULE RoutingProofs ----------------------------
(***************************************************************************)
(* Proofs about where a deposit is paid to: the inductive invariant        *)
(* RoutingInv of RoutingInvariants, and from it that the source of a       *)
(* deposit is found, that it is paid by no superseded record, where its    *)
(* user asked, and returned to its sender, for every number of requests,   *)
(* deposits, wallets and failing commands.  Then how much is paid: the     *)
(* floating-point arithmetic of Amounts, of which every operation is off   *)
(* by at most one part in 2^Bits, and from it NetOfFee and TypeOK.         *)
(***************************************************************************)
EXTENDS RoutingInvariants, SequenceTheorems, FiniteSetTheorems,
        WellFoundedInduction, TLAPS

(***************************************************************************)
(* The chain of a payment names the chain of the request.                  *)
(***************************************************************************)
LEMMA NamedOfChain ==
  ASSUME NEW c \in Supported
  PROVE  Named(ChainId(c)) = c
BY SMT DEF Supported, ChainId, Named

LEMMA KeysDiffer ==
  /\ \A i, j : BGLKey(i) = BGLKey(j) => i = j
  /\ \A w, x : EVMKey(w) = EVMKey(x) => w = x
  /\ \A w, x : MixedKey(EVMKey(w)) = MixedKey(EVMKey(x)) => w = x
  /\ \A i, w : BGLKey(i) # EVMKey(w) /\ BGLKey(i) # MixedKey(EVMKey(w))
  /\ \A w, x : EVMKey(w) # MixedKey(EVMKey(x))
  /\ \A i, j : BGLKey(i) # MixedKey(BGLKey(j))
  /\ \A i, w : EVMKey(w) # MixedKey(BGLKey(i))
  /\ \A i, w : MixedKey(EVMKey(w)) # MixedKey(BGLKey(i))
BY SMT DEF BGLKey, EVMKey, MixedKey

(***************************************************************************)
(* The requests and the address book only grow.                            *)
(***************************************************************************)

(* No request forgets what it asks for, nor that its user has been told.   *)
RequestsGrow ==
  /\ DOMAIN requests \subseteq DOMAIN requests'
  /\ \A i \in DOMAIN requests :
       /\ requests'[i].kind = requests[i].kind
       /\ requests'[i].wallet = requests[i].wallet
       /\ requests'[i].chain = requests[i].chain
       /\ requests[i].pc = "told" => requests'[i].pc = "told"

(* Nothing that is stored is taken back; mixed case is not written.        *)
BookGrows ==
  /\ Len(stored) \in Nat /\ Len(stored') \in Nat /\ Len(stored) <= Len(stored')
  /\ DOMAIN stored = 1 .. Len(stored) /\ DOMAIN stored' = 1 .. Len(stored')
  /\ \A n \in DOMAIN stored : stored'[n] = stored[n]
  /\ DOMAIN book \subseteq DOMAIN book'
  /\ \A w \in Wallets :
       LET mixed == MixedKey(EVMKey(w))
       IN  mixed \in DOMAIN book' => mixed \in DOMAIN book /\ book'[mixed] = book[mixed]

LEMMA RequestFields ==
  ASSUME requests \in Seq(Request), NEW i \in DOMAIN requests
  PROVE  /\ i \in Nat /\ i # 0 /\ i \in 1 .. Len(requests)
         /\ requests[i] \in Request
         /\ requests[i].kind \in {"bgl", "wbgl"} /\ requests[i].wallet \in Wallets
         /\ requests[i].chain \in ChainNames
         /\ requests[i].pc \in {"asked", "address", "told", "error"}
<1>1. DOMAIN requests = 1 .. Len(requests) /\ Len(requests) \in Nat
  BY LenProperties
<1>2. i \in Nat /\ i # 0 /\ i \in 1 .. Len(requests)
  BY <1>1, SMT
<1>3. requests[i] \in Request
  BY <1>2, ElementOfSeq
<1> QED
  BY <1>2, <1>3, SMT DEF Request

LEMMA BecomesFacts ==
  ASSUME requests \in Seq(Request), NEW i \in DOMAIN requests,
         NEW pc \in {"asked", "address", "told", "error"}, Becomes(i, pc),
         requests[i].pc = "told" => pc = "told"
  PROVE  /\ requests' \in Seq(Request)
         /\ RequestsGrow /\ DOMAIN requests' = DOMAIN requests
         /\ requests'[i].pc = pc
         /\ \A j \in DOMAIN requests : j # i => requests'[j] = requests[j]
<1> DEFINE r == [requests[i] EXCEPT !.pc = pc]
<1>0. DOMAIN requests = 1 .. Len(requests)
  BY LenProperties
<1>1. requests' = [requests EXCEPT ![i] = r]
  BY Zenon DEF Becomes
<1>2. requests[i] \in Request /\ i \in 1 .. Len(requests)
  BY RequestFields
<1>3. r \in Request
  BY <1>2, SMT DEF Request
<1>4. /\ r.kind = requests[i].kind /\ r.wallet = requests[i].wallet
      /\ r.chain = requests[i].chain /\ r.pc = pc
  BY <1>2, SMT DEF Request
<1> HIDE DEF r
<1>5. /\ requests' \in Seq(Request) /\ Len(requests') = Len(requests)
      /\ \A j \in 1 .. Len(requests) :
           requests'[j] = IF j = i THEN r ELSE requests[j]
  BY <1>1, <1>2, <1>3, ExceptSeq
<1>6. DOMAIN requests' = 1 .. Len(requests)
  BY <1>5, LenProperties
<1> QED
  BY <1>0, <1>2, <1>4, <1>5, <1>6 DEF RequestsGrow

LEMMA SubmitFacts ==
  ASSUME requests \in Seq(Request), NEW kind \in {"bgl", "wbgl"}, NEW w \in Wallets,
         NEW c \in ChainNames, Submit(kind, w, c)
  PROVE  /\ requests' \in Seq(Request)
         /\ RequestsGrow
         /\ \A j \in DOMAIN requests' :
              \/ j \in DOMAIN requests /\ requests'[j] = requests[j]
              \/ requests'[j].pc = "asked"
<1> DEFINE r == [kind |-> kind, wallet |-> w, chain |-> c, pc |-> "asked"]
<1>1. r \in Request /\ r.pc = "asked"
  BY SMT DEF Request
<1>2. requests' = Append(requests, r)
  BY DEF Submit
<1> HIDE DEF r
<1>3. /\ requests' \in Seq(Request) /\ Len(requests') = Len(requests) + 1
      /\ \A i \in 1 .. Len(requests) : requests'[i] = requests[i]
      /\ requests'[Len(requests) + 1] = r
  BY <1>1, <1>2, AppendProperties
<1>4. /\ DOMAIN requests = 1 .. Len(requests) /\ DOMAIN requests' = 1 .. Len(requests')
      /\ Len(requests) \in Nat
  BY <1>3, LenProperties
<1>5. \A j \in DOMAIN requests' : j \in DOMAIN requests \/ j = Len(requests) + 1
  BY <1>3, <1>4, SMT
<1>6. DOMAIN requests \subseteq DOMAIN requests'
  BY <1>3, <1>4, SMT
<1> QED
  BY <1>1, <1>3, <1>4, <1>5, <1>6 DEF RequestsGrow

(* The set of the n-th record that binds w does not change.                *)
LEMMA BindsStays ==
  ASSUME RequestsGrow, BookGrows, StoredAreRequests, NEW n \in DOMAIN stored, NEW w
  PROVE  /\ n \in DOMAIN stored' /\ stored'[n] \in DOMAIN requests'
         /\ Binds(n, w)' <=> Binds(n, w)
<1>1. n \in DOMAIN stored'
  BY SMT DEF BookGrows
<1>2. stored'[n] = stored[n] /\ stored[n] \in DOMAIN requests
  BY DEF BookGrows, StoredAreRequests
<1> QED
  BY <1>1, <1>2 DEF RequestsGrow, Binds

(* Without a new key the address book leads where it led.                  *)
LEMMA BookUntouched ==
  ASSUME BookInv, stored \in Seq(Nat), RequestsGrow, UNCHANGED <<book, stored>>,
         ToldAreStored'
  PROVE  BookInv' /\ BookGrows
<1>1. BookGrows
  <2>1. Len(stored) \in Nat /\ DOMAIN stored = 1 .. Len(stored)
    BY LenProperties
  <2> QED
    BY <2>1, SMT DEF BookGrows
<1>2. StoredAreRequests'
  BY DEF BookInv, StoredAreRequests, RequestsGrow
<1>3. KeysLead'
  BY DEF BookInv, KeysLead, LeadsTo, RequestsGrow
<1>4. ASSUME NEW w \in Wallets PROVE LatestIsFound(w)'
  <2>1. \A n \in DOMAIN stored : Binds(n, w)' <=> Binds(n, w)
    BY <1>1, BindsStays DEF BookInv
  <2>2. ASSUME NEW i PROVE Latest(i, w)' <=> Latest(i, w)
    BY <2>1 DEF Latest
  <2>3. LatestIsFound(w)
    BY <1>4 DEF BookInv
  <2> QED
    BY <2>1, <2>2, <2>3, Zenon DEF LatestIsFound
<1> QED
  BY <1>1, <1>2, <1>3, <1>4 DEF BookInv

(* What SET adds: record i under its key, the latest of its address.       *)
LEMMA SetFacts ==
  ASSUME BookInv, stored \in Seq(Nat), requests \in Seq(Request), RequestsGrow,
         NEW i \in DOMAIN requests, Set(i)
  PROVE  /\ BookGrows /\ stored' \in Seq(Nat)
         /\ Len(stored') = Len(stored) + 1 /\ Len(stored') \in DOMAIN stored'
         /\ stored'[Len(stored')] = i
         /\ \A n \in DOMAIN stored' :
              n <= Len(stored') /\ (n \in DOMAIN stored \/ n = Len(stored'))
         /\ DOMAIN book' = DOMAIN book \union {KeyOf(i)}
         /\ book'[KeyOf(i)] = i
         /\ \A k \in DOMAIN book : k # KeyOf(i) => book'[k] = book[k]
<1>1. i \in Nat
  BY RequestFields
<1>2. /\ stored' \in Seq(Nat) /\ Len(stored') = Len(stored) + 1
      /\ \A n \in 1 .. Len(stored) : stored'[n] = stored[n]
      /\ stored'[Len(stored) + 1] = i
  BY <1>1, AppendProperties DEF Set
<1>3. /\ DOMAIN stored = 1 .. Len(stored) /\ DOMAIN stored' = 1 .. Len(stored')
      /\ Len(stored) \in Nat
  BY <1>2, LenProperties
<1>4. /\ DOMAIN book' = DOMAIN book \union {KeyOf(i)}
      /\ book'[KeyOf(i)] = i
      /\ \A k \in DOMAIN book : k # KeyOf(i) => book'[k] = book[k]
  BY Zenon DEF Set
<1>5. ASSUME NEW w PROVE KeyOf(i) # MixedKey(EVMKey(w))
  BY KeysDiffer, Zenon DEF KeyOf
<1>6. BookGrows
  <2>1. /\ Len(stored) \in Nat /\ Len(stored') \in Nat /\ Len(stored) <= Len(stored')
        /\ DOMAIN stored = 1 .. Len(stored) /\ DOMAIN stored' = 1 .. Len(stored')
        /\ \A n \in DOMAIN stored : stored'[n] = stored[n]
    BY <1>2, <1>3, SMT
  <2>2. ASSUME NEW w \in Wallets, MixedKey(EVMKey(w)) \in DOMAIN book'
        PROVE  /\ MixedKey(EVMKey(w)) \in DOMAIN book
               /\ book'[MixedKey(EVMKey(w))] = book[MixedKey(EVMKey(w))]
    <3> DEFINE mixed == MixedKey(EVMKey(w))
    <3>1. mixed # KeyOf(i) /\ mixed \in DOMAIN book'
      BY <1>5, <2>2, Zenon
    <3> HIDE DEF mixed
    <3>2. mixed \in DOMAIN book /\ book'[mixed] = book[mixed]
      BY <1>4, <3>1, Zenon
    <3> QED
      BY <3>2 DEF mixed
  <2> QED
    BY <1>4, <2>1, <2>2, Zenon DEF BookGrows
<1>7. /\ Len(stored') \in DOMAIN stored'
      /\ \A n \in DOMAIN stored' :
           n <= Len(stored') /\ (n \in DOMAIN stored \/ n = Len(stored'))
  BY <1>2, <1>3, SMT
<1> QED
  BY <1>2, <1>4, <1>6, <1>7

LEMMA BookSet ==
  ASSUME BookInv, stored \in Seq(Nat), requests \in Seq(Request), RequestsGrow,
         NEW i \in DOMAIN requests, Set(i), ToldAreStored'
  PROVE  BookInv' /\ BookGrows /\ stored' \in Seq(Nat)
<1>0. PICK last : last = Len(stored')
  OBVIOUS
<1>1. /\ BookGrows /\ stored' \in Seq(Nat)
      /\ last \in DOMAIN stored' /\ stored'[last] = i
      /\ \A n \in DOMAIN stored' : n <= last /\ (n \in DOMAIN stored \/ n = last)
      /\ DOMAIN book' = DOMAIN book \union {KeyOf(i)}
      /\ book'[KeyOf(i)] = i
      /\ \A k \in DOMAIN book : k # KeyOf(i) => book'[k] = book[k]
  BY <1>0, SetFacts
<1>2. \A n \in DOMAIN stored : n \in DOMAIN stored' /\ stored'[n] = stored[n]
  BY <1>1, SMT DEF BookGrows
<1>3. StoredAreRequests'
  BY <1>1, <1>2 DEF BookInv, StoredAreRequests, RequestsGrow
<1>4. KeysLead'
  <2>0. PICK key : key = KeyOf(i)
    OBVIOUS
  <2>1. LeadsTo(key, i)'
    <3>1. i \in DOMAIN requests' /\ requests'[i].kind = requests[i].kind
          /\ requests'[i].wallet = requests[i].wallet
      BY DEF RequestsGrow
    <3>2. requests[i].kind \in {"bgl", "wbgl"}
      BY RequestFields
    <3> QED
      BY <2>0, <3>1, <3>2 DEF LeadsTo, KeyOf
  <2>2. ASSUME NEW k \in DOMAIN book, k # KeyOf(i)
        PROVE  \E j : /\ book'[k] = j /\ LeadsTo(k, j)'
                       /\ \E n \in DOMAIN stored' : stored'[n] = j
    <3>1. PICK j : book[k] = j
      OBVIOUS
    <3>2. book'[k] = j /\ LeadsTo(k, j)
      BY <1>1, <2>2, <3>1 DEF BookInv, KeysLead
    <3>3. PICK n \in DOMAIN stored : stored[n] = j
      BY <2>2, <3>1 DEF BookInv, KeysLead
    <3>4. LeadsTo(k, j)'
      BY <3>2 DEF LeadsTo, RequestsGrow
    <3> QED
      BY <1>2, <3>2, <3>3, <3>4
  <2>3. ASSUME NEW k \in DOMAIN book'
        PROVE  \E j : /\ book'[k] = j /\ LeadsTo(k, j)'
                       /\ \E n \in DOMAIN stored' : stored'[n] = j
    BY <1>1, <2>0, <2>1, <2>2
  <2> QED
    BY <2>3, Zenon DEF KeysLead
<1>5. ASSUME NEW w \in Wallets PROVE LatestIsFound(w)'
  <2>1. \A n \in DOMAIN stored : Binds(n, w)' <=> Binds(n, w)
    BY <1>1, BindsStays DEF BookInv
  <2>2. requests'[i].kind = requests[i].kind /\ requests'[i].wallet = requests[i].wallet
    BY DEF RequestsGrow
  <2>3. LatestIsFound(w)
    BY <1>5 DEF BookInv
  <2>4. CASE KeyOf(i) = EVMKey(w)
    <3>1. EVMKey(w) \in DOMAIN book' /\ book'[EVMKey(w)] = i
      BY <1>1, <2>4
    <3>2. Latest(i, w)'
      BY <1>1 DEF Latest
    <3> QED
      BY <3>1, <3>2, Zenon DEF LatestIsFound
  <2>5. CASE KeyOf(i) # EVMKey(w)
    <3>1. ~ Binds(last, w)'
      <4>1. \/ KeyOf(i) = BGLKey(i) /\ requests[i].kind = "bgl"
            \/ KeyOf(i) = EVMKey(requests[i].wallet)
        BY Zenon DEF KeyOf
      <4>2. requests[i].kind = "bgl" \/ requests[i].wallet # w
        BY <2>5, <4>1
      <4> QED
        BY <1>1, <2>2, <4>2 DEF Binds
    <3>2. ASSUME NEW n \in DOMAIN stored', Binds(n, w)'
          PROVE  n \in DOMAIN stored /\ Binds(n, w)
      BY <1>1, <2>1, <3>1, <3>2
    <3>3. ASSUME NEW j, Latest(j, w) PROVE Latest(j, w)'
      BY <1>2, <3>2, <3>3 DEF Latest
    <3>4. /\ EVMKey(w) \in DOMAIN book' <=> EVMKey(w) \in DOMAIN book
          /\ EVMKey(w) \in DOMAIN book => book'[EVMKey(w)] = book[EVMKey(w)]
      BY <1>1, <2>5, Zenon
    <3>5. KeyOf(i) # MixedKey(EVMKey(w))
      BY KeysDiffer, Zenon DEF KeyOf
    <3>6. /\ MixedKey(EVMKey(w)) \in DOMAIN book' <=> MixedKey(EVMKey(w)) \in DOMAIN book
          /\ MixedKey(EVMKey(w)) \in DOMAIN book =>
               book'[MixedKey(EVMKey(w))] = book[MixedKey(EVMKey(w))]
      BY <1>1, <3>5, Zenon
    <3> QED
      BY <2>3, <3>2, <3>3, <3>4, <3>6, Zenon DEF LatestIsFound
  <2> QED
    BY <2>4, <2>5
<1> QED
  BY <1>1, <1>3, <1>4, <1>5 DEF BookInv

(* A user is told only what is stored.                                     *)
LEMMA ToldStays ==
  ASSUME BookInv, requests \in Seq(Request), DOMAIN book \subseteq DOMAIN book',
         \A j \in DOMAIN requests' :
           \/ j \in DOMAIN requests /\ requests'[j] = requests[j]
           \/ requests'[j].pc \in {"asked", "error"}
           \/ /\ requests'[j].chain \in Supported
              /\ requests'[j].pc = "told" /\ requests'[j].kind = "bgl" =>
                   BGLKey(j) \in DOMAIN book'
  PROVE  ToldAreStored'
BY DEF BookInv, ToldAreStored

(* Every handler keeps the book.                                           *)
LEMMA HandlersKeepBook ==
  ASSUME BookInv, stored \in Seq(Nat), requests \in Seq(Request), HandlerStep
  PROVE  /\ BookInv' /\ RequestsGrow /\ BookGrows
         /\ stored' \in Seq(Nat) /\ requests' \in Seq(Request)
         /\ look' = look
<1>1. ASSUME NEW kind \in {"bgl", "wbgl"}, NEW w \in Wallets, NEW c \in ChainNames,
             Submit(kind, w, c)
      PROVE  /\ BookInv' /\ RequestsGrow /\ BookGrows
             /\ stored' \in Seq(Nat) /\ requests' \in Seq(Request)
             /\ look' = look
  <2>1. UNCHANGED <<book, stored, look>>
    BY <1>1 DEF Submit
  <2>2. ToldAreStored'
    BY <1>1, <2>1, SubmitFacts, ToldStays
  <2> QED
    BY <1>1, <2>1, <2>2, SubmitFacts, BookUntouched
<1>2. ASSUME NEW i \in DOMAIN requests,
             Unsupported(i) \/ GetNewAddress(i) \/ Store(i) \/ StoreFails(i)
      PROVE  /\ BookInv' /\ RequestsGrow /\ BookGrows
             /\ stored' \in Seq(Nat) /\ requests' \in Seq(Request)
             /\ look' = look
  <2>1. PICK pc \in {"address", "told", "error"} :
          /\ Becomes(i, pc)
          /\ requests[i].pc # "told"
          /\ pc \in {"address", "told"} => requests[i].chain \in Supported
          /\ pc = "told" => Set(i)
          /\ Set(i) \/ UNCHANGED <<book, stored>>
    <3>1. CASE Unsupported(i)
      BY <3>1 DEF Unsupported
    <3>2. CASE GetNewAddress(i)
      BY <3>2 DEF GetNewAddress
    <3>3. CASE Store(i)
      BY <3>3 DEF Store, ReadyToStore, BookInv, ToldAreStored
    <3>4. CASE StoreFails(i)
      BY <3>4 DEF StoreFails, ReadyToStore
    <3> QED
      BY <1>2, <3>1, <3>2, <3>3, <3>4
  <2>2. look' = look
    BY <1>2 DEF Unsupported, GetNewAddress, Store, StoreFails
  <2>3. /\ requests' \in Seq(Request) /\ RequestsGrow
        /\ DOMAIN requests' = DOMAIN requests
        /\ requests'[i].pc = pc
        /\ \A j \in DOMAIN requests : j # i => requests'[j] = requests[j]
    BY <2>1, BecomesFacts
  <2>4. /\ requests'[i].chain = requests[i].chain /\ requests'[i].kind = requests[i].kind
    BY <2>3 DEF RequestsGrow
  <2>5. DOMAIN book \subseteq DOMAIN book'
    BY <2>1, SetFacts, <2>3
  <2>6. pc = "told" /\ requests'[i].kind = "bgl" => BGLKey(i) \in DOMAIN book'
    <3>1. ASSUME pc = "told" PROVE KeyOf(i) \in DOMAIN book'
      BY <2>1, <2>3, <3>1, SetFacts
    <3> QED
      BY <2>4, <3>1 DEF KeyOf
  <2>7. ToldAreStored'
    BY <2>1, <2>3, <2>4, <2>5, <2>6, ToldStays
  <2> QED
    BY <2>1, <2>2, <2>3, <2>7, BookUntouched, BookSet
<1> QED
  BY <1>1, <1>2 DEF HandlerStep

(***************************************************************************)
(* Deposits.                                                               *)
(***************************************************************************)
LEMMA DepositFields ==
  ASSUME deposits \in Seq(Deposits), NEW d \in DOMAIN deposits
  PROVE  /\ d \in Nat /\ d \in 1 .. Len(deposits)
         /\ deposits[d] \in Deposits
         /\ deposits[d].kind \in {"bgl", "wbgl"} /\ deposits[d].at \in Nat
         /\ deposits[d].by \in Nat /\ deposits[d].status \in Statuses
         /\ deposits[d].chain \in Chains /\ deposits[d].destChain \in Chains
<1>1. DOMAIN deposits = 1 .. Len(deposits) /\ Len(deposits) \in Nat
  BY LenProperties
<1>2. d \in Nat /\ d \in 1 .. Len(deposits)
  BY <1>1, SMT
<1>3. deposits[d] \in Deposits
  BY <1>2, ElementOfSeq
<1> QED
  BY <1>2, <1>3, SMT DEF Deposits

(* The four properties, of one deposit.                                    *)
Fate(d) ==
  /\ deposits[d].status = "missing" =>
       deposits[d].kind = "wbgl" /\ Bindings(d) = {}
  /\ deposits[d].kind = "wbgl" /\ deposits[d].by # 0 =>
       \E n \in DOMAIN stored :
         stored[n] = deposits[d].by /\ \A b \in Bindings(d) : b <= n
  /\ deposits[d].status = "executing" =>
       \/ /\ deposits[d].kind = "bgl"
          /\ deposits[d].to = requests[deposits[d].source].wallet
          /\ Named(deposits[d].toChain) = requests[deposits[d].source].chain
       \/ /\ deposits[d].kind = "wbgl"
          /\ \E i \in DOMAIN requests :
               /\ deposits[d].to = NamedBy(i)
               /\ requests[i].kind = "wbgl" /\ requests[i].wallet = deposits[d].source
  /\ deposits[d].status = "returning" /\ deposits[d].kind = "wbgl" =>
       /\ deposits[d].to = deposits[d].source
       /\ deposits[d].toChain = deposits[d].chain

LEMMA FatesAreProperties ==
  (KnownSourceIsFound /\ NotBySupersededRecord /\ PaidWhereAsked /\ ReturnedToSender)
    <=> (\A d \in DOMAIN deposits : Fate(d))
BY Zenon DEF KnownSourceIsFound, NotBySupersededRecord, PaidWhereAsked,
             ReturnedToSender, Fate

LEMMA FatesAreProperties2 ==
  (KnownSourceIsFound /\ NotBySupersededRecord /\ PaidWhereAsked /\ ReturnedToSender)'
    <=> (\A d \in DOMAIN deposits : Fate(d))'
BY FatesAreProperties, PTL

(* What the requests and the address book may do while a deposit waits.    *)
Grows == RequestsGrow /\ BookGrows /\ StoredAreRequests

LEMMA StoredGrow ==
  ASSUME Grows
  PROVE  /\ Len(stored) \in Nat /\ Len(stored') \in Nat /\ Len(stored) <= Len(stored')
         /\ DOMAIN stored = 1 .. Len(stored) /\ DOMAIN stored' = 1 .. Len(stored')
BY Zenon DEF Grows, BookGrows

LEMMA BindingsStay ==
  ASSUME Grows, NEW d, Known(d), deposits[d].at \in Nat,
         deposits'[d].at = deposits[d].at, deposits'[d].source = deposits[d].source
  PROVE  /\ Bindings(d)' = Bindings(d)
         /\ Bindings(d) \subseteq DOMAIN stored
<1>1. \A n \in 1 .. deposits[d].at : n \in DOMAIN stored
  <2>1. deposits[d].at <= Len(stored)
    BY DEF Known
  <2> QED
    BY <2>1, StoredGrow, SMT
<1>2. PICK w : w = deposits[d].source
  OBVIOUS
<1>3. ASSUME NEW n \in 1 .. deposits[d].at PROVE Binds(n, w)' <=> Binds(n, w)
  BY <1>1, BindsStays DEF Grows
<1>4. /\ Bindings(d)  = {n \in 1 .. deposits[d].at : Binds(n, w)}
      /\ Bindings(d)' = {n \in 1 .. deposits[d].at : Binds(n, w)'}
  BY <1>2 DEF Bindings, Binds
<1> QED
  BY <1>1, <1>3, <1>4

LEMMA DepositStays ==
  ASSUME Grows, deposits \in Seq(Deposits), NEW d \in DOMAIN deposits, Known(d), Fate(d),
         deposits'[d] = deposits[d]
  PROVE  Known(d)' /\ Fate(d)'
<1>1. deposits[d].at \in Nat
  BY DepositFields
<1>2. Bindings(d)' = Bindings(d)
  BY <1>1, BindingsStay
<1>3. Known(d)'
  <2>1. deposits[d].at <= Len(stored')
    <3>1. deposits[d].at <= Len(stored)
      BY DEF Known
    <3> QED
      BY <1>1, <3>1, StoredGrow, SMT
  <2> QED
    BY <2>1 DEF Known, Grows, RequestsGrow
<1>4. /\ \A n \in DOMAIN stored : n \in DOMAIN stored' /\ stored'[n] = stored[n]
      /\ \A i \in DOMAIN requests :
           /\ i \in DOMAIN requests'
           /\ requests'[i].kind = requests[i].kind
           /\ requests'[i].wallet = requests[i].wallet
           /\ requests'[i].chain = requests[i].chain
  <2>1. ASSUME NEW n \in DOMAIN stored PROVE n \in DOMAIN stored'
    BY SMT DEF Grows, BookGrows
  <2> QED
    BY <2>1 DEF Grows, RequestsGrow, BookGrows
<1>5. deposits[d].kind = "bgl" => deposits[d].source \in DOMAIN requests
  BY DEF Known
<1>6. Fate(d)'
  BY <1>2, <1>4, <1>5, Zenon DEF Fate
<1> QED
  BY <1>3, <1>6

LEMMA NotBeforeStays ==
  ASSUME Grows, NEW d, Known(d), deposits[d].at \in Nat,
         deposits'[d].at = deposits[d].at, deposits'[d].source = deposits[d].source,
         NEW i, NotBefore(d, i)
  PROVE  NotBefore(d, i)'
<1>1. Bindings(d)' = Bindings(d)
  BY BindingsStay
<1>2. PICK n \in DOMAIN stored : stored[n] = i /\ \A b \in Bindings(d) : b <= n
  BY DEF NotBefore
<1>3. n \in DOMAIN stored' /\ stored'[n] = i
  BY <1>2, SMT DEF Grows, BookGrows
<1>4. i \in DOMAIN requests'
      /\ requests'[i].kind = "wbgl" /\ requests'[i].wallet = deposits[d].source
  BY DEF NotBefore, Grows, RequestsGrow
<1> QED
  BY <1>1, <1>2, <1>3, <1>4 DEF NotBefore

(* Requests that come in while a worker looks a source up, or after it,    *)
(* leave what it has been told and will be told right.                     *)
LEMMA RightStays ==
  ASSUME Grows, NEW d, NEW g, Known(d), RightFor(d, g), deposits[d].at \in Nat,
         deposits[d].kind \in {"bgl", "wbgl"},
         deposits'[d].at = deposits[d].at, deposits'[d].source = deposits[d].source,
         deposits'[d].kind = deposits[d].kind, look'[g] = look[g]
  PROVE  RightFor(d, g)'
<1>1. Bindings(d)' = Bindings(d)
  BY BindingsStay
<1>2. SourceKey(d)' = SourceKey(d)
  BY DEF SourceKey
<1>3. PICK mixed : mixed = MixedKey(look[g].key)
  OBVIOUS
<1>4. ASSUME NEW i, NotBefore(d, i) PROVE NotBefore(d, i)'
  BY <1>4, NotBeforeStays
<1>5. CASE deposits[d].kind = "bgl"
  BY <1>2, <1>5, Zenon DEF RightFor
<1>6. CASE deposits[d].kind = "wbgl"
  <2>1. mixed = MixedKey(EVMKey(deposits[d].source)) /\ deposits[d].source \in Wallets
    BY <1>3, <1>6, Zenon DEF RightFor, SourceKey, Known
  <2>2. /\ mixed \in DOMAIN book' <=> mixed \in DOMAIN book
        /\ mixed \in DOMAIN book => book'[mixed] = book[mixed]
    BY <2>1 DEF Grows, BookGrows
  <2>3. ASSUME look[g].pc = "mixed"
        PROVE  \E j : /\ mixed \in DOMAIN book' => book'[mixed] = j /\ NotBefore(d, j)'
                      /\ mixed \notin DOMAIN book' => Bindings(d)' = {}
    <3>1. PICK j : j = book[mixed]
      OBVIOUS
    <3>2. IF mixed \in DOMAIN book THEN NotBefore(d, j) ELSE Bindings(d) = {}
      BY <1>3, <1>6, <2>3, <3>1, Zenon DEF RightFor
    <3> QED
      BY <1>1, <1>4, <2>2, <3>1, <3>2, Zenon
  <2>4. PICK j : j = look[g].id
    OBVIOUS
  <2>5. ASSUME look[g].pc = "done"
        PROVE  IF j = 0 THEN Bindings(d)' = {} ELSE NotBefore(d, j)'
    <3>1. IF j = 0 THEN Bindings(d) = {} ELSE NotBefore(d, j)
      BY <1>6, <2>4, <2>5, Zenon DEF RightFor
    <3> QED
      BY <1>1, <1>4, <3>1
  <2>6. /\ look'[g].key = SourceKey(d)'
        /\ look'[g].pc \in {"lower", "mixed", "done", "error"}
    BY <1>2 DEF RightFor
  <2> QED
    BY <1>3, <1>6, <2>3, <2>4, <2>5, <2>6, Zenon DEF RightFor
<1> QED
  BY <1>5, <1>6

(***************************************************************************)
(* The lookups of the workers.                                             *)
(***************************************************************************)
LEMMA KeysAreNat ==
  ASSUME requests \in Seq(Request), KeysLead, NEW k \in DOMAIN book
  PROVE  book[k] \in DOMAIN requests /\ book[k] \in Nat /\ book[k] # 0
BY RequestFields DEF KeysLead, LeadsTo

LEMMA LookupFacts ==
  ASSUME RoutesTypeOK, KeysLead, NEW g \in BookLookers,
         GetLower(g) \/ GetMixed(g) \/ GetFails(g)
  PROVE  /\ UNCHANGED <<requests, book, stored>>
         /\ look' \in [BookLookers -> Lookups]
         /\ \A h \in BookLookers : h # g => look'[h] = look[h]
         /\ look'[g].key = look[g].key
         /\ LET k == look[g].key
            IN  \/ look'[g].pc = "error" /\ look[g].pc \in {"lower", "mixed"}
                \/ /\ look[g].pc = "lower" /\ k \in DOMAIN book
                   /\ look'[g].pc = "done" /\ look'[g].id = book[k]
                \/ /\ look[g].pc = "lower" /\ k \notin DOMAIN book
                   /\ look'[g].pc = "mixed"
                \/ /\ look[g].pc = "mixed" /\ look'[g].pc = "done"
                   /\ look'[g].id = IF MixedKey(k) \in DOMAIN book
                                    THEN book[MixedKey(k)] ELSE 0
<1> DEFINE k == look[g].key
<1>1. look[g] \in Lookups /\ look \in [BookLookers -> Lookups]
  BY DEF RoutesTypeOK
<1>2. \A x \in DOMAIN book : book[x] \in Nat
  BY KeysAreNat DEF RoutesTypeOK
<1>3. PICK pc \in {"mixed", "done", "error"}, id \in Nat :
        /\ look' = [look EXCEPT ![g] = [look[g] EXCEPT !.pc = pc, !.id = id]]
        /\ \/ pc = "error" /\ look[g].pc \in {"lower", "mixed"}
           \/ /\ look[g].pc = "lower" /\ k \in DOMAIN book
              /\ pc = "done" /\ id = book[k]
           \/ look[g].pc = "lower" /\ k \notin DOMAIN book /\ pc = "mixed"
           \/ /\ look[g].pc = "mixed" /\ pc = "done"
              /\ id = IF MixedKey(k) \in DOMAIN book THEN book[MixedKey(k)] ELSE 0
  <2> DEFINE same == look[g].id
  <2>1. same \in Nat
    BY <1>1, SMT DEF Lookups
  <2>2. ASSUME NEW pc \in {"mixed", "error"}, look' = [look EXCEPT ![g].pc = pc]
        PROVE  look' = [look EXCEPT ![g] = [look[g] EXCEPT !.pc = pc, !.id = same]]
    <3>1. [look[g] EXCEPT !.pc = pc, !.id = same] = [look[g] EXCEPT !.pc = pc]
      BY <1>1, Zenon DEF Lookups
    <3> QED
      BY <2>2, <3>1, Zenon
  <2> HIDE DEF same
  <2>3. CASE GetFails(g)
    BY <2>1, <2>2, <2>3, Zenon DEF GetFails
  <2>4. CASE GetLower(g)
    <3>1. CASE k \in DOMAIN book
      <4>1. /\ look' = [look EXCEPT ![g].pc = "done", ![g].id = book[k]]
            /\ look[g].pc = "lower"
        BY <2>4, <3>1, Zenon DEF GetLower
      <4>2. look' = [look EXCEPT ![g] = [look[g] EXCEPT !.pc = "done", !.id = book[k]]]
        BY <4>1, Zenon
      <4> QED
        BY <1>2, <3>1, <4>1, <4>2, Zenon
    <3>2. CASE k \notin DOMAIN book
      BY <2>1, <2>2, <2>4, <3>2, Zenon DEF GetLower
    <3> QED
      BY <3>1, <3>2
  <2>5. CASE GetMixed(g)
    <3>1. PICK id : id = IF MixedKey(k) \in DOMAIN book THEN book[MixedKey(k)] ELSE 0
      OBVIOUS
    <3>2. id \in Nat
      BY <1>2, <3>1
    <3>3. /\ look' = [look EXCEPT ![g].pc = "done", ![g].id = id]
          /\ look[g].pc = "mixed"
      BY <2>5, <3>1, Zenon DEF GetMixed
    <3>4. look' = [look EXCEPT ![g] = [look[g] EXCEPT !.pc = "done", !.id = id]]
      BY <3>3, Zenon
    <3> QED
      BY <3>1, <3>2, <3>3, <3>4, Zenon
  <2> QED
    BY <2>3, <2>4, <2>5
<1> HIDE DEF k
<1>4. PICK r : r = [look[g] EXCEPT !.pc = pc, !.id = id]
  OBVIOUS
<1>5. r \in Lookups
  BY <1>1, <1>4, Zenon DEF Lookups
<1>6. r.pc = pc /\ r.id = id /\ r.key = look[g].key
  BY <1>1, <1>4, SMT DEF Lookups
<1>7. look' = [look EXCEPT ![g] = r]
  BY <1>3, <1>4, Zenon
<1>8. /\ look' \in [BookLookers -> Lookups] /\ look'[g] = r
      /\ \A h \in BookLookers : h # g => look'[h] = look[h]
  BY <1>1, <1>5, <1>7
<1>9. UNCHANGED <<requests, book, stored>>
  BY DEF GetLower, GetMixed, GetFails
<1> QED
  BY <1>3, <1>6, <1>8, <1>9 DEF k

(* The record that a key of a wallet leads to is one of the wallet.        *)
LEMMA WalletKeyLeads ==
  ASSUME KeysLead, NEW w, NEW k \in DOMAIN book,
         k = EVMKey(w) \/ k = MixedKey(EVMKey(w))
  PROVE  /\ book[k] \in DOMAIN requests
         /\ requests[book[k]].kind = "wbgl" /\ requests[book[k]].wallet = w
<1>1. PICK i : i = book[k]
  OBVIOUS
<1>2. LeadsTo(k, i)
  BY <1>1 DEF KeysLead
<1>3. i \in DOMAIN requests /\ requests[i].kind = "wbgl" /\ requests[i].wallet = w
  <2>1. PICK x : x = requests[i].wallet
    OBVIOUS
  <2>2. /\ i \in DOMAIN requests
        /\ \/ requests[i].kind = "bgl" /\ k = BGLKey(i)
           \/ requests[i].kind = "wbgl" /\ (k = EVMKey(x) \/ k = MixedKey(EVMKey(x)))
    BY <1>2, <2>1 DEF LeadsTo
  <2>3. k # BGLKey(i)
    BY KeysDiffer, Zenon
  <2>4. k = EVMKey(x) \/ k = MixedKey(EVMKey(x)) => x = w
    BY KeysDiffer DEF EVMKey, MixedKey
  <2> QED
    BY <2>1, <2>2, <2>3, <2>4
<1> QED
  BY <1>1, <1>3

LEMMA LatestIsNotBefore ==
  ASSUME StoredAreRequests, NEW d, Known(d), deposits[d].at \in Nat,
         DOMAIN stored = 1 .. Len(stored), Len(stored) \in Nat,
         NEW i \in DOMAIN requests, requests[i].kind = "wbgl",
         requests[i].wallet = deposits[d].source, Latest(i, deposits[d].source)
  PROVE  NotBefore(d, i)
<1>1. PICK w : w = deposits[d].source
  OBVIOUS
<1>2. PICK n \in DOMAIN stored :
        stored[n] = i /\ \A m \in DOMAIN stored : Binds(m, w) => m <= n
  BY <1>1 DEF Latest
<1>3. ASSUME NEW b \in Bindings(d) PROVE b <= n
  <2>1. b \in 1 .. deposits[d].at /\ Binds(b, w)
    BY <1>1 DEF Bindings, Binds
  <2>2. b \in DOMAIN stored
    <3>1. deposits[d].at <= Len(stored)
      BY DEF Known
    <3> QED
      BY <2>1, <3>1, SMT
  <2> QED
    BY <1>2, <2>1, <2>2
<1> QED
  BY <1>2, <1>3 DEF NotBefore

(* A step of a lookup is right for the deposit it is made for.             *)
LEMMA LookupIsRight ==
  ASSUME RoutesTypeOK, BookInv, NEW g \in BookLookers,
         GetLower(g) \/ GetMixed(g) \/ GetFails(g), UNCHANGED deposits,
         NEW d \in DOMAIN deposits, Known(d), RightFor(d, g)
  PROVE  RightFor(d, g)'
<1>1. PICK k : k = look[g].key
  OBVIOUS
<1>2. /\ UNCHANGED <<requests, book, stored>>
      /\ look'[g].key = k
      /\ \/ look'[g].pc = "error" /\ look[g].pc \in {"lower", "mixed"}
         \/ /\ look[g].pc = "lower" /\ k \in DOMAIN book
            /\ look'[g].pc = "done" /\ look'[g].id = book[k]
         \/ /\ look[g].pc = "lower" /\ k \notin DOMAIN book
            /\ look'[g].pc = "mixed"
         \/ /\ look[g].pc = "mixed" /\ look'[g].pc = "done"
            /\ look'[g].id = IF MixedKey(k) \in DOMAIN book
                             THEN book[MixedKey(k)] ELSE 0
  BY <1>1, LookupFacts DEF BookInv
<1>3. SourceKey(d) = k /\ SourceKey(d)' = k
  BY <1>1 DEF RightFor, SourceKey
<1>4. deposits[d].at \in Nat /\ deposits[d].kind \in {"bgl", "wbgl"}
  BY DepositFields DEF RoutesTypeOK
<1>5. look'[g].pc \in {"lower", "mixed", "done", "error"}
  BY <1>2
<1>6. CASE deposits[d].kind = "bgl"
  <2>1. PICK i : i = deposits[d].source
    OBVIOUS
  <2>2. k = BGLKey(i)
    BY <1>3, <1>6, <2>1, Zenon DEF SourceKey
  <2>3. k \in DOMAIN book
    BY <1>6, <2>1, <2>2 DEF Known, BookInv, ToldAreStored
  <2>4. book[k] = i
    <3>1. PICK j : j = book[k]
      OBVIOUS
    <3>2. LeadsTo(k, j)
      BY <2>3, <3>1 DEF BookInv, KeysLead
    <3>3. j = i
      BY <2>2, <3>2, KeysDiffer, Zenon DEF LeadsTo
    <3> QED
      BY <3>1, <3>3
  <2>5. look[g].pc # "mixed"
    BY <1>6 DEF RightFor
  <2>6. look'[g].pc # "mixed" /\ (look'[g].pc = "done" => look'[g].id = i)
    BY <1>2, <2>3, <2>4, <2>5
  <2> QED
    BY <1>2, <1>3, <1>5, <1>6, <2>1, <2>6, Zenon DEF RightFor
<1>7. CASE deposits[d].kind = "wbgl"
  <2>1. PICK w : w = deposits[d].source
    OBVIOUS
  <2>2. k = EVMKey(w) /\ w \in Wallets
    BY <1>3, <1>7, <2>1, Zenon DEF SourceKey, Known
  <2>3. PICK mixed : mixed = MixedKey(k)
    OBVIOUS
  <2>4. LatestIsFound(w)
    BY <2>2 DEF BookInv
  <2>5. DOMAIN stored = 1 .. Len(stored) /\ Len(stored) \in Nat
    BY LenProperties DEF RoutesTypeOK
  <2>6. \A b \in Bindings(d) : b \in DOMAIN stored /\ Binds(b, w)
    <3>1. deposits[d].at <= Len(stored)
      BY DEF Known
    <3>2. \A b \in 1 .. deposits[d].at : b \in DOMAIN stored
      BY <1>4, <2>5, <3>1, SMT
    <3> QED
      BY <2>1, <3>2 DEF Bindings, Binds
  <2>7. ASSUME NEW x \in {k, mixed}, x \in DOMAIN book, NEW i, i = book[x], Latest(i, w)
        PROVE  NotBefore(d, i)
    <3>1. KeysLead /\ (x = EVMKey(w) \/ x = MixedKey(EVMKey(w)))
      BY <2>2, <2>3, <2>7 DEF BookInv
    <3>2. /\ book[x] \in DOMAIN requests
          /\ requests[book[x]].kind = "wbgl" /\ requests[book[x]].wallet = w
      BY <2>7, <3>1, WalletKeyLeads, Zenon
    <3> QED
      BY <1>4, <2>1, <2>5, <2>7, <3>2, LatestIsNotBefore DEF BookInv
  <2>8. ASSUME NEW i, NotBefore(d, i) PROVE NotBefore(d, i)' /\ i # 0
    <3>1. i # 0
      BY <2>8, RequestFields DEF RoutesTypeOK, NotBefore
    <3>2. NotBefore(d, i)'
      BY <1>2, <2>8 DEF NotBefore, Bindings
    <3> QED
      BY <3>1, <3>2
  <2>9. Bindings(d)' = Bindings(d)
    BY <1>2 DEF Bindings
  <2>10. ASSUME look'[g].pc = "mixed", NEW i, mixed \in DOMAIN book => i = book[mixed]
         PROVE  IF mixed \in DOMAIN book THEN NotBefore(d, i)' ELSE Bindings(d)' = {}
    <3>1. k \notin DOMAIN book
      BY <1>2, <2>10
    <3>2. IF mixed \in DOMAIN book THEN Latest(i, w)
                                   ELSE \A n \in DOMAIN stored : ~ Binds(n, w)
      BY <2>2, <2>3, <2>4, <2>10, <3>1, Zenon DEF LatestIsFound
    <3> QED
      BY <2>6, <2>7, <2>8, <2>9, <2>10, <3>2
  <2>11. ASSUME look'[g].pc = "done", NEW i, i = look'[g].id
         PROVE  IF i = 0 THEN Bindings(d)' = {} ELSE NotBefore(d, i)'
    <3>1. CASE look[g].pc = "lower"
      <4>1. k \in DOMAIN book /\ i = book[k]
        BY <1>2, <2>11, <3>1
      <4>2. Latest(i, w)
        BY <2>2, <2>4, <4>1, Zenon DEF LatestIsFound
      <4> QED
        BY <2>7, <2>8, <4>1, <4>2
    <3>2. CASE look[g].pc = "mixed"
      <4>1. i = IF mixed \in DOMAIN book THEN book[mixed] ELSE 0
        BY <1>2, <2>3, <2>11, <3>2
      <4>2. mixed \in DOMAIN book => NotBefore(d, i)
        BY <1>1, <1>7, <2>3, <3>2, <4>1, Zenon DEF RightFor
      <4>3. mixed \notin DOMAIN book => Bindings(d) = {}
        BY <1>1, <1>7, <2>3, <3>2, Zenon DEF RightFor
      <4> QED
        BY <2>8, <2>9, <4>1, <4>2, <4>3
    <3> QED
      BY <1>2, <2>11, <3>1, <3>2
  <2>12. PICK i : i = book[mixed]
    OBVIOUS
  <2>13. look'[g].pc = "mixed" =>
           IF mixed \in DOMAIN book THEN NotBefore(d, i)' ELSE Bindings(d)' = {}
    BY <2>10, <2>12
  <2>14. PICK j : j = look'[g].id
    OBVIOUS
  <2>15. look'[g].pc = "done" => IF j = 0 THEN Bindings(d)' = {} ELSE NotBefore(d, j)'
    BY <2>11, <2>14
  <2>16. book' = book /\ deposits'[d].kind = "wbgl"
    BY <1>2, <1>7
  <2> QED
    BY <1>2, <1>3, <1>5, <2>3, <2>12, <2>13, <2>14, <2>15, <2>16, Zenon DEF RightFor
<1> QED
  BY <1>4, <1>6, <1>7

(***************************************************************************)
(* The steps.  What most of them keep.                                     *)
(***************************************************************************)

(* Every deposit keeps what was sent.                                      *)
Identified ==
  /\ DOMAIN deposits' = DOMAIN deposits
  /\ \A e \in DOMAIN deposits :
       /\ deposits'[e].kind = deposits[e].kind
       /\ deposits'[e].source = deposits[e].source
       /\ deposits'[e].chain = deposits[e].chain
       /\ deposits'[e].at = deposits[e].at

LEMMA ChangeFacts ==
  ASSUME deposits \in Seq(Deposits), NEW d \in DOMAIN deposits, NEW r \in Deposits,
         r.kind = deposits[d].kind, r.source = deposits[d].source,
         r.chain = deposits[d].chain, r.at = deposits[d].at,
         deposits' = [deposits EXCEPT ![d] = r]
  PROVE  /\ deposits' \in Seq(Deposits) /\ Identified
         /\ deposits'[d] = r
         /\ \A e \in DOMAIN deposits : e # d => deposits'[e] = deposits[e]
<1>1. d \in 1 .. Len(deposits) /\ DOMAIN deposits = 1 .. Len(deposits)
  BY DepositFields, LenProperties
<1>2. /\ deposits' \in Seq(Deposits) /\ Len(deposits') = Len(deposits)
      /\ \A e \in 1 .. Len(deposits) : deposits'[e] = IF e = d THEN r ELSE deposits[e]
  BY <1>1, ExceptSeq
<1>3. DOMAIN deposits' = 1 .. Len(deposits)
  BY <1>2, LenProperties
<1> QED
  BY <1>1, <1>2, <1>3 DEF Identified

LEMMA UpdateFacts ==
  ASSUME deposits \in Seq(Deposits), NEW d \in DOMAIN deposits,
         NEW s \in Statuses, Update(d, s)
  PROVE  /\ deposits' \in Seq(Deposits) /\ Identified
         /\ \A e \in DOMAIN deposits : e # d => deposits'[e] = deposits[e]
         /\ deposits'[d].status = s
         /\ deposits'[d].destChain = deposits[d].destChain
         /\ deposits'[d].by = deposits[d].by
<1>1. PICK r : r = [deposits[d] EXCEPT !.status = s]
  OBVIOUS
<1>2. deposits[d] \in Deposits
  BY DepositFields
<1>3. r \in Deposits
  BY <1>1, <1>2, Zenon DEF Deposits
<1>4. /\ r.kind = deposits[d].kind /\ r.source = deposits[d].source
      /\ r.chain = deposits[d].chain /\ r.at = deposits[d].at
      /\ r.status = s /\ r.destChain = deposits[d].destChain /\ r.by = deposits[d].by
  BY <1>1, <1>2, SMT DEF Deposits
<1>5. deposits' = [deposits EXCEPT ![d] = r]
  BY <1>1, Zenon DEF Update
<1> QED
  BY <1>3, <1>4, <1>5, ChangeFacts

LEMMA UnchangedGrows ==
  ASSUME RoutesTypeOK, BookInv, UNCHANGED <<requests, book, stored>>
  PROVE  Grows /\ BookInv'
<1>1. RequestsGrow
  BY DEF RequestsGrow
<1>2. ToldAreStored'
  BY DEF BookInv, ToldAreStored
<1> QED
  BY <1>1, <1>2, BookUntouched DEF Grows, RoutesTypeOK, BookInv

(* The parts, taken apart and put together.                                *)
LEMMA Parts ==
  ASSUME RoutingInv
  PROVE  /\ RoutesTypeOK /\ BookInv
         /\ \A d \in DOMAIN deposits : Known(d) /\ Fate(d)
         /\ ScannerIsRight /\ WorkerHasDeposit /\ WorkerIsRight
BY FatesAreProperties DEF RoutingInv

LEMMA Assembled ==
  ASSUME RoutesTypeOK', BookInv', \A d \in DOMAIN deposits' : Known(d)' /\ Fate(d)',
         ScannerIsRight', WorkerHasDeposit', WorkerIsRight'
  PROVE  RoutingInv'
<1>1. (\A d \in DOMAIN deposits : Fate(d))'
  OBVIOUS
<1>2. (KnownSourceIsFound /\ NotBySupersededRecord /\ PaidWhereAsked /\ ReturnedToSender)'
  BY <1>1, FatesAreProperties2
<1> QED
  BY <1>2 DEF RoutingInv

LEMMA RightKept ==
  ASSUME RoutingInv, Grows, Identified, NEW d \in DOMAIN deposits, NEW g \in BookLookers,
         RightFor(d, g), look'[g] = look[g]
  PROVE  RightFor(d, g)'
<1>1. Known(d) /\ deposits[d].at \in Nat /\ deposits[d].kind \in {"bgl", "wbgl"}
  BY Parts, DepositFields DEF RoutesTypeOK
<1> QED
  BY <1>1, RightStays DEF Identified

LEMMA ScannerKept ==
  ASSUME RoutingInv, Grows, Identified, look'["BGL scanner"] = look["BGL scanner"],
         \A e \in DOMAIN deposits :
           deposits'[e].status = "scanned" => deposits[e].status = "scanned"
  PROVE  ScannerIsRight'
<1>1. ASSUME NEW d \in DOMAIN deposits, deposits[d].status = "scanned"
      PROVE  RightFor(d, "BGL scanner")'
  <2>1. RightFor(d, "BGL scanner")
    BY <1>1, Parts DEF ScannerIsRight
  <2> QED
    BY <2>1, RightKept DEF BookLookers
<1> QED
  BY <1>1, Parts DEF ScannerIsRight, Identified

LEMMA WorkerKept ==
  ASSUME RoutingInv, Grows, Identified, look'["sending worker"] = look["sending worker"],
         worker' = worker,
         \A e \in DOMAIN deposits :
           deposits[e].status = "pending" => deposits'[e].status = "pending"
  PROVE  WorkerHasDeposit' /\ WorkerIsRight'
<1>1. ASSUME NEW d \in DOMAIN deposits, worker.pc # "idle", worker.deposit = d
      PROVE  RightFor(d, "sending worker")'
  <2>1. RightFor(d, "sending worker")
    BY <1>1, Parts DEF WorkerIsRight
  <2> QED
    BY <2>1, RightKept DEF BookLookers
<1>2. WorkerHasDeposit'
  BY Parts DEF WorkerHasDeposit, Identified
<1> QED
  BY <1>1, <1>2, Parts DEF WorkerIsRight, Identified, Found

LEMMA OthersKept ==
  ASSUME RoutingInv, Grows, NEW e \in DOMAIN deposits, deposits'[e] = deposits[e]
  PROVE  Known(e)' /\ Fate(e)'
BY Parts, DepositStays DEF RoutesTypeOK

(* A status other than those of the properties changes no fate; a BGL      *)
(* deposit past the scanner has the chain it was asked for.                *)
LEMMA StatusKeeps ==
  ASSUME RoutingInv, UNCHANGED <<requests, book, stored>>, Identified,
         NEW d \in DOMAIN deposits, deposits'[d].by = deposits[d].by,
         deposits'[d].status \notin {"executing", "returning"},
         deposits'[d].status = "missing" => deposits[d].kind = "wbgl" /\ Bindings(d) = {},
         (deposits[d].kind = "bgl" /\
           deposits'[d].status \notin {"sent", "scanned", "passed over"}) =>
             deposits'[d].destChain = ChainId(requests[deposits[d].source].chain)
  PROVE  Known(d)' /\ Fate(d)'
<1>1. Bindings(d)' = Bindings(d)
  BY DEF Identified, Bindings
<1>2. Known(d) /\ Fate(d)
  BY Parts
<1>3. Known(d)'
  BY <1>2 DEF Known, Identified
<1>4. Fate(d)'
  BY <1>1, <1>2, Zenon DEF Fate, Identified
<1> QED
  BY <1>3, <1>4

(***************************************************************************)
(* Steps of the handlers and lookups.                                      *)
(***************************************************************************)
LEMMA BookSteps ==
  ASSUME RoutingInv, HandlerStep, UNCHANGED <<deposits, worker>>
  PROVE  RoutingInv'
<1>1. /\ BookInv' /\ Grows
      /\ stored' \in Seq(Nat) /\ requests' \in Seq(Request) /\ look' = look
  BY Parts, HandlersKeepBook DEF RoutesTypeOK, Grows, BookInv
<1>2. RoutesTypeOK'
  BY <1>1, Parts DEF RoutesTypeOK, Lookups, Keys, Deposits, EvmChains, Addresses, Chains
<1>3. Identified
  BY DEF Identified
<1> QED
  BY <1>1, <1>2, <1>3, OthersKept, ScannerKept, WorkerKept, Assembled

LEMMA LookupSteps ==
  ASSUME RoutingInv, LookupStep, UNCHANGED <<deposits, worker>>
  PROVE  RoutingInv'
<1>1. PICK g \in BookLookers : GetLower(g) \/ GetMixed(g) \/ GetFails(g)
  BY DEF LookupStep
<1>2. /\ UNCHANGED <<requests, book, stored>>
      /\ look' \in [BookLookers -> Lookups]
      /\ \A h \in BookLookers : h # g => look'[h] = look[h]
      /\ look[g].pc \in {"lower", "mixed"}
  BY <1>1, Parts, LookupFacts DEF BookInv, RoutesTypeOK
<1>3. Grows /\ BookInv'
  BY <1>2, Parts, UnchangedGrows
<1>4. RoutesTypeOK'
  BY <1>2, Parts DEF RoutesTypeOK
<1>5. Identified
  BY DEF Identified
<1>6. ASSUME NEW d \in DOMAIN deposits, NEW h \in BookLookers, RightFor(d, h)
      PROVE  RightFor(d, h)'
  <2>1. CASE h = g
    BY <1>1, <1>6, <2>1, Parts, LookupIsRight
  <2>2. CASE h # g
    BY <1>2, <1>3, <1>5, <1>6, <2>2, RightKept
  <2> QED
    BY <2>1, <2>2
<1>7. ScannerIsRight'
  BY <1>6, Parts DEF ScannerIsRight, BookLookers
<1>8. worker.pc \in {"forward", "return"} /\ worker.deposit \in DOMAIN deposits =>
        Found("sending worker")'
  <2>1. SUFFICES ASSUME worker.pc \in {"forward", "return"},
                        worker.deposit \in DOMAIN deposits
                 PROVE  Found("sending worker")'
    OBVIOUS
  <2>2. Found("sending worker")
    BY <2>1, Parts DEF WorkerIsRight
  <2> QED
    BY <1>2, <2>2 DEF Found, BookLookers
<1>9. WorkerHasDeposit' /\ WorkerIsRight'
  BY <1>6, <1>8, Parts DEF WorkerIsRight, WorkerHasDeposit, BookLookers
<1> QED
  BY <1>3, <1>4, <1>7, <1>9, OthersKept, Assembled

(***************************************************************************)
(* A deposit is sent.                                                      *)
(***************************************************************************)
LEMMA AppendedFacts ==
  ASSUME RoutesTypeOK, NEW r \in Deposits, deposits' = Append(deposits, r)
  PROVE  /\ deposits' \in Seq(Deposits)
         /\ DOMAIN deposits \subseteq DOMAIN deposits'
         /\ \A e \in DOMAIN deposits : deposits'[e] = deposits[e]
         /\ \A e \in DOMAIN deposits' : e \in DOMAIN deposits \/ deposits'[e] = r
<1>1. /\ deposits' \in Seq(Deposits) /\ Len(deposits') = Len(deposits) + 1
      /\ \A e \in 1 .. Len(deposits) : deposits'[e] = deposits[e]
      /\ deposits'[Len(deposits) + 1] = r
  BY AppendProperties DEF RoutesTypeOK
<1>2. /\ DOMAIN deposits = 1 .. Len(deposits) /\ DOMAIN deposits' = 1 .. Len(deposits')
      /\ Len(deposits) \in Nat
  BY <1>1, LenProperties DEF RoutesTypeOK
<1>3. DOMAIN deposits \subseteq DOMAIN deposits'
      /\ \A e \in DOMAIN deposits' : e \in DOMAIN deposits \/ e = Len(deposits) + 1
  BY <1>1, <1>2, SMT
<1> QED
  BY <1>1, <1>2, <1>3

LEMMA SentFacts ==
  ASSUME RoutesTypeOK, NEW kind \in {"bgl", "wbgl"},
         NEW source \in Nat \union Wallets, NEW chain \in Chains
  PROVE  \E r \in Deposits :
           /\ r = Deposit(kind, source, chain)
           /\ r.status = "sent" /\ r.by = 0 /\ r.at = Len(stored)
           /\ r.kind = kind /\ r.source = source
<1>1. Len(stored) \in Nat
  BY LenProperties DEF RoutesTypeOK
<1>2. "sent" \in Statuses /\ <<>> \in Addresses /\ 0 \in Chains /\ 0 \in Nat
  BY SMT DEF Statuses, Addresses, Chains
<1>3. PICK r : r = Deposit(kind, source, chain)
  OBVIOUS
<1>4. r \in Deposits
  BY <1>1, <1>2, <1>3, Zenon DEF Deposit, Deposits
<1> QED
  BY <1>3, <1>4 DEF Deposit

(* What it is.                                                             *)
LEMMA SentDeposit ==
  ASSUME RoutingInv, Send
  PROVE  \E r \in Deposits :
           /\ deposits' = Append(deposits, r)
           /\ r.status = "sent" /\ r.by = 0 /\ r.at = Len(stored)
           /\ \/ /\ r.kind = "bgl" /\ r.source \in DOMAIN requests
                 /\ requests[r.source].kind = "bgl" /\ requests[r.source].pc = "told"
              \/ r.kind = "wbgl" /\ r.source \in Wallets
<1>1. CASE \E i \in DOMAIN requests :
             /\ requests[i].kind = "bgl" /\ requests[i].pc = "told"
             /\ deposits' = Append(deposits, Deposit("bgl", i, 0))
  <2>1. PICK i \in DOMAIN requests :
          /\ requests[i].kind = "bgl" /\ requests[i].pc = "told"
          /\ deposits' = Append(deposits, Deposit("bgl", i, 0))
    BY <1>1
  <2>2. /\ "bgl" \in {"bgl", "wbgl"} /\ i \in Nat \union Wallets
        /\ 0 \in Chains
    BY Parts, RequestFields DEF RoutesTypeOK, Chains
  <2>3. PICK r \in Deposits :
          /\ r = Deposit("bgl", i, 0)
          /\ r.status = "sent" /\ r.by = 0 /\ r.at = Len(stored)
          /\ r.kind = "bgl" /\ r.source = i
    <3>1. RoutesTypeOK
      BY Parts
    <3> QED
      BY <2>2, <3>1, SentFacts, ZenonT(60)
  <2> QED
    BY <2>1, <2>3
<1>2. CASE \E w \in Wallets, c \in EvmChains :
             deposits' = Append(deposits, Deposit("wbgl", w, c))
  <2>1. PICK w \in Wallets, c \in EvmChains :
          deposits' = Append(deposits, Deposit("wbgl", w, c))
    BY <1>2
  <2>2. /\ "wbgl" \in {"bgl", "wbgl"} /\ w \in Nat \union Wallets
        /\ c \in Chains
    BY DEF Chains
  <2>3. PICK r \in Deposits :
          /\ r = Deposit("wbgl", w, c)
          /\ r.status = "sent" /\ r.by = 0 /\ r.at = Len(stored)
          /\ r.kind = "wbgl" /\ r.source = w
    BY <2>2, Parts, SentFacts, Zenon
  <2> QED
    BY <2>1, <2>3
<1> QED
  BY <1>1, <1>2 DEF Send

LEMMA SendStep ==
  ASSUME RoutingInv, Send
  PROVE  RoutingInv'
<1>1. UNCHANGED <<requests, book, stored, look, worker>>
  BY DEF Send, bookVars
<1>2. Grows /\ BookInv'
  BY <1>1, Parts, UnchangedGrows
<1>3. PICK r \in Deposits :
        /\ deposits' = Append(deposits, r)
        /\ r.status = "sent" /\ r.by = 0 /\ r.at = Len(stored)
        /\ \/ /\ r.kind = "bgl" /\ r.source \in DOMAIN requests
              /\ requests[r.source].kind = "bgl" /\ requests[r.source].pc = "told"
           \/ r.kind = "wbgl" /\ r.source \in Wallets
  BY SentDeposit
<1>4. /\ deposits' \in Seq(Deposits)
      /\ DOMAIN deposits \subseteq DOMAIN deposits'
      /\ \A e \in DOMAIN deposits : deposits'[e] = deposits[e]
      /\ \A e \in DOMAIN deposits' : e \in DOMAIN deposits \/ deposits'[e] = r
  BY <1>3, Parts, AppendedFacts
<1>5. RoutesTypeOK'
  BY <1>1, <1>4, Parts DEF RoutesTypeOK
<1>6. ASSUME NEW e \in DOMAIN deposits', e \notin DOMAIN deposits
      PROVE  Known(e)' /\ Fate(e)'
  <2>1. deposits'[e] = r
    BY <1>4, <1>6
  <2>2. r.at <= Len(stored')
    <3>1. Len(stored) \in Nat
      BY Parts, LenProperties DEF RoutesTypeOK
    <3> QED
      BY <1>1, <1>3, <3>1, SMT
  <2> QED
    BY <1>1, <1>3, <2>1, <2>2 DEF Known, Fate
<1>7. ASSUME NEW d \in DOMAIN deposits, NEW g, RightFor(d, g) PROVE RightFor(d, g)'
  <2>1. Known(d) /\ deposits[d].at \in Nat /\ deposits[d].kind \in {"bgl", "wbgl"}
    BY Parts, DepositFields DEF RoutesTypeOK
  <2> QED
    BY <1>1, <1>2, <1>4, <1>7, <2>1, RightStays
<1>8. \A e \in DOMAIN deposits' : deposits'[e].status = "scanned" => e \in DOMAIN deposits
  BY <1>3, <1>4
<1>9. ScannerIsRight'
  BY <1>4, <1>7, <1>8, Parts DEF ScannerIsRight
<1>10. WorkerHasDeposit' /\ WorkerIsRight'
  BY <1>1, <1>4, <1>7, Parts DEF WorkerIsRight, WorkerHasDeposit, Found
<1> QED
  BY <1>2, <1>4, <1>5, <1>6, <1>9, <1>10, OthersKept, Assembled

(***************************************************************************)
(* The scanners.                                                           *)
(***************************************************************************)

(* A new lookup is right, having been told nothing; one that ends leaves   *)
(* the other alone.                                                        *)
LEMMA LookUpFacts ==
  ASSUME RoutesTypeOK, NEW g \in BookLookers, NEW d \in DOMAIN deposits, Known(d),
         LookUp(g, SourceKey(d)), Identified
  PROVE  /\ look' \in [BookLookers -> Lookups]
         /\ \A h \in BookLookers : h # g => look'[h] = look[h]
         /\ RightFor(d, g)'
<1>1. PICK k : k = SourceKey(d)
  OBVIOUS
<1>2. deposits[d].kind \in {"bgl", "wbgl"}
  BY DepositFields DEF RoutesTypeOK
<1>3. k \in Keys
  <2>1. CASE deposits[d].kind = "bgl"
    <3>1. deposits[d].source \in Nat
      BY <2>1, RequestFields DEF Known, RoutesTypeOK
    <3> QED
      BY <1>1, <2>1, <3>1 DEF SourceKey, BGLKey, Keys
  <2>2. CASE deposits[d].kind = "wbgl"
    BY <1>1, <2>2 DEF SourceKey, EVMKey, Keys, Known
  <2> QED
    BY <1>2, <2>1, <2>2
<1>4. PICK r : r = [pc |-> "lower", key |-> k, id |-> 0]
  OBVIOUS
<1>5. r \in Lookups /\ r.pc = "lower" /\ r.key = k
  BY <1>3, <1>4, SMT DEF Lookups
<1>6. look' = [look EXCEPT ![g] = r]
  BY <1>1, <1>4, Zenon DEF LookUp
<1>7. /\ look' \in [BookLookers -> Lookups] /\ look'[g] = r
      /\ \A h \in BookLookers : h # g => look'[h] = look[h]
  BY <1>5, <1>6 DEF RoutesTypeOK
<1>8. SourceKey(d)' = k
  BY <1>1 DEF SourceKey, Identified
<1>9. RightFor(d, g)'
  BY <1>5, <1>7, <1>8, Zenon DEF RightFor
<1> QED
  BY <1>7, <1>9

LEMMA FinishFacts ==
  ASSUME RoutesTypeOK, NEW g \in BookLookers, Finish(g)
  PROVE  /\ look' \in [BookLookers -> Lookups]
         /\ \A h \in BookLookers : h # g => look'[h] = look[h]
<1>1. NotLooking \in Lookups
  BY SMT DEF NotLooking, Lookups, Keys
<1> QED
  BY <1>1 DEF RoutesTypeOK, Finish

LEMMA EvmScanStep ==
  ASSUME RoutingInv, NEW d \in DOMAIN deposits, EvmScan(d)
  PROVE  RoutingInv'
<1>1. /\ UNCHANGED <<requests, book, stored, look, worker>>
      /\ Update(d, "pending")
      /\ deposits[d].kind = "wbgl" /\ deposits[d].status = "sent"
  BY DEF EvmScan, bookVars
<1>2. Grows /\ BookInv'
  BY <1>1, Parts, UnchangedGrows
<1>3. /\ deposits' \in Seq(Deposits) /\ Identified
      /\ \A e \in DOMAIN deposits : e # d => deposits'[e] = deposits[e]
      /\ deposits'[d].status = "pending"
      /\ deposits'[d].by = deposits[d].by
  BY <1>1, Parts, UpdateFacts DEF Statuses, RoutesTypeOK
<1>4. RoutesTypeOK'
  BY <1>1, <1>3, Parts DEF RoutesTypeOK
<1>5. Known(d)' /\ Fate(d)'
  BY <1>1, <1>3, StatusKeeps
<1>6. \A e \in DOMAIN deposits' : Known(e)' /\ Fate(e)'
  BY <1>2, <1>3, <1>5, OthersKept DEF Identified
<1>7. ScannerIsRight'
  BY <1>1, <1>2, <1>3, ScannerKept
<1>8. WorkerHasDeposit' /\ WorkerIsRight'
  BY <1>1, <1>2, <1>3, WorkerKept
<1> QED
  BY <1>2, <1>4, <1>6, <1>7, <1>8, Assembled

LEMMA BglScanStep ==
  ASSUME RoutingInv, NEW d \in DOMAIN deposits, BglScan(d)
  PROVE  RoutingInv'
<1>1. /\ UNCHANGED <<requests, book, stored, worker>>
      /\ Update(d, "scanned") /\ LookUp("BGL scanner", BGLKey(deposits[d].source))
      /\ deposits[d].kind = "bgl" /\ deposits[d].status = "sent"
      /\ look["BGL scanner"].pc = "idle"
  BY DEF BglScan, BookKept
<1>2. Grows /\ BookInv'
  BY <1>1, Parts, UnchangedGrows
<1>3. /\ deposits' \in Seq(Deposits) /\ Identified
      /\ \A e \in DOMAIN deposits : e # d => deposits'[e] = deposits[e]
      /\ deposits'[d].status = "scanned"
      /\ deposits'[d].by = deposits[d].by
  BY <1>1, Parts, UpdateFacts DEF Statuses, RoutesTypeOK
<1>4. LookUp("BGL scanner", SourceKey(d))
  BY <1>1 DEF SourceKey
<1>5. /\ look' \in [BookLookers -> Lookups]
      /\ look'["sending worker"] = look["sending worker"]
      /\ RightFor(d, "BGL scanner")'
  BY <1>3, <1>4, Parts, LookUpFacts DEF BookLookers
<1>6. RoutesTypeOK'
  BY <1>1, <1>3, <1>5, Parts DEF RoutesTypeOK
<1>7. Known(d)' /\ Fate(d)'
  BY <1>1, <1>3, StatusKeeps
<1>8. \A e \in DOMAIN deposits' : Known(e)' /\ Fate(e)'
  BY <1>2, <1>3, <1>7, OthersKept DEF Identified
<1>9. ScannerIsRight'
  <2>1. ASSUME NEW e \in DOMAIN deposits, deposits'[e].status = "scanned" PROVE e = d
    <3>1. ASSUME e # d PROVE FALSE
      <4>1. RightFor(e, "BGL scanner")
        BY <1>3, <2>1, <3>1, Parts DEF ScannerIsRight
      <4> QED
        BY <1>1, <4>1 DEF RightFor
    <3> QED
      BY <3>1
  <2>2. deposits'[d].kind = "bgl" /\ DOMAIN deposits' = DOMAIN deposits
    BY <1>1, <1>3 DEF Identified
  <2> QED
    BY <1>5, <2>1, <2>2 DEF ScannerIsRight
<1>10. WorkerHasDeposit' /\ WorkerIsRight'
  BY <1>1, <1>2, <1>3, <1>5, WorkerKept
<1> QED
  BY <1>2, <1>6, <1>8, <1>9, <1>10, Assembled

LEMMA RequestChain ==
  ASSUME requests \in Seq(Request), NEW i \in DOMAIN requests,
         requests[i].chain \in Supported
  PROVE  ChainId(requests[i].chain) \in Chains
<1>1. requests[i].chain \in ChainNames
  BY RequestFields
<1> QED
  BY <1>1 DEF Chains, EvmChains

LEMMA BglScannedStep ==
  ASSUME RoutingInv, NEW d \in DOMAIN deposits, BglScanned(d)
  PROVE  RoutingInv'
<1> DEFINE g == "BGL scanner"
<1>1. /\ UNCHANGED <<requests, book, stored, worker>>
      /\ Finish(g) /\ deposits[d].status = "scanned"
  BY DEF BglScanned, BookKept
<1>2. Grows /\ BookInv'
  BY <1>1, Parts, UnchangedGrows
<1>3. PICK i : i = deposits[d].source
  OBVIOUS
<1>4. /\ RightFor(d, g) /\ deposits[d].kind = "bgl"
      /\ \A e \in DOMAIN deposits : deposits[e].status = "scanned" => e = d
  BY <1>1, Parts DEF ScannerIsRight
<1>5. look[g].pc = "done" => look[g].id = i
  BY <1>3, <1>4 DEF RightFor
<1>6. i \in DOMAIN requests /\ requests[i].chain \in Supported /\ i # 0
  <2>1. i \in DOMAIN requests /\ requests[i].pc = "told"
    BY <1>3, <1>4, Parts DEF Known
  <2> QED
    BY <2>1, Parts, RequestFields DEF BookInv, ToldAreStored, RoutesTypeOK
<1>7. /\ deposits' \in Seq(Deposits) /\ Identified
      /\ \A e \in DOMAIN deposits : e # d => deposits'[e] = deposits[e]
      /\ deposits'[d].by = deposits[d].by
      /\ \/ deposits'[d].status = "passed over"
         \/ /\ deposits'[d].status = "pending"
            /\ deposits'[d].destChain = ChainId(requests[i].chain)
  <2>1. CASE Found(g)
    <3>1. deposits' = [deposits EXCEPT ![d].status = "pending",
                                       ![d].destChain = ChainId(requests[i].chain)]
      BY <1>5, <1>6, <2>1 DEF BglScanned, Found, Absent
    <3>2. PICK c, r : /\ c = ChainId(requests[i].chain)
                      /\ r = [deposits[d] EXCEPT !.status = "pending", !.destChain = c]
      OBVIOUS
    <3>3. c \in Chains /\ deposits[d] \in Deposits /\ "pending" \in Statuses
      BY <1>6, <3>2, Parts, RequestChain, DepositFields DEF RoutesTypeOK, Statuses
    <3>4. r \in Deposits
      BY <3>2, <3>3, Zenon DEF Deposits
    <3>5. /\ r.kind = deposits[d].kind /\ r.source = deposits[d].source
          /\ r.chain = deposits[d].chain /\ r.at = deposits[d].at
          /\ r.status = "pending" /\ r.destChain = c /\ r.by = deposits[d].by
      BY <3>2, <3>3, SMT DEF Deposits
    <3>6. deposits' = [deposits EXCEPT ![d] = r]
      BY <3>1, <3>2, Zenon
    <3> QED
      BY <3>2, <3>4, <3>5, <3>6, Parts, ChangeFacts DEF RoutesTypeOK
  <2>2. CASE ~ Found(g)
    <3>1. Update(d, "passed over") /\ "passed over" \in Statuses
      BY <1>5, <1>6, <2>2 DEF BglScanned, Found, Absent, Statuses
    <3> QED
      BY <3>1, Parts, UpdateFacts DEF RoutesTypeOK
  <2> QED
    BY <2>1, <2>2
<1>8. /\ look' \in [BookLookers -> Lookups]
      /\ look'["sending worker"] = look["sending worker"]
  BY <1>1, Parts, FinishFacts DEF BookLookers
<1>9. RoutesTypeOK'
  BY <1>1, <1>7, <1>8, Parts DEF RoutesTypeOK
<1>10. Known(d)' /\ Fate(d)'
  BY <1>1, <1>3, <1>7, StatusKeeps
<1>11. \A e \in DOMAIN deposits' : Known(e)' /\ Fate(e)'
  BY <1>2, <1>7, <1>10, OthersKept DEF Identified
<1>12. ScannerIsRight'
  BY <1>4, <1>7 DEF ScannerIsRight, Identified
<1>13. WorkerHasDeposit' /\ WorkerIsRight'
  BY <1>1, <1>2, <1>7, <1>8, WorkerKept
<1> QED
  BY <1>2, <1>9, <1>11, <1>12, <1>13, Assembled

(***************************************************************************)
(* The sending worker.                                                     *)
(***************************************************************************)
LEMMA TakeStep ==
  ASSUME RoutingInv, NEW d \in DOMAIN deposits, Take(d)
  PROVE  RoutingInv'
<1>1. /\ UNCHANGED <<requests, book, stored, deposits>>
      /\ LookUp("sending worker", SourceKey(d))
      /\ worker' = [Idle EXCEPT !.pc = "address", !.deposit = d]
      /\ deposits[d].status = "pending"
  BY DEF Take, BookKept
<1>2. Grows /\ BookInv' /\ Identified
  BY <1>1, Parts, UnchangedGrows DEF Identified
<1>3. /\ look' \in [BookLookers -> Lookups]
      /\ look'["BGL scanner"] = look["BGL scanner"]
      /\ RightFor(d, "sending worker")'
  BY <1>1, <1>2, Parts, LookUpFacts DEF BookLookers
<1>4. /\ worker' = [pc |-> worker'.pc, deposit |-> worker'.deposit,
                    amount |-> worker'.amount, value |-> worker'.value]
      /\ worker'.pc = "address" /\ worker'.deposit = d
  BY <1>1, Zenon DEF Idle
<1>5. d \in Nat
  BY Parts, DepositFields DEF RoutesTypeOK
<1>6. RoutesTypeOK'
  BY <1>1, <1>3, <1>4, <1>5, Parts DEF RoutesTypeOK
<1>7. \A e \in DOMAIN deposits' : Known(e)' /\ Fate(e)'
  BY <1>1, <1>2, OthersKept
<1>8. ScannerIsRight'
  BY <1>1, <1>2, <1>3, ScannerKept
<1>9. WorkerHasDeposit' /\ WorkerIsRight'
  BY <1>1, <1>3, <1>4 DEF WorkerHasDeposit, WorkerIsRight
<1> QED
  BY <1>2, <1>6, <1>7, <1>8, <1>9, Assembled

(* Within the execution of an operation the worker keeps its deposit.      *)
LEMMA WorkerGoesOn ==
  ASSUME RoutingInv, UNCHANGED <<requests, book, stored, look, deposits>>,
         worker.pc # "idle", NEW pc \in {"forward", "return"}, NEW a, NEW v,
         worker' = [worker EXCEPT !.pc = pc, !.amount = a, !.value = v],
         Found("sending worker")
  PROVE  RoutingInv'
<1>1. Grows /\ BookInv' /\ Identified
  BY Parts, UnchangedGrows DEF Identified
<1>2. worker = [pc |-> worker.pc, deposit |-> worker.deposit,
                amount |-> worker.amount, value |-> worker.value]
  BY Parts DEF RoutesTypeOK
<1>3. worker' = [pc |-> worker'.pc, deposit |-> worker'.deposit,
                 amount |-> worker'.amount, value |-> worker'.value]
      /\ worker'.pc = pc /\ worker'.deposit = worker.deposit
  BY <1>2, Zenon
<1>4. RoutesTypeOK'
  BY <1>3, Parts DEF RoutesTypeOK
<1>5. \A e \in DOMAIN deposits' : Known(e)' /\ Fate(e)'
  BY <1>1, OthersKept
<1>6. ScannerIsRight'
  BY <1>1, ScannerKept
<1>7. ASSUME NEW d \in DOMAIN deposits, worker.deposit = d
      PROVE  deposits[d].status = "pending" /\ RightFor(d, "sending worker")'
  <2>1. deposits[d].status = "pending" /\ RightFor(d, "sending worker")
    BY <1>7, Parts DEF WorkerIsRight
  <2> QED
    BY <1>1, <2>1, RightKept DEF BookLookers
<1>8. WorkerHasDeposit' /\ WorkerIsRight'
  BY <1>3, <1>7, Parts DEF WorkerHasDeposit, WorkerIsRight, Found
<1> QED
  BY <1>1, <1>4, <1>5, <1>6, <1>8, Assembled

LEMMA ComputeStep ==
  ASSUME RoutingInv, Compute
  PROVE  RoutingInv'
<1>1. /\ UNCHANGED <<requests, book, stored, look, deposits>>
      /\ worker.pc = "address" /\ Found("sending worker")
  BY DEF Compute, bookVars
<1>2. \E a, v : worker' = [worker EXCEPT !.pc = "forward", !.amount = a, !.value = v]
  BY Zenon DEF Compute
<1> QED
  BY <1>1, <1>2, WorkerGoesOn

LEMMA ForwardFailsStep ==
  ASSUME RoutingInv, ForwardFails
  PROVE  RoutingInv'
<1>1. /\ UNCHANGED <<requests, book, stored, look, deposits>>
      /\ worker.pc = "forward"
  BY DEF ForwardFails, bookVars
<1>2. worker' = [worker EXCEPT !.pc = "return", !.amount = 0, !.value = 0]
  BY DEF ForwardFails
<1>3. Found("sending worker")
  BY <1>1, Parts DEF WorkerHasDeposit, WorkerIsRight
<1> QED
  BY <1>1, <1>2, <1>3, WorkerGoesOn

(* The execution ends, one way or another.                                 *)
LEMMA WorkerEnds ==
  ASSUME RoutingInv, UNCHANGED <<requests, book, stored>>, worker.pc # "idle",
         NEW d \in DOMAIN deposits, worker.deposit = d, Identified,
         deposits' \in Seq(Deposits),
         \A e \in DOMAIN deposits : e # d => deposits'[e] = deposits[e],
         deposits'[d].status # "scanned", Known(d)', Fate(d)',
         worker' = Idle, Finish("sending worker")
  PROVE  RoutingInv'
<1>1. Grows /\ BookInv'
  BY Parts, UnchangedGrows
<1>2. /\ look' \in [BookLookers -> Lookups]
      /\ look'["BGL scanner"] = look["BGL scanner"]
  BY Parts, FinishFacts DEF BookLookers
<1>3. /\ worker' = [pc |-> worker'.pc, deposit |-> worker'.deposit,
                    amount |-> worker'.amount, value |-> worker'.value]
      /\ worker'.pc = "idle" /\ worker'.deposit = 0
  BY Zenon DEF Idle
<1>4. RoutesTypeOK'
  <2>1. worker'.pc \in {"idle", "address", "forward", "return"} /\ worker'.deposit \in Nat
    <3>1. 0 \in Nat
      OBVIOUS
    <3> QED
      BY <1>3, <3>1, Zenon
  <2>2. requests' \in Seq(Request) /\ stored' \in Seq(Nat)
    BY Parts DEF RoutesTypeOK
  <2> QED
    BY <1>2, <1>3, <2>1, <2>2, Zenon DEF RoutesTypeOK
<1>5. \A e \in DOMAIN deposits' : Known(e)' /\ Fate(e)'
  BY <1>1, OthersKept DEF Identified
<1>6. ScannerIsRight'
  BY <1>1, <1>2, ScannerKept
<1>7. WorkerHasDeposit' /\ WorkerIsRight'
  BY <1>3 DEF WorkerHasDeposit, WorkerIsRight
<1> QED
  BY <1>1, <1>4, <1>5, <1>6, <1>7, Assembled

(* What the worker knows of its deposit.                                   *)
LEMMA Working ==
  ASSUME RoutingInv, worker.pc # "idle", NEW d, d = worker.deposit
  PROVE  /\ d \in DOMAIN deposits /\ deposits[d].status = "pending"
         /\ RightFor(d, "sending worker")
         /\ worker.pc \in {"forward", "return"} => Found("sending worker")
         /\ deposits[d].kind \in {"bgl", "wbgl"} /\ deposits[d] \in Deposits
<1>1. d \in DOMAIN deposits
  BY Parts DEF WorkerHasDeposit
<1> QED
  BY <1>1, Parts, DepositFields DEF WorkerIsRight, RoutesTypeOK

LEMMA IdsAreNat ==
  ASSUME RoutingInv, NEW i, i = look["sending worker"].id
  PROVE  i \in Nat
<1>1. look["sending worker"] \in Lookups
  BY Parts DEF RoutesTypeOK, BookLookers
<1> QED
  <2>1. \A r \in Lookups : r.id \in Nat
    BY Zenon DEF Lookups
  <2> QED
    BY <1>1, <2>1

LEMMA SettleStep ==
  ASSUME RoutingInv, worker.pc # "idle", NEW d, d = worker.deposit,
         NEW s \in {"missing", "unread", "returnfail"}, Update(d, s),
         s = "missing" => Absent("sending worker"),
         worker' = Idle, Finish("sending worker"), UNCHANGED <<requests, book, stored>>
  PROVE  RoutingInv'
<1>1. /\ d \in DOMAIN deposits /\ deposits[d].status = "pending"
      /\ RightFor(d, "sending worker") /\ deposits[d].kind \in {"bgl", "wbgl"}
  BY Working
<1>2. s \in Statuses
  BY DEF Statuses
<1>3. /\ deposits' \in Seq(Deposits) /\ Identified
      /\ \A e \in DOMAIN deposits : e # d => deposits'[e] = deposits[e]
      /\ deposits'[d].status = s
      /\ deposits'[d].destChain = deposits[d].destChain
      /\ deposits'[d].by = deposits[d].by
  BY <1>1, <1>2, Parts, UpdateFacts DEF RoutesTypeOK
<1>4. s = "missing" => deposits[d].kind = "wbgl" /\ Bindings(d) = {}
  <2>1. SUFFICES ASSUME s = "missing" PROVE deposits[d].kind = "wbgl" /\ Bindings(d) = {}
    OBVIOUS
  <2>2. look["sending worker"].pc = "done" /\ look["sending worker"].id = 0
    BY <2>1 DEF Absent
  <2>3. deposits[d].kind # "bgl"
    <3>1. ASSUME deposits[d].kind = "bgl" PROVE FALSE
      <4>1. deposits[d].source = 0
        BY <1>1, <2>2, <3>1 DEF RightFor
      <4>2. deposits[d].source \in DOMAIN requests
        BY <1>1, <3>1, Parts DEF Known
      <4> QED
        BY <4>1, <4>2, Parts, RequestFields DEF RoutesTypeOK
    <3> QED
      BY <3>1
  <2> QED
    BY <1>1, <2>2, <2>3, Zenon DEF RightFor
<1>5. deposits[d].kind = "bgl" =>
        deposits'[d].destChain = ChainId(requests[deposits[d].source].chain)
  BY <1>1, <1>3, Parts DEF Known
<1>6. Known(d)' /\ Fate(d)'
  BY <1>1, <1>3, <1>4, <1>5, StatusKeeps
<1>7. deposits'[d].status # "scanned"
  BY <1>3
<1> QED
  BY <1>1, <1>3, <1>6, <1>7, WorkerEnds

LEMMA UnroutableStep ==
  ASSUME RoutingInv, Unroutable
  PROVE  RoutingInv'
BY SettleStep DEF Unroutable, BookKept

LEMMA GiveBackFailsStep ==
  ASSUME RoutingInv, GiveBackFails
  PROVE  RoutingInv'
BY SettleStep DEF GiveBackFails, BookKept

(* A payment by the record that was found.                                 *)
LEMMA PayStep ==
  ASSUME RoutingInv, worker.pc \in {"forward", "return"}, NEW d, d = worker.deposit,
         NEW i, i = look["sending worker"].id,
         NEW s \in {"executing", "returning"}, NEW address \in Addresses,
         NEW chain \in Chains, Pay(s, address, chain),
         s = "executing" =>
           \/ /\ deposits[d].kind = "bgl" /\ address = requests[i].wallet
              /\ chain = deposits[d].destChain
           \/ deposits[d].kind = "wbgl" /\ address = NamedBy(i),
         s = "returning" /\ deposits[d].kind = "wbgl" =>
           address = requests[i].wallet /\ chain = deposits[d].chain
  PROVE  RoutingInv'
<1>1. /\ d \in DOMAIN deposits /\ deposits[d].status = "pending"
      /\ RightFor(d, "sending worker") /\ Found("sending worker")
      /\ deposits[d].kind \in {"bgl", "wbgl"} /\ deposits[d] \in Deposits
  BY Working
<1>2. /\ UNCHANGED <<requests, book, stored>>
      /\ worker' = Idle /\ Finish("sending worker")
  BY DEF Pay, BookKept
<1>3. i # 0 /\ look["sending worker"].pc = "done"
  BY <1>1 DEF Found
<1>4. deposits[d].kind = "bgl" => i = deposits[d].source
  BY <1>1, <1>3 DEF RightFor
<1>5. deposits[d].kind = "wbgl" => NotBefore(d, i)
  BY <1>1, <1>3, Zenon DEF RightFor
<1>6. i \in Nat /\ s \in Statuses
  BY IdsAreNat DEF Statuses
<1>7. PICK r : r = [deposits[d] EXCEPT !.status = s, !.by = i,
                                       !.to = address, !.toChain = chain]
  OBVIOUS
<1>8. r \in Deposits
  BY <1>1, <1>6, <1>7, Zenon DEF Deposits
<1>9. /\ r.kind = deposits[d].kind /\ r.source = deposits[d].source
      /\ r.chain = deposits[d].chain /\ r.at = deposits[d].at
      /\ r.destChain = deposits[d].destChain
      /\ r.status = s /\ r.by = i /\ r.to = address /\ r.toChain = chain
  BY <1>1, <1>7, Zenon DEF Deposits
<1>10. deposits' = [deposits EXCEPT ![d] = r]
  BY <1>7, Zenon DEF Pay
<1>11. /\ deposits' \in Seq(Deposits) /\ Identified /\ deposits'[d] = r
       /\ \A e \in DOMAIN deposits : e # d => deposits'[e] = deposits[e]
  BY <1>1, <1>8, <1>9, <1>10, Parts, ChangeFacts DEF RoutesTypeOK
<1>12. Known(d)
  BY <1>1, Parts
<1>13. Known(d)'
  BY <1>1, <1>2, <1>9, <1>11, <1>12 DEF Known
<1>14. Bindings(d)' = Bindings(d)
  BY <1>2, <1>9, <1>11 DEF Bindings
<1>15. s = "executing" /\ deposits[d].kind = "bgl" =>
         /\ address = requests[deposits[d].source].wallet
         /\ Named(chain) = requests[deposits[d].source].chain
  <2>1. SUFFICES ASSUME s = "executing", deposits[d].kind = "bgl"
                 PROVE  /\ address = requests[deposits[d].source].wallet
                        /\ Named(chain) = requests[deposits[d].source].chain
    OBVIOUS
  <2>2. address = requests[i].wallet /\ chain = deposits[d].destChain
    BY <2>1
  <2>3. i \in DOMAIN requests /\ requests[i].pc = "told"
        /\ deposits[d].destChain = ChainId(requests[i].chain)
    BY <1>1, <1>4, <1>12, <2>1 DEF Known
  <2>4. requests[i].chain \in Supported
    BY <2>3, Parts DEF BookInv, ToldAreStored
  <2> QED
    BY <1>4, <2>1, <2>2, <2>3, <2>4, NamedOfChain
<1>16. deposits[d].kind = "wbgl" =>
         /\ i \in DOMAIN requests
         /\ requests[i].kind = "wbgl" /\ requests[i].wallet = deposits[d].source
         /\ \E n \in DOMAIN stored : stored[n] = i /\ \A b \in Bindings(d) : b <= n
  BY <1>5, Zenon DEF NotBefore
<1>17. Fate(d)'
  <2>1. s # "missing"
    OBVIOUS
  <2>2. CASE deposits[d].kind = "bgl"
    BY <1>2, <1>9, <1>11, <1>15, <2>1, <2>2 DEF Fate
  <2>3. CASE deposits[d].kind = "wbgl"
    <3>1. s = "executing" => address = NamedBy(i)
      BY <2>3
    <3>2. s = "returning" => address = deposits[d].source /\ chain = deposits[d].chain
      BY <1>16, <2>3
    <3> QED
      BY <1>2, <1>9, <1>11, <1>14, <1>16, <2>1, <2>3, <3>1, <3>2, Zenon DEF Fate
  <2> QED
    BY <1>1, <2>2, <2>3
<1>18. deposits'[d].status # "scanned"
  BY <1>9, <1>11
<1> QED
  BY <1>1, <1>2, <1>11, <1>13, <1>17, <1>18, WorkerEnds

LEMMA ForwardStep ==
  ASSUME RoutingInv, Forward
  PROVE  RoutingInv'
<1>1. PICK d, i : d = worker.deposit /\ i = look["sending worker"].id
  OBVIOUS
<1>2. worker.pc = "forward"
  BY DEF Forward
<1>3. /\ d \in DOMAIN deposits /\ deposits[d] \in Deposits
      /\ RightFor(d, "sending worker") /\ Found("sending worker")
  BY <1>1, <1>2, Working
<1>4. CASE deposits[d].kind = "bgl" /\ Pay("executing", Record.wallet, deposits[d].destChain)
  <2>1. i \in DOMAIN requests
    BY <1>1, <1>3, <1>4, Parts DEF RightFor, Found, Known
  <2>2. requests[i].wallet \in Addresses
    BY <2>1, Parts, RequestFields DEF Addresses, RoutesTypeOK
  <2>3. deposits[d].destChain \in Chains
    BY <1>3, Parts, DepositFields DEF RoutesTypeOK
  <2> QED
    BY <1>1, <1>2, <1>4, <2>2, <2>3, PayStep DEF Record
<1>5. CASE deposits[d].kind = "wbgl" /\ Pay("executing", NamedBy(i), 0)
  <2>1. i \in Nat
    BY <1>1, IdsAreNat
  <2>2. NamedBy(i) \in Addresses /\ 0 \in Chains
    BY <2>1 DEF NamedBy, Addresses, Chains
  <2> QED
    BY <1>1, <1>2, <1>5, <2>2, PayStep
<1> QED
  BY <1>1, <1>4, <1>5 DEF Forward

LEMMA GiveBackStep ==
  ASSUME RoutingInv, GiveBack
  PROVE  RoutingInv'
<1>1. PICK d, i : d = worker.deposit /\ i = look["sending worker"].id
  OBVIOUS
<1>2. worker.pc = "return"
  BY DEF GiveBack
<1>3. /\ d \in DOMAIN deposits /\ deposits[d] \in Deposits
      /\ RightFor(d, "sending worker") /\ Found("sending worker")
  BY <1>1, <1>2, Working
<1>4. CASE deposits[d].kind = "bgl" /\ Pay("returning", SenderOf(d), 0)
  <2>1. d \in Nat
    BY <1>3, Parts, DepositFields DEF RoutesTypeOK
  <2>2. SenderOf(d) \in Addresses /\ 0 \in Chains
    BY <2>1 DEF SenderOf, Addresses, Chains
  <2> QED
    BY <1>1, <1>2, <1>4, <2>2, PayStep
<1>5. CASE deposits[d].kind = "wbgl" /\ Pay("returning", Record.wallet, deposits[d].chain)
  <2>1. NotBefore(d, i)
    BY <1>1, <1>3, <1>5, Zenon DEF RightFor, Found
  <2>2. requests[i].wallet \in Addresses
    BY <2>1, Parts, RequestFields DEF Addresses, RoutesTypeOK, NotBefore
  <2>3. deposits[d].chain \in Chains
    BY <1>3, Parts, DepositFields DEF RoutesTypeOK
  <2> QED
    BY <1>1, <1>2, <1>5, <2>2, <2>3, PayStep DEF Record
<1> QED
  BY <1>1, <1>4, <1>5 DEF GiveBack

(***************************************************************************)
(* The initial states: the records of the earlier version, one for each    *)
(* wallet, under keys in mixed case.                                       *)
(***************************************************************************)

(* As many records as wallets, and different: every wallet has one.        *)
LEMMA EveryOldWalletHasARecord ==
  ASSUME NEW old \in SUBSET Wallets, BookInit(old), NEW w \in old
  PROVE  \E i \in DOMAIN requests : requests[i].wallet = w
<1> DEFINE S == DOMAIN requests
           f == [i \in S |-> requests[i].wallet]
<1>1. IsFiniteSet(old) /\ Cardinality(old) \in Nat
  BY AddressBookAssumption, FS_Subset, FS_CardinalityType
<1>2. S = 1 .. Cardinality(old) /\ \A i \in S : requests[i].wallet \in old
  BY SMT DEF BookInit
<1>3. IsFiniteSet(S) /\ Cardinality(S) = Cardinality(old)
  BY <1>1, <1>2, FS_Interval, SMT
<1>4. f \in Injection(S, old)
  <2>1. f \in [S -> old]
    BY <1>2
  <2>2. ASSUME NEW i \in S, NEW j \in S, f[i] = f[j] PROVE i = j
    BY <2>2 DEF BookInit
  <2> QED
    BY <2>1, <2>2 DEF Injection, IsInjective
<1>5. f \in Surjection(S, old)
  <2> HIDE DEF f, S
  <2> QED
    BY <1>1, <1>3, <1>4, FS_Injection
<1> QED
  BY <1>5 DEF Surjection

LEMMA Initially == Init => RoutingInv
<1> SUFFICES ASSUME Init PROVE RoutingInv
  OBVIOUS
<1>1. PICK old \in SUBSET Wallets : BookInit(old)
  BY DEF Init
<1>2. deposits = <<>> /\ worker = Idle /\ DOMAIN deposits = {}
  BY DEF Init
<1> DEFINE n == Cardinality(old)
<1>3. n \in Nat
  BY AddressBookAssumption, FS_Subset, FS_CardinalityType
<1>4. /\ DOMAIN requests = 1 .. n
      /\ \A i \in 1 .. n :
           /\ requests[i] \in Request /\ requests[i].kind = "wbgl"
           /\ requests[i].chain \in Supported /\ requests[i].wallet \in old
  <2>1. requests \in [1 .. n -> [kind : {"wbgl"}, wallet : old,
                                 chain : ChainNames \intersect Supported, pc : {"told"}]]
    BY <1>1 DEF BookInit
  <2>2. [kind : {"wbgl"}, wallet : old, chain : ChainNames \intersect Supported,
         pc : {"told"}] \subseteq Request
    BY SMT DEF Request
  <2> QED
    BY <2>1, <2>2, SMT
<1>5. requests \in [1 .. n -> Request]
  BY <1>1, <1>4 DEF BookInit
<1>6. requests \in Seq(Request)
  BY <1>3, <1>5, SMT
<1>7. stored = [i \in 1 .. n |-> i] /\ stored \in Seq(Nat) /\ DOMAIN stored = 1 .. n
  <2>1. stored = [i \in 1 .. n |-> i]
    BY <1>1, <1>4 DEF BookInit
  <2> HIDE DEF n
  <2> QED
    BY <1>3, <2>1, SMT
<1>8. NotLooking \in Lookups /\ Idle.pc = "idle" /\ Idle.deposit \in Nat
      /\ Idle = [pc |-> Idle.pc, deposit |-> Idle.deposit,
                 amount |-> Idle.amount, value |-> Idle.value]
  BY SMT DEF NotLooking, Lookups, Keys, Idle
<1>9. RoutesTypeOK
  <2>1. look \in [BookLookers -> Lookups]
    BY <1>1, <1>8 DEF BookInit
  <2>2. deposits \in Seq(Deposits)
    BY <1>2
  <2> QED
    BY <1>2, <1>6, <1>7, <1>8, <2>1, <2>2 DEF RoutesTypeOK
<1>10. ASSUME NEW k \in DOMAIN book
       PROVE  \E i : /\ i = book[k] /\ i \in DOMAIN requests
                     /\ k = MixedKey(EVMKey(requests[i].wallet))
  <2>1. PICK w \in old : k = MixedKey(EVMKey(w))
    BY <1>1, <1>10 DEF BookInit
  <2>2. k[2] = w
    BY <2>1 DEF MixedKey, EVMKey
  <2>3. book[k] = CHOOSE i \in DOMAIN requests : requests[i].wallet = w
    BY <1>1, <1>10, <2>2 DEF BookInit
  <2>4. \E i \in DOMAIN requests : requests[i].wallet = w
    BY <1>1, EveryOldWalletHasARecord
  <2> QED
    BY <2>1, <2>3, <2>4, Zenon
<1>11. KeysLead
  BY <1>4, <1>7, <1>10 DEF KeysLead, LeadsTo
<1>12. StoredAreRequests
  BY <1>4, <1>7 DEF StoredAreRequests
<1>13. ToldAreStored
  BY <1>4 DEF ToldAreStored
<1>14. ASSUME NEW w \in Wallets PROVE LatestIsFound(w)
  <2>1. PICK mixed : mixed = MixedKey(EVMKey(w))
    OBVIOUS
  <2>2. EVMKey(w) \notin DOMAIN book
    BY <1>1, KeysDiffer, Zenon DEF BookInit
  <2>3. CASE mixed \in DOMAIN book
    <3>1. PICK i : i = book[mixed] /\ i \in DOMAIN requests
                   /\ mixed = MixedKey(EVMKey(requests[i].wallet))
      BY <1>10, <2>3
    <3>2. requests[i].wallet = w
      BY <2>1, <3>1, KeysDiffer, Zenon
    <3>3. \A m \in DOMAIN stored : Binds(m, w) => m = i
      BY <1>1, <1>4, <1>7, <3>1, <3>2 DEF BookInit, Binds
    <3>4. i \in DOMAIN stored /\ stored[i] = i /\ i <= i
      BY <1>3, <1>4, <1>7, <3>1, SMT
    <3>5. Latest(i, w)
      BY <3>3, <3>4 DEF Latest
    <3> QED
      BY <2>1, <2>2, <2>3, <3>1, <3>5, Zenon DEF LatestIsFound
  <2>4. CASE mixed \notin DOMAIN book
    <3>1. w \notin old
      BY <1>1, <2>1, <2>4 DEF BookInit
    <3>2. \A m \in DOMAIN stored : ~ Binds(m, w)
      BY <1>4, <1>7, <3>1 DEF Binds
    <3> QED
      BY <2>1, <2>2, <2>4, <3>2, Zenon DEF LatestIsFound
  <2> QED
    BY <2>3, <2>4
<1>15. ScannerIsRight /\ WorkerHasDeposit /\ WorkerIsRight
  BY <1>2, <1>8 DEF ScannerIsRight, WorkerHasDeposit, WorkerIsRight
<1>16. \A d \in DOMAIN deposits : Fate(d)
  BY <1>2
<1> QED
  BY <1>2, <1>9, <1>11, <1>12, <1>13, <1>14, <1>15, <1>16, FatesAreProperties
  DEF RoutingInv, BookInv

LEMMA EveryStep == RoutingInv /\ [Next]_vars => RoutingInv'
<1> SUFFICES ASSUME RoutingInv, [Next]_vars PROVE RoutingInv'
  OBVIOUS
<1>1. CASE HandlerStep /\ UNCHANGED <<deposits, worker>>
  BY <1>1, BookSteps
<1>2. CASE LookupStep /\ UNCHANGED <<deposits, worker>>
  BY <1>2, LookupSteps
<1>3. CASE Send
  BY <1>3, SendStep
<1>4. CASE \E d \in DOMAIN deposits : EvmScan(d) \/ BglScan(d) \/ BglScanned(d) \/ Take(d)
  BY <1>4, EvmScanStep, BglScanStep, BglScannedStep, TakeStep
<1>5. CASE Unroutable \/ Compute \/ Forward \/ ForwardFails \/ GiveBack \/ GiveBackFails
  BY <1>5, UnroutableStep, ComputeStep, ForwardStep, ForwardFailsStep,
     GiveBackStep, GiveBackFailsStep
<1>6. CASE UNCHANGED vars
  <2>1. UNCHANGED <<requests, book, stored, look, deposits, worker>>
    BY <1>6 DEF vars, bookVars
  <2>2. Grows /\ BookInv' /\ Identified
    BY <2>1, Parts, UnchangedGrows DEF Identified
  <2>3. RoutesTypeOK'
    BY <2>1, Parts DEF RoutesTypeOK
  <2> QED
    BY <2>1, <2>2, <2>3, OthersKept, ScannerKept, WorkerKept, Assembled
<1> QED
  BY <1>1, <1>2, <1>3, <1>4, <1>5, <1>6 DEF Next, WorkerStep

(***************************************************************************)
(* Powers of two.  What a recursive function is has to be shown, by the    *)
(* least number for which it would be something else.                      *)
(***************************************************************************)

(* A set of natural numbers has a least.                                   *)
LEMMA SmallestNat ==
  ASSUME NEW T, T \subseteq Nat, T # {}
  PROVE  \E n \in T : \A m \in T : n <= m
<1> DEFINE R == OpToRel(<, Nat)
<1>1. IsWellFoundedOn(R, Nat)
  BY NatLessThanWellFounded, Zenon
<1> HIDE DEF R
<1>2. \E x \in T : \A y \in T : ~ (<<y, x>> \in R)
  BY <1>1, WFMin, Zenon
<1>3. \A x, y \in Nat : y < x => <<y, x>> \in R
  BY SMT DEF R, OpToRel
<1>4. PICK x \in T : \A y \in T : ~ (<<y, x>> \in R)
  BY <1>2
<1>5. ASSUME NEW m \in T PROVE x <= m
  <2>1. m \in Nat /\ x \in Nat /\ ~ (m < x)
    BY <1>3, <1>4
  <2> QED
    BY <2>1, SMT
<1> QED
  BY <1>5

(* f doubles as far as n. *)
Doubles(f, n) ==
  /\ f \in [0 .. n -> Nat]
  /\ f[0] = 1
  /\ \A i \in 1 .. n : f[i] = 2 * f[i - 1]

(* Some function doubles as far as any n.                                  *)
LEMMA SomeDoubles ==
  ASSUME NEW n \in Nat
  PROVE  \E f : Doubles(f, n)
<1> DEFINE T == {k \in Nat : ~ \E f : Doubles(f, k)}
<1>1. SUFFICES ASSUME T # {} PROVE FALSE
  OBVIOUS
<1>2. PICK k \in T : \A j \in T : k <= j
  <2> HIDE DEF T
  <2>1. T \subseteq Nat
    BY DEF T
  <2> QED
    BY <1>1, <2>1, SmallestNat
<1>3. k \in Nat /\ ~ \E f : Doubles(f, k)
  OBVIOUS
<1>4. CASE k = 0
  <2>1. Doubles([i \in 0 .. 0 |-> 1], 0)
    BY SMT DEF Doubles
  <2> QED
    BY <1>3, <1>4, <2>1
<1>5. CASE k # 0
  <2>1. k - 1 \in Nat /\ ~ (k <= k - 1)
    BY <1>3, <1>5, SMT
  <2>2. PICK f : Doubles(f, k - 1)
    BY <1>2, <2>1
  <2> DEFINE g == [i \in 0 .. k |-> IF i = k THEN 2 * f[k - 1] ELSE f[i]]
  <2>3. \A i \in 0 .. k - 1 : i \in 0 .. k /\ i # k /\ f[i] \in Nat
    BY <1>3, <2>2, SMT DEF Doubles
  <2>4. k - 1 \in 0 .. k - 1
    BY <1>3, <1>5, SMT
  <2>5. g \in [0 .. k -> Nat]
    <3>1. ASSUME NEW i \in 0 .. k PROVE (IF i = k THEN 2 * f[k - 1] ELSE f[i]) \in Nat
      <4>1. i = k \/ i \in 0 .. k - 1
        BY <1>3, SMT
      <4>2. f[k - 1] \in Nat
        BY <2>3, <2>4
      <4> QED
        BY <2>3, <4>1, <4>2, SMT
    <3> QED
      BY <3>1
  <2>6. g[0] = 1
    BY <1>3, <1>5, <2>2, SMT DEF Doubles
  <2>7. ASSUME NEW i \in 1 .. k PROVE g[i] = 2 * g[i - 1]
    <3>1. i \in 0 .. k /\ i - 1 \in 0 .. k /\ i - 1 # k
      BY <1>3, SMT
    <3>2. g[i - 1] = f[i - 1] /\ g[i] = (IF i = k THEN 2 * f[k - 1] ELSE f[i])
      BY <3>1
    <3>3. i # k => i \in 1 .. k - 1
      BY <1>3, SMT
    <3> HIDE DEF g
    <3>4. i # k => f[i] = 2 * f[i - 1]
      BY <2>2, <3>3 DEF Doubles
    <3> QED
      BY <3>2, <3>4
  <2>8. Doubles(g, k)
    <3> HIDE DEF g
    <3> QED
      BY <2>5, <2>6, <2>7 DEF Doubles
  <2> QED
    BY <1>3, <2>8
<1> QED
  BY <1>4, <1>5

(* Two functions that double agree as far as both do.                      *)
LEMMA DoublesAgree ==
  ASSUME NEW n \in Nat, NEW m \in Nat, NEW f, NEW g,
         Doubles(f, n), Doubles(g, m), n <= m
  PROVE  f[n] = g[n]
<1> DEFINE T == {k \in 0 .. n : f[k] # g[k]}
<1>1. SUFFICES ASSUME T # {} PROVE FALSE
  OBVIOUS
<1>2. PICK k \in T : \A j \in T : k <= j
  <2> HIDE DEF T
  <2>1. T \subseteq Nat
    BY DEF T
  <2> QED
    BY <1>1, <2>1, SmallestNat
<1>3. k \in 0 .. n /\ f[k] # g[k]
  OBVIOUS
<1>4. k # 0
  BY <1>3 DEF Doubles
<1>5. k - 1 \in 0 .. n /\ ~ (k <= k - 1) /\ k \in 1 .. n /\ k \in 1 .. m
  BY <1>3, <1>4, SMT
<1>6. f[k - 1] = g[k - 1]
  BY <1>2, <1>5
<1> HIDE DEF T
<1> QED
  BY <1>3, <1>5, <1>6 DEF Doubles

(* Pow2 is what its definition says.                                       *)
LEMMA Pow2Def ==
  Pow2 = [n \in Nat |-> IF n = 0 THEN 1 ELSE 2 * Pow2[n - 1]]
<1> DEFINE p == [n \in Nat |-> (CHOOSE f : Doubles(f, n))[n]]
<1>1. ASSUME NEW n \in Nat PROVE p[n] = IF n = 0 THEN 1 ELSE 2 * p[n - 1]
  <2>1. PICK f : f = (CHOOSE h : Doubles(h, n)) /\ Doubles(f, n)
    BY SomeDoubles
  <2>2. p[n] = f[n]
    BY <2>1
  <2>3. CASE n = 0
    BY <2>1, <2>2, <2>3 DEF Doubles
  <2>4. CASE n # 0
    <3>0. PICK k \in Nat : k = n - 1 /\ k <= n /\ n \in 1 .. n
      BY <2>4, SMT
    <3>1. PICK g : g = (CHOOSE h : Doubles(h, k)) /\ Doubles(g, k)
      BY SomeDoubles
    <3>2. p[k] = g[k]
      BY <3>1
    <3>3. g[k] = f[k]
      BY <2>1, <3>0, <3>1, DoublesAgree
    <3>4. f[n] = 2 * f[k]
      BY <2>1, <3>0 DEF Doubles
    <3> HIDE DEF p
    <3> QED
      BY <2>2, <2>4, <3>0, <3>2, <3>3, <3>4
  <2> QED
    BY <2>3, <2>4
<1>2. p = [n \in Nat |-> IF n = 0 THEN 1 ELSE 2 * p[n - 1]]
  <2>1. p = [n \in Nat |-> p[n]]
    OBVIOUS
  <2> HIDE DEF p
  <2> QED
    BY <1>1, <2>1, Zenon
<1> HIDE DEF p
<1>3. \E q : q = [n \in Nat |-> IF n = 0 THEN 1 ELSE 2 * q[n - 1]]
  BY <1>2
<1> QED
  BY <1>3 DEF Pow2

LEMMA Pow2Next ==
  /\ Pow2[0] = 1
  /\ \A n \in Nat : Pow2[n + 1] = 2 * Pow2[n]
<1>1. ASSUME NEW n \in Nat PROVE Pow2[n] = IF n = 0 THEN 1 ELSE 2 * Pow2[n - 1]
  BY Pow2Def, Zenon
<1>2. Pow2[0] = 1
  BY <1>1
<1>3. ASSUME NEW n \in Nat PROVE Pow2[n + 1] = 2 * Pow2[n]
  <2>1. PICK k \in Nat : k = n + 1 /\ k # 0 /\ k - 1 = n
    BY SMT
  <2> QED
    BY <1>1, <2>1
<1> QED
  BY <1>2, <1>3

LEMMA Pow2Positive ==
  ASSUME NEW n \in Nat
  PROVE  Pow2[n] \in Nat \ {0}
<1> DEFINE T == {k \in Nat : Pow2[k] \notin Nat \ {0}}
<1>1. SUFFICES ASSUME T # {} PROVE FALSE
  OBVIOUS
<1>2. PICK k \in T : \A j \in T : k <= j
  <2> HIDE DEF T
  <2>1. T \subseteq Nat
    BY DEF T
  <2> QED
    BY <1>1, <2>1, SmallestNat
<1>3. k \in Nat /\ Pow2[k] \notin Nat \ {0} /\ k # 0
  BY Pow2Next
<1>4. PICK j \in Nat : k = j + 1 /\ ~ (k <= j)
  <2>1. k - 1 \in Nat /\ k = (k - 1) + 1 /\ ~ (k <= k - 1)
    BY <1>3, SMT
  <2> QED
    BY <2>1
<1>5. Pow2[j] \in Nat \ {0}
  BY <1>2, <1>4
<1>6. Pow2[k] = 2 * Pow2[j]
  BY <1>4, Pow2Next
<1> HIDE DEF T
<1> QED
  BY <1>3, <1>5, <1>6, SMT

(* 2^(m+n) = 2^m * 2^n.                                                    *)
LEMMA Pow2Sum ==
  ASSUME NEW a \in Nat, NEW b \in Nat
  PROVE  Pow2[a + b] = Pow2[a] * Pow2[b]
<1> DEFINE T == {k \in Nat : Pow2[a + k] # Pow2[a] * Pow2[k]}
<1>1. SUFFICES ASSUME T # {} PROVE FALSE
  OBVIOUS
<1>2. PICK k \in T : \A j \in T : k <= j
  <2> HIDE DEF T
  <2>1. T \subseteq Nat
    BY DEF T
  <2> QED
    BY <1>1, <2>1, SmallestNat
<1>3. k \in Nat /\ Pow2[a + k] # Pow2[a] * Pow2[k]
  OBVIOUS
<1>4. k # 0
  <2>1. Pow2[a] \in Nat /\ Pow2[0] = 1
    BY Pow2Positive, Pow2Next
  <2>2. a + 0 = a /\ Pow2[a] * 1 = Pow2[a]
    BY <2>1, SMT
  <2> QED
    BY <1>3, <2>1, <2>2
<1>5. PICK j \in Nat : k = j + 1 /\ ~ (k <= j) /\ a + k = (a + j) + 1 /\ a + j \in Nat
  <2>1. k - 1 \in Nat /\ k = (k - 1) + 1 /\ ~ (k <= k - 1)
        /\ a + k = (a + (k - 1)) + 1 /\ a + (k - 1) \in Nat
    BY <1>3, <1>4, SMT
  <2> QED
    BY <2>1
<1>6. Pow2[a + j] = Pow2[a] * Pow2[j]
  BY <1>2, <1>5
<1>7. Pow2[k] = 2 * Pow2[j] /\ Pow2[a + k] = 2 * Pow2[a + j]
  BY <1>5, Pow2Next
<1>8. Pow2[a] \in Nat /\ Pow2[j] \in Nat
  BY Pow2Positive
<1> HIDE DEF T
<1>9. PICK p, q \in Nat : p = Pow2[a] /\ q = Pow2[j]
  BY <1>8
<1>10. 2 * (p * q) = p * (2 * q)
  BY <1>9, SMT
<1> QED
  BY <1>3, <1>6, <1>7, <1>9, <1>10

LEMMA Pow2Grows ==
  ASSUME NEW n \in Nat, NEW k \in Nat, n <= k
  PROVE  Pow2[n] <= Pow2[k]
<1>1. PICK j \in Nat : n + j = k
  <2>1. k - n \in Nat /\ n + (k - n) = k
    BY SMT
  <2> QED
    BY <2>1
<1>2. Pow2[k] = Pow2[n] * Pow2[j]
  BY <1>1, Pow2Sum
<1>3. Pow2[n] \in Nat \ {0} /\ Pow2[j] \in Nat \ {0}
  BY Pow2Positive
<1>4. PICK p, q \in Nat \ {0} : p = Pow2[n] /\ q = Pow2[j]
  BY <1>3
<1>5. p <= p * q
  BY <1>4, SMT
<1> QED
  BY <1>2, <1>4, <1>5

(***************************************************************************)
(* Quotients and the integers nearest to them.                             *)
(***************************************************************************)
LEMMA DivMod ==
  ASSUME NEW a \in Nat, NEW b \in Nat \ {0}
  PROVE  /\ a \div b \in Nat /\ a % b \in Nat
         /\ a = (a \div b) * b + (a % b) /\ a % b < b
BY SMT

(* Nearest(a, b) is within half a unit of a / b.                           *)
LEMMA NearestFacts ==
  ASSUME NEW a \in Nat, NEW b \in Nat \ {0}
  PROVE  /\ Nearest(a, b) \in Nat
         /\ 2 * (Nearest(a, b) * b - a) <= b
         /\ 2 * (a - Nearest(a, b) * b) <= b
<1>1. PICK q, r \in Nat : q = a \div b /\ r = a % b /\ a = q * b + r /\ r < b
  BY DivMod
<1>2. Nearest(a, b) = IF 2 * r > b \/ (2 * r = b /\ q % 2 = 1) THEN q + 1 ELSE q
  BY <1>1 DEF Nearest
<1>3. (q + 1) * b = q * b + b /\ q * b \in Nat
  BY <1>1, SMT
<1>4. PICK c \in Nat : c = q * b
  BY <1>3
<1>5. CASE Nearest(a, b) = q + 1 /\ 2 * r >= b
  BY <1>1, <1>3, <1>4, <1>5, SMT
<1>6. CASE Nearest(a, b) = q /\ 2 * r <= b
  BY <1>1, <1>4, <1>6, SMT
<1> QED
  BY <1>1, <1>2, <1>5, <1>6, SMT

LEMMA NearestAtMost ==
  ASSUME NEW a \in Nat, NEW b \in Nat \ {0}, NEW c \in Nat, a < c * b
  PROVE  Nearest(a, b) <= c
<1>1. PICK q, r \in Nat : q = a \div b /\ r = a % b /\ a = q * b + r /\ r < b
  BY DivMod
<1>2. Nearest(a, b) = IF 2 * r > b \/ (2 * r = b /\ q % 2 = 1) THEN q + 1 ELSE q
  BY <1>1 DEF Nearest
<1>3. ASSUME c <= q PROVE FALSE
  <2>1. c * b <= q * b /\ q * b <= a
    BY <1>1, <1>3, SMT
  <2> QED
    BY <1>1, <2>1, SMT
<1> QED
  BY <1>1, <1>2, <1>3, SMT

LEMMA NearestExact ==
  ASSUME NEW a \in Nat
  PROVE  Nearest(a, 1) = a
<1>1. a \div 1 = a /\ a % 1 = 0
  BY SMT
<1> QED
  BY <1>1, SMT DEF Nearest

LEMMA DivAtLeast ==
  ASSUME NEW n \in Nat, NEW b \in Nat \ {0}, NEW c \in Nat
  PROVE  n \div b >= c <=> n >= c * b
<1>1. PICK q, r \in Nat : q = n \div b /\ r = n % b /\ n = q * b + r /\ r < b
  BY DivMod
<1>2. ASSUME q >= c PROVE n >= c * b
  <2>1. q * b >= c * b
    BY <1>1, <1>2, SMT
  <2> QED
    BY <1>1, <2>1, SMT
<1>3. ASSUME ~ (q >= c) PROVE ~ (n >= c * b)
  <2>1. (q + 1) * b <= c * b /\ (q + 1) * b = q * b + b
    BY <1>1, <1>3, SMT
  <2> QED
    BY <1>1, <2>1, SMT
<1> QED
  BY <1>1, <1>2, <1>3

(***************************************************************************)
(* Floating-point numbers.                                                 *)
(***************************************************************************)

(* What the assumptions say of the constants.                              *)
LEMMA BitsFacts ==
  /\ Bits \in Nat /\ Bits >= 10 /\ 2 * Bits \in Nat /\ 3 * Bits \in Nat
  /\ Normal \in Nat \ {0} /\ Pow2[Bits] \in Nat /\ Pow2[Bits] = 2 * Normal
  /\ Pow2[Bits] >= 400
  /\ Pow2[2 * Bits] = Pow2[Bits] * Pow2[Bits]
  /\ Pow2[3 * Bits] = Pow2[2 * Bits] * Pow2[Bits]
<1>1. Bits \in Nat /\ Bits >= 10
  BY AmountsAssumption
<1>2. /\ Bits - 1 \in Nat /\ Bits - 1 + 1 = Bits /\ Bits + Bits = 2 * Bits
      /\ 2 * Bits + Bits = 3 * Bits
      /\ 2 * Bits \in Nat /\ 3 * Bits \in Nat /\ 9 \in Nat /\ 9 <= Bits
  BY <1>1, SMT
<1>3. Pow2[Bits] = 2 * Pow2[Bits - 1]
  BY <1>2, Pow2Next
<1>4. Pow2[Bits] \in Nat /\ Pow2[Bits - 1] \in Nat \ {0}
  BY <1>1, <1>2, Pow2Positive
<1>5. Pow2[9] = 512
  <2>1. \A k \in Nat : Pow2[k + 1] = 2 * Pow2[k]
    BY Pow2Next
  <2>2. /\ Pow2[0 + 1] = 2 * Pow2[0] /\ Pow2[1 + 1] = 2 * Pow2[1] /\ Pow2[2 + 1] = 2 * Pow2[2]
        /\ Pow2[3 + 1] = 2 * Pow2[3] /\ Pow2[4 + 1] = 2 * Pow2[4] /\ Pow2[5 + 1] = 2 * Pow2[5]
        /\ Pow2[6 + 1] = 2 * Pow2[6] /\ Pow2[7 + 1] = 2 * Pow2[7] /\ Pow2[8 + 1] = 2 * Pow2[8]
    BY <2>1
  <2> QED
    BY <2>2, Pow2Next, SMT
<1>6. Pow2[9] <= Pow2[Bits]
  BY <1>1, <1>2, Pow2Grows
<1>7. Pow2[2 * Bits] = Pow2[Bits] * Pow2[Bits]
  BY <1>1, <1>2, Pow2Sum
<1>8. Pow2[3 * Bits] = Pow2[2 * Bits] * Pow2[Bits]
  BY <1>1, <1>2, Pow2Sum
<1>9. Pow2[Bits] >= 400
  BY <1>4, <1>5, <1>6, SMT
<1> QED
  BY <1>1, <1>2, <1>3, <1>4, <1>7, <1>8, <1>9 DEF Normal

(* Some shift is just enough. *)
LEMMA SomeShift ==
  ASSUME NEW n \in Nat \ {0}, NEW d \in 1 .. Pow2[Bits], n < Pow2[3 * Bits]
  PROVE  \E s \in -2 * Bits .. 2 * Bits : Enough(n, d, s) /\ ~ Enough(n, d, s - 1)
<1> DEFINE T == {k \in Nat : Enough(n, d, k - 2 * Bits)}
<1>0. d \in Nat \ {0} /\ d <= Pow2[Bits]
  BY BitsFacts, SMT
<1>1. Enough(n, d, 2 * Bits)
  <2>1. PICK u, h, w \in Nat : u = Pow2[Bits] /\ h = Normal /\ w = Pow2[2 * Bits]
                               /\ u = 2 * h /\ w = u * u
    <3>1. Pow2[Bits] * Pow2[Bits] \in Nat
      BY BitsFacts, SMT
    <3> QED
      BY <3>1, BitsFacts
  <2>2. h * d <= h * u
    BY <1>0, <2>1, SMT
  <2>3. h * u <= u * u
    BY <2>1, SMT
  <2>4. u * u <= n * w
    BY <2>1, SMT
  <2>5. n * w >= h * d
    BY <1>0, <2>1, <2>2, <2>3, <2>4, SMT
  <2>6. ~ (2 * Bits < 0)
    BY BitsFacts, SMT
  <2> QED
    BY <2>1, <2>5, <2>6 DEF Enough, Shifted
<1>2. T # {}
  <2>1. 4 * Bits \in Nat /\ 4 * Bits - 2 * Bits = 2 * Bits
    BY BitsFacts, SMT
  <2> QED
    BY <1>1, <2>1
<1>3. PICK k \in T : \A j \in T : k <= j
  <2> HIDE DEF T
  <2>1. T \subseteq Nat
    BY DEF T
  <2> QED
    BY <1>2, <2>1, SmallestNat
<1>4. k <= 4 * Bits
  <2>1. 4 * Bits \in Nat /\ 4 * Bits - 2 * Bits = 2 * Bits
    BY BitsFacts, SMT
  <2> QED
    BY <1>1, <1>3, <2>1
<1>5. PICK s \in Int : s = k - 2 * Bits
  BY BitsFacts, SMT
<1>6. s \in -2 * Bits .. 2 * Bits /\ Enough(n, d, s)
  BY <1>4, <1>5, BitsFacts, SMT
<1>7. CASE k # 0
  <2>1. k - 1 \in Nat /\ ~ (k <= k - 1) /\ (k - 1) - 2 * Bits = s - 1
    BY <1>5, <1>7, BitsFacts, SMT
  <2>2. ~ Enough(n, d, s - 1)
    BY <1>3, <2>1
  <2> QED
    BY <1>6, <2>2
<1>8. CASE k = 0
  <2>1. s - 1 = -(2 * Bits + 1) /\ s - 1 < 0 /\ -(s - 1) = 2 * Bits + 1
    BY <1>5, <1>8, BitsFacts, SMT
  <2>2. PICK u, h, w \in Nat : u = Pow2[Bits] /\ h = Normal /\ w = Pow2[2 * Bits]
                               /\ u = 2 * h /\ Pow2[2 * Bits + 1] = 2 * w /\ w \in Nat \ {0}
                               /\ Pow2[3 * Bits] = w * u
    <3>1. Pow2[2 * Bits] \in Nat \ {0} /\ Pow2[2 * Bits + 1] = 2 * Pow2[2 * Bits]
      BY BitsFacts, Pow2Next, Pow2Positive
    <3> QED
      BY <3>1, BitsFacts
  <2>3. ASSUME n \div (2 * w) >= h * d PROVE FALSE
    <3>1. 2 * w \in Nat \ {0} /\ h * d \in Nat
      BY <1>0, <2>2, SMT
    <3>2. n >= (h * d) * (2 * w)
      BY <2>3, <3>1, DivAtLeast
    <3>3. (h * d) * (2 * w) = (w * u) * d
      BY <1>0, <2>2, SMT
    <3>4. (w * u) * d >= w * u
      BY <1>0, <2>2, SMT
    <3>5. n < w * u
      BY <2>2
    <3> QED
      BY <1>0, <2>2, <3>2, <3>3, <3>4, <3>5, SMT
  <2>4. ~ Enough(n, d, s - 1)
    BY <2>1, <2>2, <2>3 DEF Enough, Shifted
  <2> QED
    BY <1>6, <2>4
<1> QED
  BY <1>7, <1>8

(* A floating-point number is n shifted by p, over d shifted by q, to the  *)
(* nearest integer of as many bits as the significand.                     *)
LEMMA FloatIs ==
  ASSUME NEW n \in Nat \ {0}, NEW d \in 1 .. Pow2[Bits], n < Pow2[3 * Bits],
         NEW e \in Int
  PROVE  \E p, q \in 0 .. 2 * Bits :
           /\ p = 0 \/ q = 0
           /\ Float(n, d, e) = [m |-> Nearest(n * Pow2[p], d * Pow2[q]), e |-> e - p + q]
           /\ n * Pow2[p] >= Normal * (d * Pow2[q])
           /\ n * Pow2[p] < (2 * Normal) * (d * Pow2[q])
<1>0. d \in Nat \ {0} /\ d * 1 = d /\ n * 1 = n /\ Pow2[0] = 1 /\ Pow2[1] = 2
  <2>1. Pow2[0] = 1 /\ Pow2[0 + 1] = 2 * Pow2[0]
    BY Pow2Next
  <2> QED
    BY <2>1, BitsFacts, SMT
<1>1. PICK s : /\ s = CHOOSE t \in -2 * Bits .. 2 * Bits : Enough(n, d, t) /\ ~ Enough(n, d, t - 1)
               /\ s \in -2 * Bits .. 2 * Bits /\ Enough(n, d, s) /\ ~ Enough(n, d, s - 1)
  BY SomeShift
<1>2. s \in Int /\ s >= -(2 * Bits) /\ s <= 2 * Bits
  BY <1>1, BitsFacts, SMT
<1>3. Float(n, d, e) = IF s < 0 THEN [m |-> Nearest(n, d * Pow2[-s]), e |-> e - s]
                                ELSE [m |-> Nearest(n * Pow2[s], d), e |-> e - s]
  BY <1>1 DEF Float
<1>4. PICK h \in Nat \ {0} : h = Normal
  BY BitsFacts
<1>5. CASE s < 0
  <2>1. PICK q \in 0 .. 2 * Bits : q = -s /\ q \in Nat /\ q # 0 /\ s - 1 < 0 /\ -(s - 1) = q + 1
                                   /\ e - s = e - 0 + q /\ 0 \in 0 .. 2 * Bits
    <3>1. /\ -s \in 0 .. 2 * Bits /\ -s \in Nat /\ -s # 0 /\ s - 1 < 0 /\ -(s - 1) = -s + 1
          /\ e - s = e - 0 + (-s) /\ 0 \in 0 .. 2 * Bits
      BY <1>2, <1>5, BitsFacts, SMT
    <3> QED
      BY <3>1
  <2>2. PICK w \in Nat \ {0} : w = Pow2[q] /\ Pow2[q + 1] = 2 * w /\ 2 * w \in Nat \ {0}
    <3>1. Pow2[q] \in Nat \ {0} /\ Pow2[q + 1] = 2 * Pow2[q]
      BY <2>1, Pow2Next, Pow2Positive
    <3>2. 2 * Pow2[q] \in Nat \ {0}
      BY <3>1, SMT
    <3> QED
      BY <3>1, <3>2
  <2>3. h * d \in Nat /\ (h * d) * w = h * (d * w) /\ (h * d) * (2 * w) = (2 * h) * (d * w)
    BY <1>0, <1>4, <2>2, SMT
  <2>4. n \div w >= h * d
    BY <1>1, <1>4, <1>5, <2>1, <2>2 DEF Enough, Shifted
  <2>5. ~ (n \div (2 * w) >= h * d)
    BY <1>1, <1>4, <2>1, <2>2 DEF Enough, Shifted
  <2>6. n >= (h * d) * w
    BY <2>2, <2>3, <2>4, DivAtLeast
  <2>7. ~ (n >= (h * d) * (2 * w))
    BY <2>2, <2>3, <2>5, DivAtLeast
  <2>8. PICK dw \in Nat : dw = d * w
    BY <1>0, <2>2, SMT
  <2>9. n >= h * dw /\ n < (2 * h) * dw
    <3>1. (2 * h) * dw \in Nat
      BY <1>4, <2>8, SMT
    <3> QED
      BY <2>3, <2>6, <2>7, <2>8, <3>1, SMT
  <2>10. Float(n, d, e) = [m |-> Nearest(n * Pow2[0], d * Pow2[q]), e |-> e - 0 + q]
    BY <1>0, <1>3, <1>5, <2>1
  <2> QED
    BY <1>0, <1>4, <2>1, <2>2, <2>8, <2>9, <2>10
<1>6. CASE ~ (s < 0)
  <2>1. PICK p \in 0 .. 2 * Bits : p = s /\ p \in Nat /\ e - s = e - p + 0 /\ 0 \in 0 .. 2 * Bits
    <3>1. s \in 0 .. 2 * Bits /\ s \in Nat /\ e - s = e - s + 0 /\ 0 \in 0 .. 2 * Bits
      BY <1>2, <1>6, BitsFacts, SMT
    <3> QED
      BY <3>1
  <2>2. n * Pow2[p] >= h * d
    BY <1>1, <1>4, <1>6, <2>1 DEF Enough, Shifted
  <2>3. n * Pow2[p] < (2 * h) * d
    <3>1. h * d \in Nat /\ (2 * h) * d = (h * d) * 2
      BY <1>0, <1>4, SMT
    <3>2. CASE p = 0
      <4>1. s - 1 < 0 /\ -(s - 1) = 1 /\ 2 \in Nat \ {0}
        <5>1. s = 0
          BY <2>1, <3>2
        <5>2. \A t \in Int : t <= 0 /\ t >= 0 => t - 1 < 0 /\ -(t - 1) = 1
          BY SMT
        <5>3. s <= 0 /\ s >= 0
          BY <5>1, SMT
        <5> QED
          BY <1>2, <5>2, <5>3
      <4>2. ~ (n \div 2 >= h * d)
        BY <1>0, <1>1, <1>4, <4>1 DEF Enough, Shifted
      <4>3. ~ (n >= (h * d) * 2)
        BY <3>1, <4>1, <4>2, DivAtLeast
      <4>4. (h * d) * 2 \in Nat
        BY <3>1, SMT
      <4>5. n < (2 * h) * d
        BY <3>1, <4>3, <4>4, SMT
      <4> QED
        BY <1>0, <3>2, <4>5
    <3>3. CASE p # 0
      <4>1. PICK r \in Nat : r = s - 1 /\ ~ (s - 1 < 0) /\ r + 1 = p
        <5>1. s - 1 \in Nat /\ ~ (s - 1 < 0) /\ (s - 1) + 1 = p
          BY <1>2, <2>1, <3>3, SMT
        <5> QED
          BY <5>1
      <4>2. ~ (n * Pow2[r] >= h * d)
        BY <1>1, <1>4, <4>1 DEF Enough, Shifted
      <4>3. PICK w \in Nat : w = Pow2[r] /\ Pow2[p] = 2 * w
        BY <4>1, Pow2Next, Pow2Positive
      <4>4. n * (2 * w) = (n * w) * 2 /\ n * w \in Nat
        BY <4>3, SMT
      <4> QED
        BY <3>1, <4>2, <4>3, <4>4, SMT
    <3> QED
      BY <3>2, <3>3
  <2>4. Float(n, d, e) = [m |-> Nearest(n * Pow2[p], d * Pow2[0]), e |-> e - p + 0]
    BY <1>0, <1>3, <1>6, <2>1
  <2> QED
    BY <1>0, <1>4, <2>1, <2>2, <2>3, <2>4
<1> QED
  BY <1>5, <1>6

(* Multiplication, taken apart.                                            *)
LEMMA Distributed ==
  ASSUME NEW u \in Int, NEW x \in Int, NEW y \in Int, NEW z \in Int
  PROVE  (u * (x - y)) * z = u * (x * z - y * z)
BY SMT

(* x in units of 2^-k. *)
Units(x, k) == x.m * Pow2[x.e + k]

Floats == [m : 0 .. Pow2[Bits], e : Int]

(* It is off by at most one part in 2^Bits, and its exponent is no further *)
(* below e than twice Bits.                                                *)
LEMMA FloatIsNear ==
  ASSUME NEW n \in Nat, NEW d \in 1 .. Pow2[Bits], n < Pow2[3 * Bits],
         NEW e \in Int, NEW j \in Nat, e + j >= 0
  PROVE  /\ Float(n, d, e) \in Floats
         /\ Float(n, d, e).e + (j + 2 * Bits) >= 0
         /\ n = 0 => Float(n, d, e).m = 0
         /\ \A k \in Nat : k >= j + 2 * Bits =>
              /\ Units(Float(n, d, e), k) \in Nat /\ n * Pow2[e + k] \in Nat
              /\ Pow2[Bits] * (d * Units(Float(n, d, e), k) - n * Pow2[e + k])
                   <= n * Pow2[e + k]
              /\ Pow2[Bits] * (n * Pow2[e + k] - d * Units(Float(n, d, e), k))
                   <= n * Pow2[e + k]
<1>0. d \in Nat \ {0}
  BY BitsFacts, SMT
<1>1. CASE n = 0
  <2>1. PICK x : x = Float(n, d, e) /\ x = [m |-> 0, e |-> 0]
    BY <1>1 DEF Float
  <2>2. x.m = 0 /\ x.e = 0 /\ x \in Floats
    BY <2>1, BitsFacts, SMT DEF Floats
  <2>3. 0 + (j + 2 * Bits) >= 0
    BY BitsFacts, SMT
  <2>4. ASSUME NEW k \in Nat, k >= j + 2 * Bits
        PROVE  /\ Units(x, k) \in Nat /\ n * Pow2[e + k] \in Nat
               /\ Pow2[Bits] * (d * Units(x, k) - n * Pow2[e + k]) <= n * Pow2[e + k]
               /\ Pow2[Bits] * (n * Pow2[e + k] - d * Units(x, k)) <= n * Pow2[e + k]
    <3>1. e + k \in Nat /\ 0 + k \in Nat
      BY <2>4, BitsFacts, SMT
    <3>2. PICK a, b, u \in Nat : a = Pow2[e + k] /\ b = Pow2[0 + k] /\ u = Pow2[Bits]
      BY <3>1, Pow2Positive, BitsFacts
    <3>3. 0 * a = 0 /\ 0 * b = 0 /\ u * (d * 0 - 0) = 0 /\ u * (0 - d * 0) = 0
      BY <1>0, <3>2, SMT
    <3>4. Units(x, k) = 0 /\ n * Pow2[e + k] = 0
      BY <1>1, <2>2, <3>2, <3>3 DEF Units
    <3>5. PICK v, z \in Nat : v = Units(x, k) /\ z = n * Pow2[e + k] /\ v = 0 /\ z = 0
      BY <3>4
    <3>6. u * (d * v - z) <= z /\ u * (z - d * v) <= z
      BY <3>3, <3>5
    <3> QED
      BY <3>2, <3>5, <3>6
  <2> QED
    BY <2>1, <2>2, <2>3, <2>4
<1>2. CASE n # 0
  <2>1. PICK p, q \in 0 .. 2 * Bits :
           /\ p = 0 \/ q = 0
           /\ Float(n, d, e) = [m |-> Nearest(n * Pow2[p], d * Pow2[q]), e |-> e - p + q]
           /\ n * Pow2[p] >= Normal * (d * Pow2[q])
           /\ n * Pow2[p] < (2 * Normal) * (d * Pow2[q])
    BY <1>2, FloatIs
  <2>2. p \in Nat /\ q \in Nat /\ p <= 2 * Bits
    BY BitsFacts, SMT
  <2>3. PICK P, Q \in Nat \ {0} : P = Pow2[p] /\ Q = Pow2[q]
    BY <2>2, Pow2Positive
  <2>4. PICK a \in Nat, b \in Nat \ {0} : a = n * P /\ b = d * Q
    BY <1>0, <2>3, SMT
  <2>5. PICK h, u \in Nat : h = Normal /\ u = Pow2[Bits] /\ u = 2 * h
    BY BitsFacts
  <2>6. PICK x : x = Float(n, d, e)
    OBVIOUS
  <2>7. x = [m |-> Nearest(a, b), e |-> e - p + q] /\ a >= h * b /\ a < u * b
    BY <2>1, <2>3, <2>4, <2>5, <2>6
  <2>8. PICK m \in Nat : m = Nearest(a, b) /\ m <= u
                         /\ 2 * (m * b - a) <= b /\ 2 * (a - m * b) <= b
    BY <2>4, <2>5, <2>7, NearestFacts, NearestAtMost
  <2>9. PICK f \in Int : f = e - p + q
    BY <2>2, SMT
  <2>10. x.m = m /\ x.e = f /\ x \in Floats
    <3>1. m \in 0 .. u
      BY <2>5, <2>8, SMT
    <3> QED
      BY <2>5, <2>7, <2>8, <2>9, <3>1 DEF Floats
  <2>11. f + (j + 2 * Bits) >= 0
    BY <2>2, <2>9, BitsFacts, SMT
  <2>12. ASSUME NEW k \in Nat, k >= j + 2 * Bits
        PROVE  /\ Units(x, k) \in Nat /\ n * Pow2[e + k] \in Nat
               /\ Pow2[Bits] * (d * Units(x, k) - n * Pow2[e + k]) <= n * Pow2[e + k]
               /\ Pow2[Bits] * (n * Pow2[e + k] - d * Units(x, k)) <= n * Pow2[e + k]
    <3>1. PICK r, s \in Nat : r = f + k /\ s = e + k /\ r + p = s + q
      <4>1. f + k \in Nat /\ e + k \in Nat /\ (f + k) + p = (e + k) + q
        BY <2>2, <2>9, <2>12, BitsFacts, SMT
      <4> QED
        BY <4>1
    <3>2. PICK R, S \in Nat \ {0} : R = Pow2[r] /\ S = Pow2[s]
      BY <3>1, Pow2Positive
    <3>3. R * P = S * Q
      <4>1. Pow2[r + p] = R * P /\ Pow2[s + q] = S * Q
        BY <2>2, <2>3, <3>1, <3>2, Pow2Sum
      <4> QED
        BY <3>1, <4>1
    <3>4. PICK v, z, dv \in Nat : v = m * R /\ z = n * S /\ dv = d * v
      BY <1>0, <2>8, <3>2, SMT
    <3>5. Units(x, k) = v /\ n * Pow2[e + k] = z
      BY <2>10, <3>1, <3>2, <3>4 DEF Units
    <3>6. dv * Q = (m * b) * R
      BY <1>0, <2>3, <2>4, <2>8, <3>2, <3>4, SMT
    <3>7. z * Q = a * R
      <4>1. (n * S) * Q = n * (S * Q) /\ n * (R * P) = (n * P) * R
        BY <2>3, <3>2, SMT
      <4> QED
        BY <2>4, <3>3, <3>4, <4>1
    <3>8. PICK c \in Nat : c = m * b
      BY <2>4, <2>8, SMT
    <3>9. (u * (c - a)) * R <= a * R /\ (u * (a - c)) * R <= a * R
      <4>1. u * (c - a) <= a
        <5>1. h * (2 * (c - a)) <= h * b /\ u * (c - a) = h * (2 * (c - a))
          BY <2>4, <2>5, <2>8, <3>8, SMT
        <5> QED
          BY <2>4, <2>5, <2>7, <5>1, SMT
      <4>2. u * (a - c) <= a
        <5>1. h * (2 * (a - c)) <= h * b /\ u * (a - c) = h * (2 * (a - c))
          BY <2>4, <2>5, <2>8, <3>8, SMT
        <5> QED
          BY <2>4, <2>5, <2>7, <5>1, SMT
      <4>3. u * (c - a) \in Int /\ u * (a - c) \in Int
        BY <2>4, <2>5, <3>8, SMT
      <4>4. \A y \in Int : y <= a => y * R <= a * R
        BY <2>4, <3>2, SMT
      <4> QED
        BY <4>1, <4>2, <4>3, <4>4
    <3>10. (u * (dv - z)) * Q <= z * Q /\ (u * (z - dv)) * Q <= z * Q
      <4>1. (u * (dv - z)) * Q = u * (dv * Q - z * Q) /\ (u * (c - a)) * R = u * (c * R - a * R)
            /\ (u * (z - dv)) * Q = u * (z * Q - dv * Q) /\ (u * (a - c)) * R = u * (a * R - c * R)
        <5>1. Q \in Int /\ R \in Int /\ u \in Int /\ dv \in Int /\ z \in Int
              /\ c \in Int /\ a \in Int
          BY SMT
        <5> QED
          BY <5>1, Distributed
      <4> QED
        BY <3>6, <3>7, <3>8, <3>9, <4>1
    <3>11. \A y, t \in Int : y * Q <= t * Q => y <= t
      BY <2>3, SMT
    <3>12. u * (dv - z) <= z /\ u * (z - dv) <= z
      <4>1. u * (dv - z) \in Int /\ u * (z - dv) \in Int /\ z \in Int
        BY <2>5, <3>4, SMT
      <4> QED
        BY <3>10, <3>11, <4>1
    <3> QED
      BY <2>5, <3>4, <3>5, <3>12
  <2> QED
    BY <1>2, <2>6, <2>10, <2>11, <2>12
<1> QED
  BY <1>1, <1>2

(* What fits is exact. *)
LEMMA FloatOfInteger ==
  ASSUME NEW n \in Nat, n < Pow2[Bits], NEW k \in Nat, k >= 2 * Bits
  PROVE  Units(Float(n, 1, 0), k) = n * Pow2[k]
<1>1. CASE n = 0
  <2>1. PICK x : x = Float(n, 1, 0) /\ x = [m |-> 0, e |-> 0]
    BY <1>1 DEF Float
  <2>2. x.m = 0 /\ x.e = 0 /\ 0 + k = k
    BY <2>1, SMT
  <2> QED
    BY <1>1, <2>1, <2>2 DEF Units
<1>2. CASE n # 0
  <2>0. /\ 1 \in 1 .. Pow2[Bits] /\ n < Pow2[3 * Bits]
    <3>1. Bits <= 3 * Bits /\ Pow2[Bits] <= Pow2[3 * Bits] /\ Pow2[3 * Bits] \in Nat
      BY BitsFacts, Pow2Grows, Pow2Positive, SMT
    <3> QED
      BY <3>1, BitsFacts, SMT
  <2>1. PICK p, q \in 0 .. 2 * Bits :
           /\ p = 0 \/ q = 0
           /\ Float(n, 1, 0) = [m |-> Nearest(n * Pow2[p], 1 * Pow2[q]), e |-> 0 - p + q]
           /\ n * Pow2[p] >= Normal * (1 * Pow2[q])
           /\ n * Pow2[p] < (2 * Normal) * (1 * Pow2[q])
    <3>1. PICK d, e \in Int : d = 1 /\ e = 0 /\ d \in 1 .. Pow2[Bits]
      BY <2>0
    <3> QED
      BY <1>2, <2>0, <3>1, FloatIs
  <2>2. p \in Nat /\ q \in Nat /\ p <= 2 * Bits
    BY BitsFacts, SMT
  <2>3. PICK P, Q \in Nat \ {0} : P = Pow2[p] /\ Q = Pow2[q] /\ 1 * Q = Q
    <3>1. Pow2[p] \in Nat \ {0} /\ Pow2[q] \in Nat \ {0}
      BY <2>2, Pow2Positive
    <3>2. 1 * Pow2[q] = Pow2[q]
      BY <3>1, SMT
    <3> QED
      BY <3>1, <3>2
  <2>4. q = 0
    <3>1. ASSUME q # 0 PROVE FALSE
      <4>1. p = 0 /\ q - 1 \in Nat /\ q - 1 + 1 = q
        BY <2>1, <2>2, <3>1, SMT
      <4>2. PICK w \in Nat \ {0} : Q = 2 * w
        BY <2>3, <4>1, Pow2Next, Pow2Positive
      <4>3. P = 1
        BY <2>3, <4>1, Pow2Next
      <4>4. PICK h \in Nat : h = Normal /\ Pow2[Bits] = 2 * h
        BY BitsFacts
      <4>5. h * (2 * w) >= 2 * h
        BY <4>2, <4>4, SMT
      <4>6. n * 1 >= h * (2 * w) /\ n < 2 * h /\ n * 1 = n
        BY <2>1, <2>3, <4>2, <4>3, <4>4, SMT
      <4>7. h * (2 * w) \in Nat
        BY <4>2, <4>4, SMT
      <4> QED
        BY <4>4, <4>5, <4>6, <4>7, SMT
    <3> QED
      BY <3>1
  <2>5. Q = 1 /\ n * P \in Nat
    BY <2>3, <2>4, Pow2Next, SMT
  <2>6. PICK x : x = Float(n, 1, 0) /\ x = [m |-> n * P, e |-> 0 - p + q]
    BY <2>1, <2>3, <2>5, NearestExact
  <2>7. PICK r \in Nat : r = x.e + k /\ r + p = k
    <3>1. x.e = 0 - p + q
      BY <2>6
    <3>2. (0 - p + q) + k \in Nat /\ ((0 - p + q) + k) + p = k
      BY <2>2, <2>4, BitsFacts, SMT
    <3> QED
      BY <3>1, <3>2
  <2>8. PICK R \in Nat : R = Pow2[r] /\ Pow2[k] = R * P
    <3>1. Pow2[r + p] = Pow2[r] * Pow2[p] /\ Pow2[r] \in Nat
      BY <2>2, Pow2Positive, Pow2Sum
    <3> QED
      BY <2>3, <2>7, <3>1
  <2>9. (n * P) * R = n * (R * P)
    BY <2>3, <2>8, SMT
  <2> QED
    BY <2>6, <2>7, <2>8, <2>9 DEF Units
<1> QED
  BY <1>1, <1>2

LEMMA FloatAt ==
  ASSUME NEW n \in Nat, NEW d \in 1 .. Pow2[Bits], n < Pow2[3 * Bits],
         NEW e \in Int, NEW j \in Nat, e + j >= 0,
         NEW k \in Nat, k >= j + 2 * Bits, NEW z, z = Float(n, d, e)
  PROVE  /\ z \in Floats /\ z.e + (j + 2 * Bits) >= 0 /\ (n = 0 => z.m = 0)
         /\ Units(z, k) \in Nat /\ n * Pow2[e + k] \in Nat
         /\ Pow2[Bits] * (d * Units(z, k) - n * Pow2[e + k]) <= n * Pow2[e + k]
         /\ Pow2[Bits] * (n * Pow2[e + k] - d * Units(z, k)) <= n * Pow2[e + k]
BY FloatIsNear

(* a is b up to one part in 2^Bits. *)
Near(a, b) ==
  /\ a \in Nat /\ b \in Nat
  /\ Pow2[Bits] * (a - b) <= b /\ Pow2[Bits] * (b - a) <= b

LEMMA FloatsFields ==
  ASSUME NEW x \in Floats
  PROVE  x.m \in Nat /\ x.m <= Pow2[Bits] /\ x.e \in Int
<1>1. x.m \in 0 .. Pow2[Bits] /\ x.e \in Int
  BY DEF Floats
<1> QED
  BY <1>1, BitsFacts, SMT

(* Units that are whole for x are natural numbers.                         *)
LEMMA UnitsTyped ==
  ASSUME NEW x \in Floats, NEW k \in Nat, x.e + k >= 0
  PROVE  Units(x, k) \in Nat
<1>1. x.m \in Nat /\ x.e + k \in Nat
  BY FloatsFields, SMT
<1>2. PICK a, b \in Nat : a = x.m /\ b = Pow2[x.e + k]
  BY <1>1, Pow2Positive
<1>3. a * b \in Nat
  BY SMT
<1> QED
  BY <1>2, <1>3 DEF Units

(* A product, a quotient and a difference are off by at most one part in   *)
(* 2^Bits.                                                                 *)
LEMMA TimesIsNear ==
  ASSUME NEW x \in Floats, NEW c \in Nat, c < Pow2[2 * Bits],
         NEW j \in Nat, x.e + j >= 0, NEW k \in Nat, k >= j + 2 * Bits
  PROVE  /\ Times(x, c) \in Floats
         /\ Times(x, c).e + (j + 2 * Bits) >= 0
         /\ x.m * c = 0 => Times(x, c).m = 0
         /\ Near(Units(Times(x, c), k), c * Units(x, k))
<1>1. PICK m \in Nat, e \in Int : m = x.m /\ e = x.e /\ m <= Pow2[Bits]
  BY FloatsFields
<1>2. PICK n \in Nat : n = m * c
  BY SMT
<1>3. PICK d \in 1 .. Pow2[Bits] : d = 1
  BY BitsFacts, SMT
<1>4. n < Pow2[3 * Bits]
  <2>1. PICK u, w \in Nat : u = Pow2[Bits] /\ w = Pow2[2 * Bits] /\ Pow2[3 * Bits] = w * u /\ u > 0
    <3>1. Pow2[2 * Bits] \in Nat
      BY BitsFacts, Pow2Positive
    <3> QED
      BY <3>1, BitsFacts, SMT
  <2>2. m * c <= u * c /\ u * c < w * u
    BY <1>1, <2>1, SMT
  <2> QED
    BY <1>2, <2>1, <2>2, SMT
<1>5. PICK z : z = Times(x, c) /\ z = Float(n, d, e)
  BY <1>1, <1>2, <1>3 DEF Times
<1>6. /\ z \in Floats /\ z.e + (j + 2 * Bits) >= 0 /\ (n = 0 => z.m = 0)
      /\ Units(z, k) \in Nat /\ n * Pow2[e + k] \in Nat
      /\ Pow2[Bits] * (d * Units(z, k) - n * Pow2[e + k]) <= n * Pow2[e + k]
      /\ Pow2[Bits] * (n * Pow2[e + k] - d * Units(z, k)) <= n * Pow2[e + k]
  <2>1. e + j >= 0
    BY <1>1
  <2> QED
    BY <1>4, <1>5, <2>1, FloatAt
<1>7. n * Pow2[e + k] = c * Units(x, k)
  <2>1. e + k \in Nat
    BY <1>1, BitsFacts, SMT
  <2>2. PICK r \in Nat : r = Pow2[e + k]
    BY <2>1, Pow2Positive
  <2>3. (m * c) * r = c * (m * r)
    BY SMT
  <2> QED
    BY <1>1, <1>2, <2>2, <2>3 DEF Units
<1>8. d * Units(z, k) = Units(z, k)
  BY <1>3, <1>6, SMT
<1> QED
  BY <1>1, <1>2, <1>5, <1>6, <1>7, <1>8 DEF Near

LEMMA OverIsNear ==
  ASSUME NEW x \in Floats, NEW d \in 1 .. Pow2[Bits],
         NEW j \in Nat, x.e + j >= 0, NEW k \in Nat, k >= j + 2 * Bits
  PROVE  /\ Over(x, d) \in Floats
         /\ Over(x, d).e + (j + 2 * Bits) >= 0
         /\ x.m = 0 => Over(x, d).m = 0
         /\ Units(Over(x, d), k) \in Nat
         /\ Near(d * Units(Over(x, d), k), Units(x, k))
<1>1. PICK m \in Nat, e \in Int : m = x.m /\ e = x.e /\ m <= Pow2[Bits]
  BY FloatsFields
<1>2. m < Pow2[3 * Bits]
  <2>1. PICK u, w \in Nat : u = Pow2[Bits] /\ w = Pow2[2 * Bits] /\ Pow2[3 * Bits] = w * u
                            /\ u >= 400 /\ w = u * u
    <3>1. Pow2[2 * Bits] \in Nat
      BY BitsFacts, Pow2Positive
    <3> QED
      BY <3>1, BitsFacts
  <2>2. u < u * u /\ u * u <= (u * u) * u
    BY <2>1, SMT
  <2> QED
    BY <1>1, <2>1, <2>2, SMT
<1>3. PICK z : z = Over(x, d) /\ z = Float(m, d, e)
  BY <1>1 DEF Over
<1>4. /\ z \in Floats /\ z.e + (j + 2 * Bits) >= 0 /\ (m = 0 => z.m = 0)
      /\ Units(z, k) \in Nat /\ m * Pow2[e + k] \in Nat
      /\ Pow2[Bits] * (d * Units(z, k) - m * Pow2[e + k]) <= m * Pow2[e + k]
      /\ Pow2[Bits] * (m * Pow2[e + k] - d * Units(z, k)) <= m * Pow2[e + k]
  <2>1. e + j >= 0
    BY <1>1
  <2> QED
    BY <1>2, <1>3, <2>1, FloatAt
<1>5. m * Pow2[e + k] = Units(x, k)
  BY <1>1 DEF Units
<1>6. d * Units(z, k) \in Nat
  <2>1. d \in Nat
    BY BitsFacts, SMT
  <2> QED
    BY <1>4, <2>1, SMT
<1> QED
  BY <1>1, <1>3, <1>4, <1>5, <1>6 DEF Near

LEMMA MinusIsNear ==
  ASSUME NEW x \in Floats, NEW y \in Floats,
         NEW j \in Nat, x.e + j >= 0, y.e + j >= 0, NEW k \in Nat, k >= j + 2 * Bits,
         Units(y, k) <= Units(x, k), y.m = 0 \/ Units(x, k) <= 200 * Units(y, k)
  PROVE  /\ Minus(x, y) \in Floats
         /\ Minus(x, y).e + (j + 2 * Bits) >= 0
         /\ Near(Units(Minus(x, y), k), Units(x, k) - Units(y, k))
<1>1. PICK xm, ym \in Nat, xe, ye \in Int :
        /\ xm = x.m /\ xe = x.e /\ ym = y.m /\ ye = y.e
        /\ xm <= Pow2[Bits] /\ ym <= Pow2[Bits]
  BY FloatsFields
<1>2. PICK e \in Int :
        /\ e = IF ym = 0 \/ xe < ye THEN xe ELSE ye
        /\ xe - e \in Nat /\ (ym # 0 => ye - e \in Nat) /\ e + j >= 0 /\ e + k \in Nat
        /\ e # xe => ym # 0 /\ e = ye
  <2>1. CASE ym = 0 \/ xe < ye
    <3>1. xe - xe \in Nat /\ (ym # 0 => ye - xe \in Nat) /\ xe + j >= 0 /\ xe + k \in Nat
      BY <1>1, <2>1, BitsFacts, SMT
    <3> QED
      BY <2>1, <3>1
  <2>2. CASE ~ (ym = 0 \/ xe < ye)
    <3>1. xe - ye \in Nat /\ ye - ye \in Nat /\ ye + j >= 0 /\ ye + k \in Nat
      BY <1>1, <2>2, BitsFacts, SMT
    <3> QED
      BY <2>2, <3>1
  <2> QED
    BY <2>1, <2>2
<1>3. PICK r, p, q \in Nat : r = Pow2[e + k] /\ r # 0 /\ p = Pow2[xe - e]
                             /\ (ym # 0 => q = Pow2[ye - e])
                             /\ (ym = 0 => q = 0)
                             /\ (e = xe => p = 1) /\ (e # xe => q = 1)
  <2>1. PICK r, p \in Nat : r = Pow2[e + k] /\ r # 0 /\ p = Pow2[xe - e] /\ (e = xe => p = 1)
    <3>1. e = xe => xe - e = 0
      BY SMT
    <3> QED
      BY <1>2, <3>1, Pow2Positive, Pow2Next
  <2>2. CASE ym = 0
    BY <1>2, <2>1, <2>2
  <2>3. CASE ym # 0
    <3>1. e # xe => ye - e = 0
      BY <1>2, SMT
    <3>2. Pow2[ye - e] \in Nat /\ (e # xe => Pow2[ye - e] = 1)
      BY <1>2, <2>3, <3>1, Pow2Positive, Pow2Next
    <3> QED
      BY <2>1, <2>3, <3>2
  <2> QED
    BY <2>2, <2>3
<1>4. PICK X, Y \in Nat : X = Units(x, k) /\ Y = Units(y, k) /\ X = xm * (p * r) /\ Y = ym * (q * r)
  <2>1. xe + k \in Nat /\ ye + k \in Nat /\ xe + k = (xe - e) + (e + k)
        /\ ye + k = (ye - e) + (e + k)
    BY <1>1, <1>2, BitsFacts, SMT
  <2>2. Pow2[xe + k] = p * r
    <3>1. PICK a, b \in Nat : a = xe - e /\ b = e + k
      BY <1>2
    <3>2. Pow2[a + b] = Pow2[a] * Pow2[b]
      BY Pow2Sum
    <3> QED
      BY <1>3, <2>1, <3>1, <3>2
  <2>3. ym # 0 => Pow2[ye + k] = q * r
    <3>1. SUFFICES ASSUME ym # 0 PROVE Pow2[ye + k] = q * r
      OBVIOUS
    <3>2. PICK a, b \in Nat : a = ye - e /\ b = e + k
      BY <1>2, <3>1
    <3>3. Pow2[a + b] = Pow2[a] * Pow2[b]
      BY Pow2Sum
    <3> QED
      BY <1>3, <2>1, <3>1, <3>2, <3>3
  <2>4. Units(x, k) \in Nat /\ Units(y, k) \in Nat
    <3>1. x.e + k >= 0 /\ y.e + k >= 0
      BY <1>1, <2>1, SMT
    <3> QED
      BY <3>1, UnitsTyped
  <2>5. ym = 0 => Units(y, k) = 0
    <3>1. PICK w \in Nat : w = Pow2[ye + k]
      BY <2>1, Pow2Positive
    <3>2. 0 * w = 0
      BY SMT
    <3> QED
      BY <1>1, <3>1, <3>2 DEF Units
  <2>6. ym = 0 => ym * (q * r) = 0
    BY <1>3, SMT
  <2>7. Units(x, k) = xm * (p * r)
    BY <1>1, <2>2 DEF Units
  <2>8. Units(y, k) = ym * (q * r)
    BY <1>1, <2>3, <2>5, <2>6 DEF Units
  <2> QED
    BY <2>4, <2>7, <2>8
<1>5. PICK a, b \in Nat : a = xm * p /\ b = ym * q /\ X = a * r /\ Y = b * r
  <2>1. xm * p \in Nat /\ ym * q \in Nat /\ xm * (p * r) = (xm * p) * r
        /\ ym * (q * r) = (ym * q) * r
    BY <1>3, SMT
  <2> QED
    BY <1>4, <2>1
<1>6. b <= a
  BY <1>3, <1>4, <1>5, SMT
<1>7. PICK n \in Nat : n = a - b /\ n * r = X - Y
  <2>1. a - b \in Nat /\ (a - b) * r = a * r - b * r
    BY <1>3, <1>6, SMT
  <2> QED
    BY <1>5, <2>1
<1>8. n < Pow2[3 * Bits]
  <2>1. PICK u \in Nat : u = Pow2[Bits] /\ u >= 400 /\ Pow2[3 * Bits] = (u * u) * u
    BY BitsFacts
  <2>2. a <= 200 * u
    <3>1. CASE e = xe
      BY <1>1, <1>3, <1>5, <2>1, <3>1, SMT
    <3>2. CASE e # xe
      <4>1. ym # 0 /\ b = ym
        BY <1>2, <1>3, <1>5, <3>2, SMT
      <4>2. X <= 200 * Y
        BY <1>1, <1>4, <4>1
      <4>3. a * r <= (200 * b) * r
        <5>1. 200 * (b * r) = (200 * b) * r
          BY <1>3, SMT
        <5> QED
          BY <1>5, <4>2, <5>1
      <4>4. a <= 200 * b
        BY <1>3, <4>3, SMT
      <4> QED
        BY <1>1, <2>1, <4>1, <4>4, SMT
    <3> QED
      BY <3>1, <3>2
  <2>3. 200 * u < u * u /\ u * u <= (u * u) * u
    BY <2>1, SMT
  <2>4. n <= a
    BY <1>7, SMT
  <2>5. u * u \in Nat /\ (u * u) * u \in Nat
    BY SMT
  <2> QED
    BY <2>1, <2>2, <2>3, <2>4, <2>5, SMT
<1>9. PICK d \in 1 .. Pow2[Bits] : d = 1
  BY BitsFacts, SMT
<1>10. PICK z : z = Minus(x, y) /\ z = Float(n, d, e)
  <2>1. Shifted(xm, xe - e) = a
    <3>1. ~ (xe - e < 0)
      BY <1>2, SMT
    <3> QED
      BY <1>3, <1>5, <3>1 DEF Shifted
  <2>2. (IF ym = 0 THEN 0 ELSE Shifted(ym, ye - e)) = b
    <3>1. CASE ym = 0
      <4>1. b = 0
        BY <1>3, <1>5, <3>1, SMT
      <4> QED
        BY <3>1, <4>1
    <3>2. CASE ym # 0
      <4>1. ~ (ye - e < 0)
        BY <1>2, <3>2, SMT
      <4> QED
        BY <1>3, <1>5, <3>2, <4>1 DEF Shifted
    <3> QED
      BY <3>1, <3>2
  <2>3. Minus(x, y) = Float(Shifted(xm, xe - e) - (IF ym = 0 THEN 0 ELSE Shifted(ym, ye - e)), 1, e)
    BY <1>1, <1>2 DEF Minus
  <2> QED
    BY <1>7, <1>9, <2>1, <2>2, <2>3
<1>11. /\ z \in Floats /\ z.e + (j + 2 * Bits) >= 0
       /\ Units(z, k) \in Nat /\ n * Pow2[e + k] \in Nat
       /\ Pow2[Bits] * (d * Units(z, k) - n * Pow2[e + k]) <= n * Pow2[e + k]
       /\ Pow2[Bits] * (n * Pow2[e + k] - d * Units(z, k)) <= n * Pow2[e + k]
  BY <1>2, <1>8, <1>10, FloatAt
<1>12. d * Units(z, k) = Units(z, k)
  BY <1>9, <1>11, SMT
<1> QED
  BY <1>3, <1>4, <1>7, <1>10, <1>11, <1>12 DEF Near

LEMMA Multiplied ==
  ASSUME NEW a \in Nat, NEW b \in Nat, NEW c \in Nat
  PROVE  a * (b * c) = (a * b) * c /\ (a + 1) * b = a * b + b
BY SMT

(* What is truncated is off by less than one unit.                         *)
LEMMA TruncatedIs ==
  ASSUME NEW x \in Floats, NEW k \in Nat, x.e + k >= 0
  PROVE  /\ Truncated(x) \in Nat
         /\ Truncated(x) * Pow2[k] <= Units(x, k)
         /\ Units(x, k) < (Truncated(x) + 1) * Pow2[k]
<1>1. PICK m \in Nat, e \in Int : m = x.m /\ e = x.e
  BY FloatsFields
<1>2. PICK w \in Nat \ {0} : w = Pow2[k]
  BY Pow2Positive
<1>3. CASE e < 0
  <2>1. -e \in Nat /\ e + k \in Nat /\ (-e) + (e + k) = k
    BY <1>1, <1>3, SMT
  <2>2. PICK b, r \in Nat \ {0} : b = Pow2[-e] /\ r = Pow2[e + k]
    BY <2>1, Pow2Positive
  <2>3. w = b * r
    BY <1>2, <2>1, <2>2, Pow2Sum
  <2>4. PICK q, s \in Nat : q = m \div b /\ s = m % b /\ m = q * b + s /\ s < b
    BY <2>2, DivMod
  <2>5. Truncated(x) = q /\ Units(x, k) = m * r
    BY <1>1, <1>3, <2>2, <2>4 DEF Truncated, Shifted, Units
  <2>6. q * (b * r) = (q * b) * r /\ (q + 1) * (b * r) = ((q + 1) * b) * r
        /\ (q + 1) * b = q * b + b
    <3>1. PICK t \in Nat : t = q + 1
      OBVIOUS
    <3>2. q * (b * r) = (q * b) * r /\ t * (b * r) = (t * b) * r
      BY Multiplied
    <3>3. (q + 1) * b = q * b + b
      BY Multiplied
    <3> QED
      BY <3>1, <3>2, <3>3
  <2>7. (q * b) * r <= m * r
    BY <2>2, <2>4, SMT
  <2>8. m * r < (q * b + b) * r
    BY <2>2, <2>4, SMT
  <2> QED
    BY <1>2, <2>3, <2>4, <2>5, <2>6, <2>7, <2>8
<1>4. CASE ~ (e < 0)
  <2>1. e \in Nat
    BY <1>4, SMT
  <2>2. PICK b \in Nat \ {0} : b = Pow2[e] /\ Pow2[e + k] = b * w
    BY <1>2, <2>1, Pow2Positive, Pow2Sum
  <2>3. Truncated(x) = m * b /\ Units(x, k) = m * (b * w)
    BY <1>1, <1>4, <2>2 DEF Truncated, Shifted, Units
  <2>4. m * b \in Nat /\ m * (b * w) = (m * b) * w
    BY <1>2, <2>2, SMT
  <2>5. PICK t \in Nat : t = m * b
    BY <2>4
  <2>6. t * w <= t * w /\ t * w < (t + 1) * w
    BY <1>2, <2>5, SMT
  <2> QED
    BY <1>2, <2>3, <2>4, <2>5, <2>6
<1> QED
  BY <1>3, <1>4

(* An error of one part in 2^Bits of less than a quarter of 2^Bits c's is  *)
(* at most a quarter of c.                                                 *)
LEMMA Quarter ==
  ASSUME NEW a \in Nat, NEW b \in Nat, Near(a, b),
         NEW c \in Nat, 4 * b <= Pow2[Bits] * c
  PROVE  4 * (a - b) <= c /\ 4 * (b - a) <= c
<1>1. PICK u \in Nat \ {0} : u = Pow2[Bits] /\ u * (a - b) <= b /\ u * (b - a) <= b
                             /\ 4 * b <= u * c
  BY BitsFacts, SMT DEF Near
<1>2. u * (4 * (a - b)) <= u * c /\ u * (4 * (b - a)) <= u * c
  <2>1. u * (4 * (a - b)) = 4 * (u * (a - b)) /\ u * (4 * (b - a)) = 4 * (u * (b - a))
    BY <1>1, SMT
  <2>2. PICK p, q, r \in Int : p = u * (a - b) /\ q = u * (b - a) /\ r = u * c
    BY <1>1, SMT
  <2> QED
    BY <1>1, <2>1, <2>2, SMT
<1>3. \A s, t \in Int : u * s <= u * t => s <= t
  BY <1>1, SMT
<1>4. 4 * (a - b) \in Int /\ 4 * (b - a) \in Int /\ c \in Int
  BY SMT
<1> QED
  BY <1>2, <1>3, <1>4

LEMMA NearScaled ==
  ASSUME NEW a \in Nat, NEW b \in Nat, Near(a, b), NEW c \in Nat
  PROVE  Near(c * a, c * b)
<1>1. PICK u \in Nat : u = Pow2[Bits] /\ u * (a - b) <= b /\ u * (b - a) <= b
  BY BitsFacts DEF Near
<1>2. /\ u * (c * a - c * b) = c * (u * (a - b)) /\ u * (c * b - c * a) = c * (u * (b - a))
      /\ c * a \in Nat /\ c * b \in Nat /\ u * (a - b) \in Int /\ u * (b - a) \in Int
  BY <1>1, SMT
<1>3. \A y \in Int : y <= b => c * y <= c * b
  BY SMT
<1>4. c * (u * (a - b)) <= c * b /\ c * (u * (b - a)) <= c * b
  BY <1>1, <1>2, <1>3
<1> QED
  BY <1>1, <1>2, <1>4 DEF Near

(* In four hundredths. *)
LEMMA NearLoosely ==
  ASSUME NEW a \in Nat, NEW b \in Nat, Near(a, b)
  PROVE  400 * (a - b) <= b /\ 400 * (b - a) <= b
<1>1. PICK u \in Nat : u = Pow2[Bits] /\ u >= 400 /\ u * (a - b) <= b /\ u * (b - a) <= b
  BY BitsFacts DEF Near
<1>2. CASE a >= b
  <2>1. 400 * (a - b) <= u * (a - b) /\ u * (a - b) \in Int
    BY <1>1, <1>2, SMT
  <2> QED
    BY <1>1, <1>2, <2>1, SMT
<1>3. CASE a < b
  <2>1. 400 * (b - a) <= u * (b - a) /\ u * (b - a) \in Int
    BY <1>1, <1>3, SMT
  <2> QED
    BY <1>1, <1>3, <2>1, SMT
<1> QED
  BY <1>2, <1>3, SMT

(* A fee is no more than the amount, and no less than a two hundredth.     *)
LEMMA FeeIsPart ==
  ASSUME NEW x \in Nat, NEW y \in Nat, NEW z \in Nat, NEW f \in 0 .. 99,
         Near(y, f * x), Near(100 * z, y)
  PROVE  z <= x /\ (f # 0 => x <= 200 * z)
<1>1. PICK g \in Nat : g = f * x /\ g <= 99 * x /\ (f # 0 => x <= g)
  <2>1. f * x \in Nat /\ f * x <= 99 * x /\ (f # 0 => x <= f * x)
    BY SMT
  <2> QED
    BY <2>1
<1>2. 400 * (y - g) <= g /\ 400 * (g - y) <= g
  BY <1>1, NearLoosely
<1>3. 100 * z \in Nat
  BY SMT
<1>4. 400 * (100 * z - y) <= y /\ 400 * (y - 100 * z) <= y
  BY <1>3, NearLoosely
<1>5. z <= x
  BY <1>1, <1>2, <1>4, SMT
<1>6. f # 0 => x <= 200 * z
  BY <1>1, <1>2, <1>4, SMT
<1> QED
  BY <1>5, <1>6

(***************************************************************************)
(* The amounts that are paid.                                              *)
(***************************************************************************)

(* What is multiplied with and divided by is no more than TimesIsNear and  *)
(* OverIsNear allow.                                                       *)
LEMMA UnitSizes ==
  /\ SatPerBGL \in Nat \ {0} /\ WeiPerSat \in Nat /\ WeiPerSat >= 2
  /\ SatPerBGL \in 1 .. Pow2[Bits] /\ SatPerBGL < Pow2[2 * Bits]
  /\ SatPerBGL * WeiPerSat \in Nat /\ SatPerBGL * WeiPerSat < Pow2[2 * Bits]
  /\ FeePercentage \in 0 .. 99 /\ FeePercentage \in Nat /\ FeePercentage < Pow2[2 * Bits]
  /\ 100 \in 1 .. Pow2[Bits]
<1>1. PICK h \in Nat : h = Normal /\ h >= 200 /\ Pow2[Bits] = 2 * h
                       /\ Pow2[2 * Bits] = (2 * h) * (2 * h)
  BY BitsFacts, SMT
<1>2. PICK s, t \in Nat : s = SatPerBGL /\ t = WeiPerSat
                          /\ s >= 2 /\ t >= 2 /\ s <= h /\ t <= h
  <2>1. h = Pow2[Bits - 1]
    BY <1>1 DEF Normal
  <2>2. SatPerBGL \in 2 .. h /\ WeiPerSat \in 2 .. h
    BY <2>1, AmountsAssumption
  <2> QED
    BY <1>1, <2>2, SMT
<1>3. s * t <= h * h /\ s * t \in Nat
  <2>1. s * t <= h * t /\ h * t <= h * h
    BY <1>1, <1>2, SMT
  <2>2. s * t \in Nat /\ h * t \in Nat /\ h * h \in Nat
    BY SMT
  <2> QED
    BY <2>1, <2>2, SMT
<1>4. (2 * h) * (2 * h) = 4 * (h * h) /\ h * h >= 200 * h
  BY <1>1, SMT
<1>5. PICK hh \in Nat : hh = h * h
  BY SMT
<1>6. s * t < (2 * h) * (2 * h) /\ s < (2 * h) * (2 * h) /\ 100 < (2 * h) * (2 * h)
  BY <1>1, <1>2, <1>3, <1>4, <1>5, SMT
<1>7. s \in 1 .. 2 * h /\ 100 \in 1 .. 2 * h
  BY <1>1, <1>2, SMT
<1>8. FeePercentage \in 0 .. 99 /\ FeePercentage \in Nat /\ FeePercentage < 100
  BY AmountsAssumption, SMT
<1>9. FeePercentage < (2 * h) * (2 * h)
  BY <1>4, <1>5, <1>6, <1>8, SMT
<1> QED
  BY <1>1, <1>2, <1>3, <1>6, <1>7, <1>8, <1>9, SMT

(* Five roundings on the way from an amount n, in units of which w make    *)
(* one, to less the fee: all in all off by less than one.                  *)
LEMMA FiveRoundings ==
  ASSUME NEW n \in Nat, 4 * (n + 2) <= Pow2[Bits], NEW w \in Nat \ {0},
         NEW x2 \in Nat, NEW x3 \in Nat, NEW x4 \in Nat, NEW x5 \in Nat, NEW x6 \in Nat,
         Near(SatPerBGL * x2, n * w), Near(x3, FeePercentage * x2), Near(100 * x4, x3),
         x4 <= x2, Near(x5, x2 - x4), Near(x6, SatPerBGL * x5)
  PROVE  /\ 100 * x6 < (100 - FeePercentage) * (n * w) + 100 * w
         /\ 100 * x6 > (100 - FeePercentage) * (n * w) - 100 * w
<1>0. PICK f \in 0 .. 99, s \in Nat :
        /\ f = FeePercentage /\ s = SatPerBGL
        /\ Near(s * x2, n * w) /\ Near(x3, f * x2) /\ Near(x6, s * x5)
  BY UnitSizes
<1>1. PICK u \in Nat : u = Pow2[Bits] /\ 4 * (n + 2) <= u
  BY BitsFacts
<1>2. PICK p, a, g, b, y, d, c \in Nat :
        p = n * w /\ a = s * x2 /\ g = f * w /\ b = s * x3 /\ y = s * x4
        /\ d = 100 * y /\ c = s * x5
  <2>1. n * w \in Nat /\ s * x2 \in Nat /\ f * w \in Nat /\ s * x3 \in Nat
        /\ s * x4 \in Nat /\ 100 * (s * x4) \in Nat /\ s * x5 \in Nat
    BY SMT
  <2> QED
    BY <2>1
<1>3. PICK uw, ug \in Nat : /\ uw = u * w /\ ug = u * g /\ 4 * p + 8 * w <= uw
                            /\ ug = f * uw
  <2>1. u * w \in Nat /\ u * g \in Nat /\ (4 * (n + 2)) * w <= u * w
    BY <1>1, <1>2, SMT
  <2>2. (4 * (n + 2)) * w = 4 * (n * w) + 8 * w
    BY SMT
  <2>3. u * (f * w) = f * (u * w)
    BY <1>1, SMT
  <2> QED
    BY <1>2, <2>1, <2>2, <2>3
<1>4. 4 * (a - p) <= w /\ 4 * (p - a) <= w
  <2>1. Near(a, p)
    BY <1>0, <1>2
  <2>2. 4 * p <= u * w
    BY <1>3, SMT
  <2> QED
    BY <1>1, <2>1, <2>2, Quarter
<1>5. PICK h \in Nat : h = f * a /\ 4 * h + 7 * g <= ug
  <2>1. 4 * a + 7 * w <= uw
    BY <1>3, <1>4, SMT
  <2>2. 4 * a + 7 * w \in Nat /\ f * (4 * a + 7 * w) = 4 * (f * a) + 7 * (f * w) /\ f * a \in Nat
    BY SMT
  <2>3. \A i, j \in Nat : i <= j => f * i <= f * j
    BY SMT
  <2>4. f * (4 * a + 7 * w) <= f * uw
    BY <2>1, <2>2, <2>3
  <2> QED
    BY <1>2, <1>3, <2>2, <2>4
<1>6. 4 * (b - h) <= g /\ 4 * (h - b) <= g
  <2>1. PICK fx \in Nat : fx = f * x2 /\ Near(x3, fx) /\ s * fx = h
    <3>1. f * x2 \in Nat /\ s * (f * x2) = f * (s * x2)
      BY SMT
    <3> QED
      BY <1>0, <1>2, <1>5, <3>1
  <2>2. Near(b, h)
    BY <1>2, <2>1, NearScaled
  <2>3. 4 * h <= u * g
    BY <1>3, <1>5, SMT
  <2> QED
    BY <1>1, <2>2, <2>3, Quarter
<1>7. 4 * (d - b) <= g /\ 4 * (b - d) <= g
  <2>1. PICK hx \in Nat : hx = 100 * x4 /\ Near(hx, x3) /\ s * hx = d
    <3>1. 100 * x4 \in Nat /\ s * (100 * x4) = 100 * (s * x4)
      BY SMT
    <3> QED
      BY <1>2, <3>1
  <2>2. Near(d, b)
    <3>1. Near(s * hx, s * x3)
      BY <2>1, NearScaled
    <3> QED
      BY <1>2, <2>1, <3>1
  <2>3. 4 * b <= u * g
    BY <1>3, <1>5, <1>6, SMT
  <2> QED
    BY <1>1, <2>2, <2>3, Quarter
<1>8. PICK m \in Nat : m = a - y
  <2>1. s * x4 <= s * x2
    BY SMT
  <2>2. a - y \in Nat
    BY <1>2, <2>1, SMT
  <2> QED
    BY <2>2
<1>9. 4 * (c - m) <= w /\ 4 * (m - c) <= w
  <2>1. PICK q \in Nat : q = x2 - x4 /\ Near(x5, q) /\ s * q = m
    <3>1. x2 - x4 \in Nat /\ s * (x2 - x4) = s * x2 - s * x4
      BY SMT
    <3> QED
      BY <1>2, <1>8, <3>1
  <2>2. Near(c, m)
    BY <1>2, <2>1, NearScaled
  <2>3. 4 * m <= u * w
    BY <1>3, <1>4, <1>8, SMT
  <2> QED
    BY <1>1, <2>2, <2>3, Quarter
<1>10. 4 * (x6 - c) <= w /\ 4 * (c - x6) <= w
  <2>1. Near(x6, c)
    BY <1>0, <1>2
  <2>2. 4 * c <= u * w
    BY <1>3, <1>4, <1>8, <1>9, SMT
  <2> QED
    BY <1>1, <2>1, <2>2, Quarter
<1>11. PICK fp \in Nat : /\ fp = f * p /\ (100 - f) * p = 100 * p - fp
                         /\ 4 * ((100 * a - h) - (100 * p - fp)) <= 100 * w - g
                         /\ 4 * ((100 * p - fp) - (100 * a - h)) <= 100 * w - g
  <2>1. f * p \in Nat /\ (100 - f) * p = 100 * p - f * p /\ 100 - f \in Nat
    BY SMT
  <2>2. \A i, j \in Int : i <= j => (100 - f) * i <= (100 - f) * j
    BY SMT
  <2>3. 4 * (a - p) \in Int /\ 4 * (p - a) \in Int /\ w \in Int
    BY SMT
  <2>4. (100 - f) * (4 * (a - p)) <= (100 - f) * w
        /\ (100 - f) * (4 * (p - a)) <= (100 - f) * w
    BY <1>4, <2>2, <2>3
  <2>5. /\ (100 - f) * (4 * (a - p)) = 4 * ((100 * a - f * a) - (100 * p - f * p))
        /\ (100 - f) * (4 * (p - a)) = 4 * ((100 * p - f * p) - (100 * a - f * a))
        /\ (100 - f) * w = 100 * w - f * w
    BY SMT
  <2> QED
    BY <1>2, <1>5, <2>1, <2>4, <2>5
<1>12. g <= 99 * w
  BY <1>2, SMT
<1>13. 100 * x6 < (100 * p - fp) + 100 * w
  BY <1>2, <1>6, <1>7, <1>8, <1>9, <1>10, <1>11, <1>12, SMT
<1>14. 100 * x6 > (100 * p - fp) - 100 * w
  BY <1>2, <1>6, <1>7, <1>8, <1>9, <1>10, <1>11, <1>12, SMT
<1> QED
  BY <1>0, <1>2, <1>11, <1>13, <1>14

(* What is paid in BGL, for n whole units. *)
LEMMA BGLAmountIs ==
  ASSUME NEW wei \in Nat, NEW n \in Nat, n = wei \div WeiPerSat, 4 * (n + 2) <= Pow2[Bits]
  PROVE  /\ BGLAmount(wei) \in Nat
         /\ 100 * BGLAmount(wei) < n * (100 - FeePercentage) + 100
         /\ 100 * BGLAmount(wei) > n * (100 - FeePercentage) - 200
<1>1. PICK k \in Nat : k = 12 * Bits
  BY BitsFacts, SMT
<1>2. PICK w \in Nat \ {0} : w = Pow2[k]
  BY Pow2Positive
<1>3. PICK j2, j4, j6, j8, j10 \in Nat :
        /\ j2 = 0 + 2 * Bits /\ j4 = j2 + 2 * Bits /\ j6 = j4 + 2 * Bits
        /\ j8 = j6 + 2 * Bits /\ j10 = j8 + 2 * Bits
        /\ k >= 0 + 2 * Bits /\ k >= j2 + 2 * Bits /\ k >= j4 + 2 * Bits
        /\ k >= j6 + 2 * Bits /\ k >= j8 + 2 * Bits /\ k >= j10 + 2 * Bits
        /\ j8 >= j4
  <2>1. PICK b \in Nat : b = Bits
    BY BitsFacts
  <2>2. /\ 2 * b \in Nat /\ 4 * b \in Nat /\ 6 * b \in Nat /\ 8 * b \in Nat /\ 10 * b \in Nat
        /\ 2 * b = 0 + 2 * b /\ 4 * b = 2 * b + 2 * b /\ 6 * b = 4 * b + 2 * b
        /\ 8 * b = 6 * b + 2 * b /\ 10 * b = 8 * b + 2 * b
        /\ 12 * b >= 0 + 2 * b /\ 12 * b >= 2 * b + 2 * b /\ 12 * b >= 4 * b + 2 * b
        /\ 12 * b >= 6 * b + 2 * b /\ 12 * b >= 8 * b + 2 * b /\ 12 * b >= 10 * b + 2 * b
        /\ 8 * b >= 4 * b
    BY SMT
  <2> QED
    BY <1>1, <2>1, <2>2
<1>4. n < Pow2[Bits] /\ n < Pow2[3 * Bits] /\ 1 \in 1 .. Pow2[Bits]
  <2>1. Pow2[Bits] <= Pow2[3 * Bits] /\ Pow2[3 * Bits] \in Nat /\ Pow2[Bits] \in Nat
        /\ Pow2[Bits] >= 400
    <3>1. Bits <= 3 * Bits
      BY BitsFacts, SMT
    <3> QED
      BY <3>1, BitsFacts, Pow2Grows, Pow2Positive
  <2>2. n < Pow2[Bits]
    BY <2>1, SMT
  <2> QED
    BY <2>1, <2>2, SMT
<1>5. PICK z, d \in Nat : z = 0 /\ d = 1 /\ z + 0 >= 0 /\ z \in Int /\ d \in 1 .. Pow2[Bits]
  BY <1>4, SMT
<1>6. PICK x1 : x1 = Float(n, 1, 0)
  OBVIOUS
<1>7. x1 \in Floats /\ x1.e + j2 >= 0 /\ Units(x1, k) = n * w
  <2>1. x1 \in Floats /\ x1.e + (0 + 2 * Bits) >= 0
    BY <1>3, <1>4, <1>5, <1>6, FloatAt
  <2>2. k >= 2 * Bits
    BY <1>3, BitsFacts, SMT
  <2>3. Units(x1, k) = n * w
    BY <1>2, <1>4, <1>6, <2>2, FloatOfInteger
  <2> QED
    BY <1>3, <2>1, <2>3
<1>8. PICK x2 : x2 = Over(x1, SatPerBGL)
  OBVIOUS
<1>9. /\ x2 \in Floats /\ x2.e + j4 >= 0 /\ Units(x2, k) \in Nat
      /\ Near(SatPerBGL * Units(x2, k), Units(x1, k))
  BY <1>3, <1>7, <1>8, OverIsNear, UnitSizes
<1>10. PICK x3 : x3 = Times(x2, FeePercentage)
  OBVIOUS
<1>11. /\ x3 \in Floats /\ x3.e + j6 >= 0
       /\ (x2.m * FeePercentage = 0 => x3.m = 0)
       /\ Near(Units(x3, k), FeePercentage * Units(x2, k))
  BY <1>3, <1>9, <1>10, TimesIsNear, UnitSizes
<1>12. PICK x4 : x4 = Over(x3, 100)
  OBVIOUS
<1>13. /\ x4 \in Floats /\ x4.e + j8 >= 0 /\ (x3.m = 0 => x4.m = 0)
       /\ Units(x4, k) \in Nat /\ Near(100 * Units(x4, k), Units(x3, k))
  BY <1>3, <1>11, <1>12, OverIsNear, UnitSizes
<1>14. PICK X2, X3, X4 \in Nat : /\ X2 = Units(x2, k) /\ X3 = Units(x3, k) /\ X4 = Units(x4, k)
                                 /\ Near(SatPerBGL * X2, n * w)
                                 /\ Near(X3, FeePercentage * X2) /\ Near(100 * X4, X3)
  BY <1>7, <1>9, <1>11, <1>13 DEF Near
<1>15. X4 <= X2 /\ (FeePercentage # 0 => X2 <= 200 * X4)
  BY <1>14, UnitSizes, FeeIsPart
<1>16. x4.m = 0 \/ X2 <= 200 * X4
  <2>1. CASE FeePercentage = 0
    <3>1. x2.m * FeePercentage = 0
      BY <1>9, <2>1, FloatsFields, SMT
    <3> QED
      BY <1>11, <1>13, <3>1
  <2> QED
    BY <1>15, <2>1
<1>17. PICK x5 : x5 = Minus(x2, x4)
  OBVIOUS
<1>18. x2.e + j8 >= 0
  <2>1. x2.e \in Int
    BY <1>9, FloatsFields
  <2> QED
    BY <1>3, <1>9, <2>1, SMT
<1>19. /\ x5 \in Floats /\ x5.e + j10 >= 0
       /\ Near(Units(x5, k), Units(x2, k) - Units(x4, k))
  BY <1>3, <1>9, <1>13, <1>14, <1>15, <1>16, <1>17, <1>18, MinusIsNear
<1>20. PICK x6 : x6 = Times(x5, SatPerBGL)
  OBVIOUS
<1>21. /\ x6 \in Floats /\ x6.e + (j10 + 2 * Bits) >= 0
       /\ Near(Units(x6, k), SatPerBGL * Units(x5, k))
  BY <1>3, <1>19, <1>20, TimesIsNear, UnitSizes
<1>22. PICK X5, X6 \in Nat : /\ X5 = Units(x5, k) /\ X6 = Units(x6, k)
                             /\ Near(X5, X2 - X4) /\ Near(X6, SatPerBGL * X5)
  BY <1>14, <1>19, <1>21 DEF Near
<1>23. PICK t \in Nat : t = Truncated(x6) /\ t * w <= X6 /\ X6 < (t + 1) * w
  <2>1. x6.e + k >= 0
    <3>1. x6.e \in Int
      BY <1>21, FloatsFields
    <3> QED
      BY <1>3, <1>21, <3>1, BitsFacts, SMT
  <2> QED
    BY <1>2, <1>21, <1>22, <2>1, TruncatedIs
<1>24. BGLAmount(wei) = t
  BY <1>6, <1>8, <1>10, <1>12, <1>17, <1>20, <1>23 DEF BGLAmount
<1>25. PICK f, s \in Nat : f = FeePercentage /\ f \in 0 .. 99 /\ s = SatPerBGL
  BY UnitSizes
<1>26. /\ 100 * X6 < (100 - f) * (n * w) + 100 * w
       /\ 100 * X6 > (100 - f) * (n * w) - 100 * w
  <2>1. /\ 100 * X6 < (100 - FeePercentage) * (n * w) + 100 * w
        /\ 100 * X6 > (100 - FeePercentage) * (n * w) - 100 * w
    BY <1>14, <1>15, <1>22, FiveRoundings
  <2> QED
    BY <1>25, <2>1
<1>27. PICK net \in Nat : net = n * (100 - f) /\ (100 - f) * (n * w) = net * w
  <2>1. n * (100 - f) \in Nat /\ (100 - f) * (n * w) = (n * (100 - f)) * w
    BY <1>25, SMT
  <2> QED
    BY <2>1
<1>28. 100 * t < net + 100
  <2>1. (100 * t) * w = 100 * (t * w) /\ (net + 100) * w = net * w + 100 * w
    BY SMT
  <2>2. PICK p, q \in Nat : p = t * w /\ q = net * w
    BY SMT
  <2>3. (100 * t) * w < (net + 100) * w
    BY <1>23, <1>26, <1>27, <2>1, <2>2, SMT
  <2>4. \A i, l \in Int : i * w < l * w => i < l
    BY SMT
  <2> QED
    BY <2>3, <2>4, SMT
<1>29. 100 * t > net - 200
  <2>1. (100 * t + 100) * w = 100 * ((t + 1) * w) /\ (net - 100) * w = net * w - 100 * w
    BY SMT
  <2>2. PICK p, q \in Nat : p = (t + 1) * w /\ q = net * w
    BY SMT
  <2>3. (net - 100) * w < (100 * t + 100) * w
    BY <1>23, <1>26, <1>27, <2>1, <2>2, SMT
  <2>4. \A i, l \in Int : i * w < l * w => i < l
    BY SMT
  <2>5. net - 100 < 100 * t + 100
    BY <2>3, <2>4, SMT
  <2> QED
    BY <2>5, SMT
<1> QED
  BY <1>24, <1>25, <1>27, <1>28, <1>29

(* What is paid in WBGL, for n units of BGL. *)
LEMMA WBGLAmountIs ==
  ASSUME NEW n \in Nat, 4 * (n + 2) <= Pow2[Bits]
  PROVE  /\ WBGLAmount(n) \in Nat
         /\ 100 * WBGLAmount(n) < n * WeiPerSat * (100 - FeePercentage) + 100 * WeiPerSat
         /\ 100 * WBGLAmount(n) > n * WeiPerSat * (100 - FeePercentage) - 100 * WeiPerSat
<1>1. PICK k \in Nat : k = 4 * Bits /\ k >= 0 + 2 * Bits /\ k >= (0 + 2 * Bits) + 2 * Bits
                       /\ 0 + 2 * Bits \in Nat
  BY BitsFacts, SMT
<1>2. PICK w \in Nat \ {0} : w = Pow2[k]
  BY Pow2Positive
<1>3. n < Pow2[3 * Bits]
  <2>1. Pow2[Bits] <= Pow2[3 * Bits] /\ Pow2[3 * Bits] \in Nat /\ Pow2[Bits] \in Nat
    <3>1. Bits <= 3 * Bits
      BY BitsFacts, SMT
    <3> QED
      BY <3>1, BitsFacts, Pow2Grows, Pow2Positive
  <2> QED
    BY <2>1, SMT
<1>4. PICK s, v, f \in Nat : /\ s = SatPerBGL /\ v = WeiPerSat /\ f = FeePercentage
                             /\ s # 0 /\ v >= 2 /\ f \in 0 .. 99
  BY UnitSizes
<1>5. PICK c \in Nat : c = s * v
  BY SMT
<1>6. PICK x1 : x1 = Float(n, s, 0)
  OBVIOUS
<1>7. PICK z \in Nat : z = 0 /\ z + 0 >= 0 /\ z \in Int /\ z + k = k
  BY SMT
<1>8. /\ x1 \in Floats /\ x1.e + (0 + 2 * Bits) >= 0 /\ Units(x1, k) \in Nat
      /\ Near(s * Units(x1, k), n * w)
  <2>1. s \in 1 .. Pow2[Bits]
    BY <1>4, UnitSizes
  <2>2. k >= z + 2 * Bits /\ x1 = Float(n, s, z)
    BY <1>1, <1>6, <1>7
  <2>3. /\ x1 \in Floats /\ x1.e + (z + 2 * Bits) >= 0 /\ Units(x1, k) \in Nat
        /\ n * Pow2[z + k] \in Nat
        /\ Pow2[Bits] * (s * Units(x1, k) - n * Pow2[z + k]) <= n * Pow2[z + k]
        /\ Pow2[Bits] * (n * Pow2[z + k] - s * Units(x1, k)) <= n * Pow2[z + k]
    BY <1>3, <1>7, <2>1, <2>2, FloatAt
  <2>4. s * Units(x1, k) \in Nat
    BY <2>3, SMT
  <2> QED
    BY <1>2, <1>7, <2>3, <2>4 DEF Near
<1>9. PICK x2 : x2 = Times(x1, c)
  OBVIOUS
<1>10. /\ x2 \in Floats /\ x2.e + ((0 + 2 * Bits) + 2 * Bits) >= 0
       /\ Near(Units(x2, k), c * Units(x1, k))
  BY <1>1, <1>4, <1>5, <1>8, <1>9, TimesIsNear, UnitSizes
<1>11. PICK X1, X2, p, a, g, b \in Nat :
         /\ X1 = Units(x1, k) /\ X2 = Units(x2, k) /\ p = n * w /\ a = s * X1
         /\ Near(a, p) /\ g = v * w /\ b = v * a /\ c * X1 = b /\ Near(X2, b)
  <2>1. PICK X1, X2 \in Nat : X1 = Units(x1, k) /\ X2 = Units(x2, k)
    BY <1>8, <1>10 DEF Near
  <2>2. /\ n * w \in Nat /\ s * X1 \in Nat /\ v * w \in Nat /\ v * (s * X1) \in Nat
        /\ (s * v) * X1 = v * (s * X1)
    BY SMT
  <2> QED
    BY <1>5, <1>8, <1>10, <2>1, <2>2
<1>12. PICK u \in Nat : u = Pow2[Bits] /\ 4 * (n + 2) <= u
  BY BitsFacts
<1>13. 4 * p + 8 * w <= u * w
  <2>1. (4 * (n + 2)) * w <= u * w /\ (4 * (n + 2)) * w = 4 * (n * w) + 8 * w
    BY <1>12, SMT
  <2> QED
    BY <1>11, <2>1
<1>14. PICK uw \in Nat : uw = u * w
  BY SMT
<1>15. 4 * (a - p) <= w /\ 4 * (p - a) <= w
  <2>1. 4 * p <= u * w
    BY <1>13, <1>14, SMT
  <2> QED
    BY <1>11, <1>12, <2>1, Quarter
<1>16. /\ 4 * b <= u * g
       /\ 4 * (b - v * p) <= g /\ 4 * (v * p - b) <= g
  <2>1. 4 * a <= uw /\ 4 * a \in Int /\ 4 * (a - p) \in Int /\ 4 * (p - a) \in Int
    BY <1>13, <1>14, <1>15, SMT
  <2>2. \A i, l \in Int : i <= l => v * i <= v * l
    BY SMT
  <2>3. v * (4 * a) <= v * uw /\ v * (4 * (a - p)) <= v * w /\ v * (4 * (p - a)) <= v * w
    BY <1>15, <2>1, <2>2
  <2>4. v * (4 * a) = 4 * (v * a) /\ v * (u * w) = u * (v * w)
        /\ v * (4 * (a - p)) = 4 * (v * a - v * p) /\ v * (4 * (p - a)) = 4 * (v * p - v * a)
    BY SMT
  <2> QED
    BY <1>11, <1>14, <2>3, <2>4
<1>17. 4 * (X2 - b) <= g /\ 4 * (b - X2) <= g
  BY <1>11, <1>12, <1>16, Quarter
<1>18. PICK t \in Nat : t = Truncated(x2) /\ t * w <= X2 /\ X2 < (t + 1) * w
  <2>1. x2.e + k >= 0
    <3>1. x2.e \in Int
      BY <1>10, FloatsFields
    <3> QED
      BY <1>1, <1>10, <3>1, BitsFacts, SMT
  <2> QED
    BY <1>2, <1>10, <1>11, <2>1, TruncatedIs
<1>19. PICK o \in Nat : o = n * v
  BY SMT
<1>20. /\ 2 * t <= 2 * o + v
       /\ 2 * o < 2 * t + 2 + v
  <2>1. PICK q, r \in Nat : q = o * w /\ q = v * p /\ r = t * w /\ (t + 1) * w = r + w
    <3>1. (n * v) * w = v * (n * w) /\ (n * v) * w \in Nat /\ t * w \in Nat
          /\ (t + 1) * w = t * w + w
      BY SMT
    <3> QED
      BY <1>11, <1>19, <3>1
  <2>2. 2 * r <= 2 * q + g /\ 2 * q < 2 * r + 2 * w + g
    BY <1>16, <1>17, <1>18, <2>1, SMT
  <2>3. (2 * t) * w = 2 * (t * w) /\ (2 * o + v) * w = 2 * (o * w) + v * w
        /\ (2 * o) * w = 2 * (o * w) /\ (2 * t + 2 + v) * w = 2 * (t * w) + 2 * w + v * w
    BY SMT
  <2>4. (2 * t) * w <= (2 * o + v) * w /\ (2 * o) * w < (2 * t + 2 + v) * w
    BY <1>11, <2>1, <2>2, <2>3
  <2>5. \A i, l \in Int : (i * w < l * w => i < l) /\ (i * w <= l * w => i <= l)
    BY SMT
  <2>6. 2 * t \in Int /\ 2 * o + v \in Int /\ 2 * o \in Int /\ 2 * t + 2 + v \in Int
    BY SMT
  <2> QED
    BY <2>4, <2>5, <2>6
<1>21. PICK y \in Nat : y = t * f
  BY SMT
<1>22. PICK q, r \in Nat : q = y \div 100 /\ y = 100 * q + r /\ r < 100 /\ Fee(t) = q
  <2>1. y \div 100 \in Nat /\ y % 100 \in Nat /\ y % 100 < 100
        /\ y = 100 * (y \div 100) + (y % 100)
    BY SMT
  <2>2. Fee(t) = y \div 100
    BY <1>4, <1>21 DEF Fee
  <2> QED
    BY <2>1, <2>2
<1>23. WBGLAmount(n) = t - q
  <2>1. x2 = Times(Float(n, SatPerBGL, 0), SatPerBGL * WeiPerSat)
    BY <1>4, <1>5, <1>6, <1>9
  <2> QED
    BY <1>18, <1>22, <2>1 DEF WBGLAmount
<1>24. t - q \in Nat
  <2>1. y <= 99 * t
    BY <1>4, <1>21, SMT
  <2> QED
    BY <1>22, <2>1, SMT
<1>25. PICK h \in Nat : h = 100 - f /\ h <= 100 /\ h >= 1
  BY <1>4, SMT
<1>26. PICK ht, ho, hv \in Nat : ht = h * t /\ ho = h * o /\ hv = h * v /\ ht = 100 * t - y
                                 /\ hv <= 100 * v /\ o * h = ho
  <2>1. /\ h * t \in Nat /\ h * o \in Nat /\ h * v \in Nat /\ (100 - f) * t = 100 * t - t * f
        /\ h * v <= 100 * v /\ o * h = h * o
    BY <1>4, <1>25, SMT
  <2> QED
    BY <1>21, <1>25, <2>1
<1>27. 2 * ht <= 2 * ho + hv /\ 2 * ho <= 2 * ht + h + hv
  <2>1. \A i, l \in Int : i <= l => h * i <= h * l
    BY SMT
  <2>2. 2 * o <= 2 * t + 1 + v
    BY <1>4, <1>20, SMT
  <2>3. h * (2 * t) <= h * (2 * o + v) /\ h * (2 * o) <= h * (2 * t + 1 + v)
    <3>1. 2 * t \in Int /\ 2 * o + v \in Int /\ 2 * o \in Int /\ 2 * t + 1 + v \in Int
      BY SMT
    <3> QED
      BY <1>20, <2>1, <2>2, <3>1
  <2>4. h * (2 * t) = 2 * (h * t) /\ h * (2 * o + v) = 2 * (h * o) + h * v
        /\ h * (2 * o) = 2 * (h * o) /\ h * (2 * t + 1 + v) = 2 * (h * t) + h + h * v
    BY SMT
  <2> QED
    BY <1>26, <2>3, <2>4
<1>28. 100 * (t - q) = ht + r
  BY <1>22, <1>26, SMT
<1>29. 100 * (t - q) < ho + 100 * v
  BY <1>4, <1>22, <1>26, <1>27, <1>28, SMT
<1>30. 100 * (t - q) > ho - 100 * v
  BY <1>4, <1>25, <1>26, <1>27, <1>28, SMT
<1>31. n * WeiPerSat * (100 - FeePercentage) = ho
  BY <1>4, <1>19, <1>25, <1>26
<1> QED
  BY <1>4, <1>23, <1>24, <1>29, <1>30, <1>31

(***************************************************************************)
(* What the types leave: bounds, numbers of records and deposits, amounts. *)
(***************************************************************************)
Counted ==
  /\ bookErrors \in 0 .. MaxBookErrors
  /\ Len(deposits) <= MaxDeposits
  /\ \A g \in BookLookers : look[g].id \in {0} \union DOMAIN requests
  /\ \A d \in DOMAIN deposits : deposits[d].by \in {0} \union DOMAIN requests
  /\ worker.deposit \in {0} \union DOMAIN deposits
  /\ {worker.amount, worker.value} \subseteq Nat

(* Failing commands are counted up to their bound.                         *)
LEMMA BookErrorsBounded ==
  ASSUME bookErrors \in 0 .. MaxBookErrors, [Next]_vars
  PROVE  bookErrors' \in 0 .. MaxBookErrors
<1>1. MaxBookErrors \in Nat
  BY AddressBookAssumption
<1>2. bookErrors < MaxBookErrors => bookErrors + 1 \in 0 .. MaxBookErrors
  BY <1>1, SMT
<1>3. ASSUME HandlerStep PROVE bookErrors' \in 0 .. MaxBookErrors
  BY <1>2, <1>3 DEF HandlerStep, Submit, Unsupported, GetNewAddress, Store, StoreFails
<1>4. ASSUME LookupStep PROVE bookErrors' \in 0 .. MaxBookErrors
  BY <1>2, <1>4 DEF LookupStep, GetLower, GetMixed, GetFails
<1>5. ASSUME ~ HandlerStep, ~ LookupStep PROVE bookErrors' = bookErrors
  BY <1>5 DEF Next, WorkerStep, vars, bookVars, BookKept, Send, EvmScan, BglScan,
     BglScanned, Take, Unroutable, Compute, Forward, ForwardFails, GiveBack,
     GiveBackFails, Pay
<1> QED
  BY <1>3, <1>4, <1>5

LEMMA RequestsStay ==
  ASSUME RoutingInv, [Next]_vars
  PROVE  DOMAIN requests \subseteq DOMAIN requests'
<1>1. ASSUME HandlerStep PROVE DOMAIN requests \subseteq DOMAIN requests'
  BY <1>1, Parts, HandlersKeepBook DEF RoutesTypeOK, RequestsGrow
<1>2. ASSUME ~ HandlerStep PROVE requests' = requests
  BY <1>2 DEF Next, LookupStep, GetLower, GetMixed, GetFails,
     WorkerStep, vars, bookVars, BookKept, Send, EvmScan, BglScan,
     BglScanned, Take, Unroutable, Compute, Forward, ForwardFails, GiveBack,
     GiveBackFails, Pay
<1> QED
  BY <1>1, <1>2

(* What a lookup has found is a request.                                   *)
LEMMA IdsAreRequests ==
  ASSUME RoutingInv, [Next]_vars, NEW g \in BookLookers,
         look[g].id \in {0} \union DOMAIN requests
  PROVE  look'[g].id \in {0} \union DOMAIN requests
<1>1. look \in [BookLookers -> Lookups]
  BY Parts DEF RoutesTypeOK
<1>2. ASSUME NEW h \in BookLookers, GetLower(h) \/ GetMixed(h) \/ GetFails(h)
      PROVE  look'[g].id \in {0} \union DOMAIN requests
  <2>1. PICK r : r = look[h]
    OBVIOUS
  <2>2. r \in Lookups
    BY <1>1, <2>1
  <2>3. \A k \in DOMAIN book : book[k] \in DOMAIN requests
    BY Parts, KeysAreNat DEF RoutesTypeOK, BookInv
  <2>4. \E s \in Lookups :
          /\ look' = [look EXCEPT ![h] = s]
          /\ s.id \in {r.id, 0} \union DOMAIN requests
    <3>0. "done" \in {"idle", "lower", "mixed", "done", "error"}
          /\ "mixed" \in {"idle", "lower", "mixed", "done", "error"}
          /\ "error" \in {"idle", "lower", "mixed", "done", "error"} /\ 0 \in Nat
      OBVIOUS
    <3>1. ASSUME NEW pc \in {"idle", "lower", "mixed", "done", "error"}, NEW i \in Nat
          PROVE  \E s \in Lookups : s = [r EXCEPT !.pc = pc, !.id = i] /\ s.id = i
      <4>1. PICK s : s = [r EXCEPT !.pc = pc, !.id = i]
        OBVIOUS
      <4>2. s \in Lookups
        BY <2>2, <4>1, Zenon DEF Lookups
      <4>3. s.id = i
        BY <2>2, <4>1, Zenon DEF Lookups
      <4> QED
        BY <4>1, <4>2, <4>3
    <3>2. ASSUME NEW pc \in {"idle", "lower", "mixed", "done", "error"}
          PROVE  \E s \in Lookups : s = [r EXCEPT !.pc = pc] /\ s.id = r.id
      <4>1. PICK s : s = [r EXCEPT !.pc = pc]
        OBVIOUS
      <4>2. s \in Lookups
        BY <2>2, <4>1, Zenon DEF Lookups
      <4>3. s.id = r.id
        BY <2>2, <4>1, Zenon DEF Lookups
      <4> QED
        BY <4>1, <4>2, <4>3
    <3>3. \A k \in DOMAIN book : book[k] \in Nat
      BY Parts, KeysAreNat DEF RoutesTypeOK, BookInv
    <3>4. CASE GetFails(h)
      <4>1. PICK s \in Lookups : s = [r EXCEPT !.pc = "error"] /\ s.id = r.id
        BY <3>0, <3>2
      <4> QED
        BY <2>1, <3>4, <4>1, Zenon DEF GetFails
    <3>5. CASE GetMixed(h)
      <4>1. PICK i : i = IF MixedKey(r.key) \in DOMAIN book THEN book[MixedKey(r.key)] ELSE 0
        OBVIOUS
      <4>2. i \in Nat /\ i \in {0} \union DOMAIN requests
        BY <2>3, <3>3, <4>1
      <4>3. PICK s \in Lookups : s = [r EXCEPT !.pc = "done", !.id = i] /\ s.id = i
        BY <3>0, <3>1, <4>2
      <4>4. look' = [look EXCEPT ![h] = s]
        BY <2>1, <3>5, <4>1, <4>3, Zenon DEF GetMixed
      <4> QED
        BY <4>2, <4>3, <4>4
    <3>6. CASE GetLower(h) /\ r.key \in DOMAIN book
      <4>1. PICK i : i = book[r.key]
        OBVIOUS
      <4>2. i \in Nat /\ i \in DOMAIN requests
        BY <2>3, <3>3, <3>6, <4>1
      <4>3. PICK s \in Lookups : s = [r EXCEPT !.pc = "done", !.id = i] /\ s.id = i
        BY <3>0, <3>1, <4>2
      <4>4. look' = [look EXCEPT ![h] = s]
        BY <2>1, <3>6, <4>1, <4>3, Zenon DEF GetLower
      <4> QED
        BY <4>2, <4>3, <4>4
    <3>7. CASE GetLower(h) /\ r.key \notin DOMAIN book
      <4>1. PICK s \in Lookups : s = [r EXCEPT !.pc = "mixed"] /\ s.id = r.id
        BY <3>0, <3>2
      <4> QED
        BY <2>1, <3>7, <4>1, Zenon DEF GetLower
    <3> QED
      BY <1>2, <3>4, <3>5, <3>6, <3>7
  <2> QED
    BY <1>1, <2>1, <2>4
<1>3. ASSUME NEW h \in BookLookers, NEW k, LookUp(h, k) \/ Finish(h)
      PROVE  look'[g].id \in {0} \union DOMAIN requests
  <2>1. PICK s : s = [pc |-> "lower", key |-> k, id |-> 0]
    OBVIOUS
  <2>2. look' = [look EXCEPT ![h] = s] \/ look' = [look EXCEPT ![h] = NotLooking]
    BY <1>3, <2>1, Zenon DEF LookUp, Finish
  <2>3. s.id = 0 /\ NotLooking.id = 0
    BY <2>1 DEF NotLooking
  <2> QED
    BY <1>1, <2>2, <2>3
<1>4. CASE HandlerStep
  <2>1. look' = look
    BY <1>4, Parts, HandlersKeepBook DEF RoutesTypeOK
  <2> QED
    BY <2>1
<1>5. CASE LookupStep
  BY <1>2, <1>5 DEF LookupStep
<1>6. CASE ~ HandlerStep /\ ~ LookupStep
  <2>1. \/ look' = look
        \/ \E h \in BookLookers : \E k : LookUp(h, k) \/ Finish(h)
    BY <1>6 DEF Next, WorkerStep, vars, bookVars, Send, EvmScan, BglScan,
       BglScanned, Take, Unroutable, Compute, Forward, ForwardFails, GiveBack,
       GiveBackFails, Pay, BookLookers
  <2> QED
    BY <1>3, <2>1
<1> QED
  BY <1>4, <1>5, <1>6

(* A step that sends nothing changes one deposit, and by only to what the  *)
(* worker has found.                                                       *)
LEMMA DepositChanges ==
  ASSUME RoutingInv, [Next]_vars, ~ Send
  PROVE  \/ deposits' = deposits
         \/ \E d \in DOMAIN deposits : \E r :
              /\ deposits' = [deposits EXCEPT ![d] = r]
              /\ r.by \in {deposits[d].by, look["sending worker"].id}
              /\ deposits[d].status = "pending" => worker.deposit = d /\ worker' = Idle
<1>1. \A d \in DOMAIN deposits : deposits[d] \in Deposits
  BY Parts, DepositFields DEF RoutesTypeOK
<1>2. worker.pc # "idle" => worker.deposit \in DOMAIN deposits
  BY Parts DEF WorkerHasDeposit
<1> DEFINE Changed(d) ==
      \E r : /\ deposits' = [deposits EXCEPT ![d] = r]
             /\ r.by \in {deposits[d].by, look["sending worker"].id}
<1>3. ASSUME NEW d \in DOMAIN deposits, NEW s, Update(d, s) PROVE Changed(d)
  <2>1. PICK r : r = [deposits[d] EXCEPT !.status = s]
    OBVIOUS
  <2>2. r.by = deposits[d].by
    BY <1>1, <2>1, SMT DEF Deposits
  <2>3. deposits' = [deposits EXCEPT ![d] = r]
    BY <1>3, <2>1, Zenon DEF Update
  <2> QED
    BY <2>2, <2>3
<1>4. ASSUME NEW d \in DOMAIN deposits, NEW c,
             deposits' = [deposits EXCEPT ![d].status = "pending", ![d].destChain = c]
      PROVE  Changed(d)
  <2>1. PICK r : r = [deposits[d] EXCEPT !.status = "pending", !.destChain = c]
    OBVIOUS
  <2>2. r.by = deposits[d].by
    BY <1>1, <2>1, Zenon DEF Deposits
  <2>3. deposits' = [deposits EXCEPT ![d] = r]
    BY <1>4, <2>1, Zenon
  <2> QED
    BY <2>2, <2>3
<1>5. ASSUME NEW d \in DOMAIN deposits, d = worker.deposit,
             NEW s, NEW address, NEW chain, Pay(s, address, chain)
      PROVE  Changed(d)
  <2>0. PICK i : i = look["sending worker"].id
    OBVIOUS
  <2>1. PICK r : r = [deposits[d] EXCEPT !.status = s, !.by = i,
                                         !.to = address, !.toChain = chain]
    OBVIOUS
  <2>2. r.by = i
    BY <1>1, <2>1, Zenon DEF Deposits
  <2>3. deposits' = [deposits EXCEPT ![d] = r]
    BY <1>5, <2>0, <2>1, Zenon DEF Pay
  <2> QED
    BY <2>0, <2>2, <2>3
<1>6. ASSUME NEW d \in DOMAIN deposits, EvmScan(d) \/ BglScan(d) \/ BglScanned(d)
      PROVE  Changed(d) /\ deposits[d].status # "pending"
  <2>1. CASE EvmScan(d) \/ BglScan(d)
    BY <1>3, <2>1 DEF EvmScan, BglScan
  <2>2. CASE BglScanned(d)
    BY <1>3, <1>4, <2>2 DEF BglScanned
  <2> QED
    BY <1>6, <2>1, <2>2
<1>7. ASSUME NEW d, d = worker.deposit,
             Unroutable \/ Forward \/ GiveBack \/ GiveBackFails
      PROVE  d \in DOMAIN deposits /\ Changed(d) /\ worker' = Idle
  <2>1. d \in DOMAIN deposits
    BY <1>2, <1>7 DEF Unroutable, Forward, GiveBack, GiveBackFails
  <2>2. CASE Unroutable \/ GiveBackFails
    BY <1>3, <1>7, <2>1, <2>2 DEF Unroutable, GiveBackFails
  <2>3. CASE Forward \/ GiveBack
    <3>1. PICK s, address, chain : Pay(s, address, chain)
      BY <2>3, Zenon DEF Forward, GiveBack
    <3>2. worker' = Idle
      BY <3>1 DEF Pay
    <3> HIDE DEF Changed
    <3>3. Changed(d)
      BY <1>5, <1>7, <2>1, <3>1
    <3> QED
      BY <2>1, <3>2, <3>3
  <2> QED
    BY <1>7, <2>2, <2>3
<1>8. CASE \E d \in DOMAIN deposits : EvmScan(d) \/ BglScan(d) \/ BglScanned(d)
  BY <1>6, <1>8
<1>9. CASE Unroutable \/ Forward \/ GiveBack \/ GiveBackFails
  BY <1>7, <1>9
<1>10. CASE deposits' = deposits
  BY <1>10
<1>11. \/ \E d \in DOMAIN deposits : EvmScan(d) \/ BglScan(d) \/ BglScanned(d)
       \/ Unroutable \/ Forward \/ GiveBack \/ GiveBackFails
       \/ deposits' = deposits
  BY DEF Next, WorkerStep, vars, Take, Compute, ForwardFails
<1> QED
  BY <1>8, <1>9, <1>10, <1>11

(* Deposits are not lost, their number is bounded, and what has paid one   *)
(* is a request.                                                           *)
LEMMA DepositsCounted ==
  ASSUME RoutingInv, RoutingInv', Counted, [Next]_vars
  PROVE  /\ DOMAIN deposits \subseteq DOMAIN deposits' /\ Len(deposits') <= MaxDeposits
         /\ \A d \in DOMAIN deposits' : deposits'[d].by \in {0} \union DOMAIN requests'
<1>1. /\ DOMAIN deposits = 1 .. Len(deposits) /\ Len(deposits) \in Nat
      /\ DOMAIN deposits' = 1 .. Len(deposits') /\ Len(deposits') \in Nat
  <2>1. deposits \in Seq(Deposits) /\ (deposits \in Seq(Deposits))'
    BY DEF RoutingInv, RoutesTypeOK
  <2>2. \A s : (\E T : s \in Seq(T)) => DOMAIN s = 1 .. Len(s) /\ Len(s) \in Nat
    BY LenProperties
  <2> QED
    BY <2>1, <2>2
<1>2. DOMAIN requests \subseteq DOMAIN requests'
  BY RequestsStay
<1>3. MaxDeposits \in Nat
  BY RoutingAssumption
<1>4. CASE Send
  <2>1. PICK r \in Deposits : deposits' = Append(deposits, r) /\ r.by = 0
    BY <1>4, SentDeposit
  <2>2. /\ DOMAIN deposits \subseteq DOMAIN deposits'
        /\ \A e \in DOMAIN deposits : deposits'[e] = deposits[e]
        /\ \A e \in DOMAIN deposits' : e \in DOMAIN deposits \/ deposits'[e] = r
    BY <2>1, Parts, AppendedFacts
  <2>3. Len(deposits') = Len(deposits) + 1 /\ Len(deposits) < MaxDeposits
    BY <1>4, <2>1, Parts, AppendProperties DEF Send, RoutesTypeOK
  <2>4. Len(deposits') <= MaxDeposits
    BY <1>1, <1>3, <2>3, SMT
  <2> QED
    BY <1>2, <2>1, <2>2, <2>4 DEF Counted
<1>5. CASE ~ Send
  <2>1. DOMAIN deposits' = DOMAIN deposits
    BY <1>5, DepositChanges
  <2>2. Len(deposits') = Len(deposits)
    <3>1. \A m, n \in Nat : (\A i \in 1 .. m : i \in 1 .. n) => m <= n
      BY SMT
    <3>2. PICK m, n \in Nat : m = Len(deposits) /\ n = Len(deposits')
      BY <1>1
    <3>3. m <= n /\ n <= m
      BY <1>1, <2>1, <3>1, <3>2
    <3> QED
      BY <3>2, <3>3, SMT
  <2>3. \A d \in DOMAIN deposits :
          deposits'[d].by \in {deposits[d].by, look["sending worker"].id}
    BY <1>5, DepositChanges
  <2> QED
    BY <1>2, <2>1, <2>2, <2>3 DEF Counted, BookLookers
<1> QED
  BY <1>4, <1>5

(* NetOfFee, of one deposit.                                               *)
NetOf(kind, amount, value) ==
  \/ /\ kind = "bgl"
     /\ LET net == amount * WeiPerSat * (100 - FeePercentage)
        IN  value * 100 < net + 100 * WeiPerSat /\ value * 100 > net - 100 * WeiPerSat
  \/ /\ kind = "wbgl"
     /\ LET net == (amount \div WeiPerSat) * (100 - FeePercentage)
        IN  value * 100 < net + 100 /\ value >= net \div 100 - 1

(* What the worker computes is the deposit less the fee.                   *)
LEMMA BglIsNet ==
  ASSUME NEW sat \in DepositSats
  PROVE  /\ sat \in Nat /\ WBGLAmount(sat) \in Nat
         /\ NetOf("bgl", sat, WBGLAmount(sat))
<1>1. sat \in Nat /\ 4 * (sat + 2) <= Pow2[Bits]
  BY RoutingAssumption
<1>2. PICK v : v = WBGLAmount(sat)
  OBVIOUS
<1>3. PICK net : net = sat * WeiPerSat * (100 - FeePercentage)
  OBVIOUS
<1>4. v \in Nat /\ 100 * v < net + 100 * WeiPerSat /\ 100 * v > net - 100 * WeiPerSat
  BY <1>1, <1>2, <1>3, WBGLAmountIs
<1>5. v * 100 = 100 * v
  BY <1>4, SMT
<1> QED
  BY <1>1, <1>2, <1>3, <1>4, <1>5 DEF NetOf

LEMMA WbglIsNet ==
  ASSUME NEW sat \in DepositSats, NEW rest \in {0, WeiPerSat - 1},
         NEW wei, wei = sat * WeiPerSat + rest
  PROVE  /\ wei \in Nat /\ BGLAmount(wei) \in Nat
         /\ NetOf("wbgl", wei, BGLAmount(wei))
<1>1. sat \in Nat /\ 4 * (sat + 2) <= Pow2[Bits]
  BY RoutingAssumption
<1>2. PICK w \in Nat : w = WeiPerSat /\ w >= 2
  BY UnitSizes
<1>3. PICK p \in Nat : p = sat * w
  BY <1>1, <1>2, SMT
<1>4. rest \in Nat /\ rest < w /\ wei = p + rest /\ wei \in Nat
  BY <1>2, <1>3, SMT
<1>5. wei \div WeiPerSat = sat
  <2>1. PICK q, r \in Nat : q = wei \div w /\ wei = q * w + r /\ r < w
    <3>1. w \in Nat \ {0} /\ wei \in Nat
      BY <1>2, <1>4, SMT
    <3>2. PICK q, r : q = wei \div w /\ r = wei % w
      OBVIOUS
    <3>3. q \in Nat /\ r \in Nat /\ wei = q * w + r /\ r < w
      BY <3>1, <3>2, DivMod
    <3> QED
      BY <3>2, <3>3
  <2>2. (q - sat) * w = rest - r
    <3>1. (q - sat) * w = q * w - sat * w
      BY <1>1, <1>2, <2>1, SMT
    <3>2. PICK y \in Int : y = q * w
      BY <1>2, <2>1, SMT
    <3> QED
      BY <1>3, <1>4, <2>1, <3>1, <3>2, SMT
  <2>3. \A i \in Int : i >= 1 => i * w >= w
    BY <1>2, SMT
  <2>4. \A i \in Int : i <= -1 => i * w <= -w
    BY <1>2, SMT
  <2>5. PICK i \in Int : i = q - sat
    BY <1>1, <2>1, SMT
  <2>6. PICK z \in Int : z = i * w /\ z < w /\ z > -w
    BY <1>2, <1>4, <2>1, <2>2, <2>5, SMT
  <2>7. ~ (i >= 1) /\ ~ (i <= -1)
    BY <1>2, <2>3, <2>4, <2>6, SMT
  <2> QED
    BY <1>1, <1>2, <2>1, <2>5, <2>7, SMT
<1>6. PICK f, c \in Nat : f = FeePercentage /\ c = 100 - f
  BY UnitSizes, SMT
<1>7. PICK v : v = BGLAmount(wei)
  OBVIOUS
<1>8. PICK net \in Nat : net = sat * c
  BY <1>1, <1>6, SMT
<1>9. v \in Nat /\ 100 * v < net + 100 /\ 100 * v > net - 200
  BY <1>1, <1>4, <1>5, <1>6, <1>7, <1>8, BGLAmountIs
<1>10. v * 100 < net + 100 /\ v >= net \div 100 - 1
  BY <1>8, <1>9, SMT
<1> QED
  BY <1>4, <1>5, <1>6, <1>7, <1>8, <1>9, <1>10 DEF NetOf

(* The worker's locals, and what it is about to pay.                       *)
LEMMA WorkerCounted ==
  ASSUME RoutingInv, RoutingInv', Counted, NetOfFee, [Next]_vars
  PROVE  /\ worker'.deposit \in {0} \union DOMAIN deposits'
         /\ {worker'.amount, worker'.value} \subseteq Nat
         /\ NetOfFee'
<1>1. worker = [pc |-> worker.pc, deposit |-> worker.deposit,
                amount |-> worker.amount, value |-> worker.value]
  BY Parts DEF RoutesTypeOK
<1>2. DOMAIN deposits \subseteq DOMAIN deposits'
  BY DepositsCounted
<1>3. CASE worker' = Idle
  <2>1. worker'.deposit = 0 /\ worker'.amount = 0 /\ worker'.value = 0 /\ worker'.pc = "idle"
    BY <1>3 DEF Idle
  <2> QED
    BY <2>1 DEF NetOfFee
<1>4. CASE \E d \in DOMAIN deposits : Take(d)
  <2>1. PICK d \in DOMAIN deposits : worker' = [Idle EXCEPT !.pc = "address", !.deposit = d]
    BY <1>4 DEF Take
  <2>2. worker'.deposit = d /\ worker'.amount = 0 /\ worker'.value = 0 /\ worker'.pc = "address"
    BY <2>1 DEF Idle
  <2> QED
    BY <1>2, <2>2 DEF NetOfFee
<1>5. CASE ForwardFails
  <2>1. worker' = [worker EXCEPT !.pc = "return", !.amount = 0, !.value = 0]
    BY <1>5 DEF ForwardFails
  <2>2. /\ worker'.deposit = worker.deposit /\ worker'.amount = 0 /\ worker'.value = 0
        /\ worker'.pc = "return"
    BY <1>1, <2>1, Zenon
  <2> QED
    BY <1>2, <2>2 DEF NetOfFee, Counted
<1>6. CASE Compute
  <2>1. PICK k, a, v :
          /\ k = deposits[worker.deposit].kind
          /\ worker' = [worker EXCEPT !.pc = "forward", !.amount = a, !.value = v]
          /\ a \in Nat /\ v \in Nat /\ NetOf(k, a, v)
    <3>1. CASE \E sat \in DepositSats :
                 /\ deposits[worker.deposit].kind = "bgl"
                 /\ worker' = [worker EXCEPT !.pc = "forward", !.amount = sat,
                                             !.value = WBGLAmount(sat)]
      BY <3>1, BglIsNet
    <3>2. CASE \E sat \in DepositSats, rest \in {0, WeiPerSat - 1} :
                 /\ deposits[worker.deposit].kind = "wbgl"
                 /\ worker' = [worker EXCEPT !.pc = "forward",
                                             !.amount = sat * WeiPerSat + rest,
                                             !.value = BGLAmount(sat * WeiPerSat + rest)]
      <4>1. PICK sat \in DepositSats, rest \in {0, WeiPerSat - 1} :
                 /\ deposits[worker.deposit].kind = "wbgl"
                 /\ worker' = [worker EXCEPT !.pc = "forward",
                                             !.amount = sat * WeiPerSat + rest,
                                             !.value = BGLAmount(sat * WeiPerSat + rest)]
        BY <3>2
      <4>2. PICK wei : wei = sat * WeiPerSat + rest
        OBVIOUS
      <4>3. wei \in Nat /\ BGLAmount(wei) \in Nat /\ NetOf("wbgl", wei, BGLAmount(wei))
        BY <4>2, WbglIsNet
      <4> QED
        BY <4>1, <4>2, <4>3
    <3> QED
      BY <1>6, <3>1, <3>2, Zenon DEF Compute
  <2>2. /\ worker'.deposit = worker.deposit /\ worker'.amount = a /\ worker'.value = v
        /\ worker'.pc = "forward"
    BY <1>1, <2>1, Zenon
  <2>3. deposits' = deposits
    BY <1>6 DEF Compute
  <2>4. NetOfFee'
    <3>1. deposits'[worker'.deposit].kind = k
      BY <2>1, <2>2, <2>3
    <3> QED
      BY <2>1, <2>2, <3>1, Zenon DEF NetOfFee, NetOf
  <2> QED
    BY <1>2, <2>1, <2>2, <2>4 DEF Counted
<1>7. CASE worker' = worker /\ worker' # Idle
  <2>1. NetOfFee'
    <3>1. CASE worker.pc # "forward"
      BY <1>7, <3>1 DEF NetOfFee
    <3>2. CASE worker.pc = "forward"
      <4>1. PICK d : d = worker.deposit
        OBVIOUS
      <4>2. d \in DOMAIN deposits /\ deposits[d].status = "pending"
        BY <3>2, <4>1, Working
      <4>3. deposits'[d] = deposits[d]
        <5>1. CASE Send
          <6>1. PICK r \in Deposits : deposits' = Append(deposits, r)
            BY <5>1, SentDeposit
          <6> QED
            BY <4>2, <6>1, Parts, AppendedFacts
        <5>2. CASE ~ Send
          BY <1>7, <4>1, <4>2, <5>2, DepositChanges
        <5> QED
          BY <5>1, <5>2
      <4> QED
        BY <1>7, <4>1, <4>3 DEF NetOfFee
    <3> QED
      BY <3>1, <3>2
  <2> QED
    BY <1>2, <1>7, <2>1 DEF Counted
<1>8. \/ worker' = worker \/ worker' = Idle
      \/ \E d \in DOMAIN deposits : Take(d)
      \/ ForwardFails \/ Compute
  BY DEF Next, WorkerStep, vars, Send, EvmScan, BglScan, BglScanned, Unroutable,
     Forward, GiveBack, GiveBackFails, Pay
<1> QED
  BY <1>3, <1>4, <1>5, <1>6, <1>7, <1>8

LEMMA CountedStep ==
  RoutingInv /\ RoutingInv' /\ Counted /\ NetOfFee /\ [Next]_vars => Counted' /\ NetOfFee'
<1> SUFFICES ASSUME RoutingInv, RoutingInv', Counted, NetOfFee, [Next]_vars
             PROVE  Counted' /\ NetOfFee'
  OBVIOUS
<1>1. bookErrors' \in 0 .. MaxBookErrors
  BY BookErrorsBounded DEF Counted
<1>2. ASSUME NEW g \in BookLookers PROVE look'[g].id \in {0} \union DOMAIN requests'
  BY IdsAreRequests, RequestsStay DEF Counted
<1>3. /\ Len(deposits') <= MaxDeposits
      /\ \A d \in DOMAIN deposits' : deposits'[d].by \in {0} \union DOMAIN requests'
  BY DepositsCounted
<1> QED
  BY <1>1, <1>2, <1>3, WorkerCounted DEF Counted

LEMMA CountedInitially == Init => Counted /\ NetOfFee
<1> SUFFICES ASSUME Init PROVE Counted /\ NetOfFee
  OBVIOUS
<1>1. PICK old \in SUBSET Wallets : BookInit(old)
  BY DEF Init
<1>2. worker.pc = "idle" /\ worker.deposit = 0 /\ worker.amount = 0 /\ worker.value = 0
  BY DEF Init, Idle
<1>3. deposits = <<>> /\ DOMAIN deposits = {} /\ Len(deposits) = 0
  BY DEF Init
<1>4. 0 \in 0 .. MaxBookErrors /\ 0 <= MaxDeposits
  BY AddressBookAssumption, RoutingAssumption, SMT
<1>5. bookErrors = 0 /\ \A g \in BookLookers : look[g].id = 0
  BY <1>1 DEF BookInit, NotLooking
<1> QED
  BY <1>2, <1>3, <1>4, <1>5 DEF Counted, NetOfFee

(* With what RoutingInv says of the types, that is TypeOK.                 *)
LEMMA TypesAreOK == RoutingInv /\ Counted => TypeOK
<1> SUFFICES ASSUME RoutingInv, Counted PROVE TypeOK
  OBVIOUS
<1>1. stored \in Seq(DOMAIN requests)
  <2>1. stored \in Seq(Nat) /\ \A n \in DOMAIN stored : stored[n] \in DOMAIN requests
    BY Parts DEF RoutesTypeOK, BookInv, StoredAreRequests
  <2> QED
    BY <2>1, SMT
<1>2. \A k \in DOMAIN book : book[k] \in DOMAIN requests
  BY Parts, KeysAreNat DEF RoutesTypeOK, BookInv
<1>3. \A g \in BookLookers : look[g].pc \in {"idle", "lower", "mixed", "done", "error"}
  <2>1. \A r \in Lookups : r.pc \in {"idle", "lower", "mixed", "done", "error"}
    BY Zenon DEF Lookups
  <2> QED
    BY <2>1, Parts DEF RoutesTypeOK
<1>4. BookTypeOK
  BY <1>1, <1>2, <1>3, Parts DEF BookTypeOK, RoutesTypeOK, Counted
<1>5. ASSUME NEW d \in DOMAIN deposits
      PROVE  /\ deposits[d].status \in Statuses
             /\ deposits[d].destChain \in Chains /\ deposits[d].toChain \in Chains
  <2>1. deposits[d] \in Deposits
    BY Parts, DepositFields DEF RoutesTypeOK
  <2> QED
    BY <2>1, Zenon DEF Deposits
<1> QED
  BY <1>4, <1>5, Parts DEF TypeOK, RoutesTypeOK, Counted, Statuses, Chains

(***************************************************************************)
(* The theorems.                                                           *)
(***************************************************************************)

(* The address book leads to the latest record of a source, and an answer  *)
(* of it stays right while it is used, in every reachable state.           *)
THEOREM RoutingHolds == Spec => []RoutingInv
BY Initially, EveryStep, PTL DEF Spec

(* SubmitBGL.go:95, redis.go:315: a deposit never ends as one of an        *)
(* unknown source when its source was bound before it was sent.            *)
THEOREM SourcesAreFound == Spec => []KnownSourceIsFound
<1>1. RoutingInv => KnownSourceIsFound
  BY DEF RoutingInv
<1> QED
  BY <1>1, RoutingHolds, PTL

(* redis.go:291,315: a WBGL deposit is paid by no record that was          *)
(* superseded when it was sent, in whichever case its keys are.            *)
THEOREM NoSupersededRecordPays == Spec => []NotBySupersededRecord
<1>1. RoutingInv => NotBySupersededRecord
  BY DEF RoutingInv
<1> QED
  BY <1>1, RoutingHolds, PTL

(* processExecution.go:40,187: what is paid out goes to the address and,   *)
(* for BGL deposits, the chain that a request for this source has named.   *)
THEOREM PaymentsGoWhereAsked == Spec => []PaidWhereAsked
<1>1. RoutingInv => PaidWhereAsked
  BY DEF RoutingInv
<1> QED
  BY <1>1, RoutingHolds, PTL

(* processExecution.go:106: WBGL is returned to the wallet it came from,   *)
(* on the chain it came from.                                              *)
THEOREM ReturnsGoToSender == Spec => []ReturnedToSender
<1>1. RoutingInv => ReturnedToSender
  BY DEF RoutingInv
<1> QED
  BY <1>1, RoutingHolds, PTL

(* processExecution.go:63-74,158-169: whatever the floating-point numbers  *)
(* on the way are rounded to, what is paid is the deposit less the fee to  *)
(* one unit of 10^-8 BGL, for every amount that leaves two bits to spare   *)
(* and every fee below 100 per cent.                                       *)
THEOREM PaymentsAreNetOfFee == Spec => []NetOfFee
<1>1. Init => RoutingInv /\ Counted /\ NetOfFee
  BY Initially, CountedInitially
<1>2. (RoutingInv /\ Counted /\ NetOfFee) /\ [Next]_vars
        => (RoutingInv /\ Counted /\ NetOfFee)'
  BY EveryStep, CountedStep
<1> QED
  BY <1>1, <1>2, PTL DEF Spec

(* The requests, the address book, the lookups, the deposits and the       *)
(* worker's locals keep their types: what is found or has paid is a        *)
(* request, and no amount is negative.                                     *)
THEOREM RoutingTyped == Spec => []TypeOK
<1>1. Init => RoutingInv /\ Counted /\ NetOfFee
  BY Initially, CountedInitially
<1>2. (RoutingInv /\ Counted /\ NetOfFee) /\ [Next]_vars
        => (RoutingInv /\ Counted /\ NetOfFee)'
  BY EveryStep, CountedStep
<1>3. RoutingInv /\ Counted => TypeOK
  BY TypesAreOK
<1> QED
  BY <1>1, <1>2, <1>3, PTL DEF Spec

=============================================================================
