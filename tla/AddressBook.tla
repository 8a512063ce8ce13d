----------------------------- MODULE AddressBook ----------------------------
(***************************************************************************)
(* The address book: what /submit/bgl and /submit/wbgl store in it         *)
(* (workers/handlers/SubmitBGL.go, SubmitWBGL.go, UpsertAddressBookRecord  *)
(* of redis/redis.go) and how the workers look a source address up         *)
(* (GetAddressBookBySourceAddress).  Every request runs in a goroutine of  *)
(* its own; a lookup is up to two Redis commands.                          *)
(*                                                                         *)
(* The record of a request has the number of the request as its ID, and    *)
(* so has the BGL address that GetNewAddress makes for it.  What is        *)
(* checked before anything is stored and changes nothing, JSON, address    *)
(* and signature, is left out: a request here has passed it.               *)
(***************************************************************************)
EXTENDS Naturals, Sequences, FiniteSets

CONSTANTS
  Wallets,         \* EVM addresses of users
  ChainNames,      \* what a request may name as its chain
  MaxRequests,     \* bound: requests made
  MaxBookErrors    \* bound: failing Redis commands on the address book

ASSUME AddressBookAssumption ==
  MaxRequests \in Nat /\ MaxBookErrors \in Nat /\ IsFiniteSet(Wallets)

VARIABLES
  requests,    \* the requests so far and where their handlers are
  book,        \* the addrbook:* keys of Redis that hold a record: key to ID
  stored,      \* IDs in the order in which Redis took them
  look,        \* lookup of each worker: pc, key, id
  bookErrors   \* failing commands so far

bookVars == <<requests, book, stored, look, bookErrors>>

Request ==
  [kind : {"bgl", "wbgl"}, wallet : Wallets, chain : ChainNames,
   pc : {"asked", "address", "told", "error"}]

(* The chain a request names: 1 unless it is one of the other three. *)
Supported == {"eth", "bnb", "arb", "op"}

(* Mutant: the chain named by the request is overlooked. *)
EthereumId(name) == 1

ChainId(name) ==
  CASE name = "arb" -> 42161
    [] name = "bnb" -> 56
    [] name = "op"  -> 10
    [] OTHER        -> 1

(* Keys: addrbook:0:<BGL address>, and addrbook:1:<EVM address>, which an  *)
(* earlier version wrote in mixed case (redis.go:313).                     *)
BGLKey(i)   == <<0, i, "lower">>
EVMKey(w)   == <<1, w, "lower">>
MixedKey(k) == <<k[1], k[2], "mixed">>

BookLookers == {"BGL scanner", "sending worker"}

NotLooking == [pc |-> "idle", key |-> <<>>, id |-> 0]

(* Wallets in old registered with the earlier version. *)
BookInit(old) ==
  /\ requests \in [1 .. Cardinality(old) ->
                     [kind : {"wbgl"}, wallet : old,
                      chain : ChainNames \intersect Supported, pc : {"told"}]]
  /\ \A i, j \in DOMAIN requests : requests[i].wallet = requests[j].wallet => i = j
  /\ book = [k \in {MixedKey(EVMKey(w)) : w \in old} |->
               CHOOSE i \in DOMAIN requests : requests[i].wallet = k[2]]
  /\ stored = [i \in DOMAIN requests |-> i]
  /\ look = [g \in BookLookers |-> NotLooking]
  /\ bookErrors = 0

(***************************************************************************)
(* The handlers.                                                           *)
(***************************************************************************)
Submit(kind, wallet, chain) ==
  /\ Len(requests) < MaxRequests
  /\ requests' = Append(requests, [kind |-> kind, wallet |-> wallet,
                                   chain |-> chain, pc |-> "asked"])
  /\ UNCHANGED <<book, stored, look, bookErrors>>

Becomes(i, pc) == requests' = [requests EXCEPT ![i].pc = pc]

Unsupported(i) ==
  /\ requests[i].pc = "asked"
  /\ requests[i].chain \notin Supported
  /\ Becomes(i, "error")
  /\ UNCHANGED <<book, stored, look, bookErrors>>

GetNewAddress(i) ==
  /\ requests[i].kind = "bgl" /\ requests[i].pc = "asked"
  /\ requests[i].chain \in Supported
  /\ \E pc \in {"address", "error"} : Becomes(i, pc)
  /\ UNCHANGED <<book, stored, look, bookErrors>>

ReadyToStore(i) ==
  \/ requests[i].kind = "bgl" /\ requests[i].pc = "address"
  \/ /\ requests[i].kind = "wbgl" /\ requests[i].pc = "asked"
     /\ requests[i].chain \in Supported

KeyOf(i) ==
  IF requests[i].kind = "bgl" THEN BGLKey(i) ELSE EVMKey(requests[i].wallet)

Set(i) ==
  /\ book' = [k \in DOMAIN book \union {KeyOf(i)} |->
                IF k = KeyOf(i) THEN i ELSE book[k]]
  /\ stored' = Append(stored, i)

(* The balance that is asked for next only decorates the answer. *)
Store(i) ==
  /\ ReadyToStore(i)
  /\ Set(i)
  /\ Becomes(i, "told")
  /\ UNCHANGED <<look, bookErrors>>

(* Mutant: the error of SET is not looked at. *)
StoreFailsUnseen(i) ==
  /\ ReadyToStore(i)
  /\ bookErrors < MaxBookErrors
  /\ bookErrors' = bookErrors + 1
  /\ Becomes(i, "told")
  /\ UNCHANGED <<book, stored, look>>

(* SET is answered with an error, whether Redis has done it or not. *)
StoreFails(i) ==
  /\ ReadyToStore(i)
  /\ bookErrors < MaxBookErrors
  /\ bookErrors' = bookErrors + 1
  /\ Set(i) \/ UNCHANGED <<book, stored>>
  /\ Becomes(i, "error")
  /\ UNCHANGED look

HandlerStep ==
  \/ \E kind \in {"bgl", "wbgl"}, w \in Wallets, c \in ChainNames : Submit(kind, w, c)
  \/ \E i \in DOMAIN requests :
       Unsupported(i) \/ GetNewAddress(i) \/ Store(i) \/ StoreFails(i)

(***************************************************************************)
(* GetAddressBookBySourceAddress of worker g: GET with the address in      *)
(* lower case, then "let's retry with mixed case".                         *)
(***************************************************************************)
LookUp(g, key) == look' = [look EXCEPT ![g] = [pc |-> "lower", key |-> key, id |-> 0]]

Found(g) == look[g].pc = "done" /\ look[g].id # 0
Absent(g) == look[g].pc = "done" /\ look[g].id = 0

(* Mutant: GET with mixed case comes first. *)
GetMixedFirst(g) ==
  /\ look[g].pc = "lower"
  /\ LET k == MixedKey(look[g].key)
     IN  \/ /\ k \in DOMAIN book
            /\ look' = [look EXCEPT ![g].pc = "done", ![g].id = book[k]]
         \/ /\ k \notin DOMAIN book /\ look[g].key \in DOMAIN book
            /\ look' = [look EXCEPT ![g].pc = "done", ![g].id = book[look[g].key]]
         \/ /\ {k, look[g].key} \intersect DOMAIN book = {}
            /\ look' = [look EXCEPT ![g].pc = "mixed"]
  /\ UNCHANGED <<requests, book, stored, bookErrors>>

GetLower(g) ==
  /\ look[g].pc = "lower"
  /\ \/ /\ look[g].key \in DOMAIN book
        /\ look' = [look EXCEPT ![g].pc = "done", ![g].id = book[look[g].key]]
     \/ /\ look[g].key \notin DOMAIN book
        /\ look' = [look EXCEPT ![g].pc = "mixed"]
  /\ UNCHANGED <<requests, book, stored, bookErrors>>

GetMixed(g) ==
  /\ look[g].pc = "mixed"
  /\ LET k == MixedKey(look[g].key)
     IN  look' = [look EXCEPT ![g].pc = "done",
                              ![g].id = IF k \in DOMAIN book THEN book[k] ELSE 0]
  /\ UNCHANGED <<requests, book, stored, bookErrors>>

GetFails(g) ==
  /\ look[g].pc \in {"lower", "mixed"}
  /\ bookErrors < MaxBookErrors
  /\ bookErrors' = bookErrors + 1
  /\ look' = [look EXCEPT ![g].pc = "error"]
  /\ UNCHANGED <<requests, book, stored>>

LookupStep == \E g \in BookLookers : GetLower(g) \/ GetMixed(g) \/ GetFails(g)

BookTypeOK ==
  /\ requests \in Seq(Request)
  /\ \A k \in DOMAIN book : book[k] \in DOMAIN requests
  /\ stored \in Seq(DOMAIN requests)
  /\ \A g \in BookLookers :
       /\ look[g].pc \in {"idle", "lower", "mixed", "done", "error"}
       /\ look[g].id \in {0} \union DOMAIN requests
  /\ bookErrors \in 0 .. MaxBookErrors

=============================================================================
