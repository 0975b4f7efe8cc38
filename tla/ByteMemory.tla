------------------------------ MODULE ByteMemory ------------------------------
(***************************************************************************)
(* What a memory port promises its processor: one request at a time, a     *)
(* load returns the bytes last stored at its address, a store changes the  *)
(* bytes it names and no other.  Caches and buses do not show here.        *)
(***************************************************************************)
EXTENDS Naturals

CONSTANTS
  Requests,   \* [store : BOOLEAN, places : sequences of addresses, data]
  Address,    \* byte addresses
  Byte,
  None        \* no request, no reply

VARIABLES
  memory,     \* a byte for each address
  request,    \* the request being served, or None
  reply       \* what it returned, or None while it is served

vars == <<memory, request, reply>>

Bytes(r) == [i \in DOMAIN r.places |-> memory[r.places[i]]]

Stored(r) ==
  [a \in Address |->
     IF \E i \in DOMAIN r.places : r.places[i] = a
     THEN r.data[CHOOSE i \in DOMAIN r.places : r.places[i] = a]
     ELSE memory[a]]

Ask ==
  /\ request = None /\ reply = None
  /\ request' \in Requests
  /\ UNCHANGED <<memory, reply>>

Serve ==
  /\ request # None /\ reply = None
  /\ IF request.store
     THEN memory' = Stored(request) /\ reply' = request.data
     ELSE UNCHANGED memory /\ reply' = Bytes(request)
  /\ UNCHANGED request

Release ==
  /\ reply # None
  /\ reply' = None
  /\ request' = None
  /\ UNCHANGED memory

Init ==
  /\ memory \in [Address -> Byte]
  /\ request = None
  /\ reply = None

Next == Ask \/ Serve \/ Release

Spec == Init /\ [][Next]_vars
===============================================================================
