------------------------------ MODULE MpiWorld ------------------------------
(***************************************************************************)
(* External: the part of MPI that MpiBackend uses, on MPI_COMM_WORLD.      *)
(*                                                                         *)
(* Point to point.  Messages of one sender, one receiver and one tag       *)
(* arrive in the order they were sent.  A send may complete early, when    *)
(* the library buffers it, or only once its message has been received: the *)
(* caller may rely on neither.                                             *)
(*                                                                         *)
(* Collectives.  The k-th collective a rank enters meets the k-th one of   *)
(* every other rank.  An Allgather or a Barrier lets a rank go once all    *)
(* ranks have entered it; a Bcast lets the root go at once and the others  *)
(* once the root has entered it.                                           *)
(***************************************************************************)
EXTENDS Integers, Sequences

CONSTANT P   \* size of MPI_COMM_WORLD

ASSUME RanksAssumption == P \in Nat \ {0}

VARIABLES
  wire,    \* wire[tag][src][dst]: messages sent and not yet received
  calls    \* calls[r]: the collectives rank r has entered, in order

mpiVars == <<wire, calls>>

Ranks == 0..(P - 1)
PROC_NULL == -1
Tags == {"TAG_HALO_UP", "TAG_HALO_DOWN", "TAG_ORDERED"}

MpiInit ==
  /\ wire = [tag \in Tags |-> [src \in Ranks |-> [dst \in Ranks |-> <<>>]]]
  /\ calls = [r \in Ranks |-> <<>>]

-----------------------------------------------------------------------------
(* Point to point; PROC_NULL takes no message and sends none. *)

Send(r, dst, tag, payload) ==
  IF dst = PROC_NULL
  THEN UNCHANGED wire
  ELSE wire' = [wire EXCEPT ![tag][r][dst] = Append(@, payload)]

\* Every message r sent to dst under this tag has been received.
Delivered(r, dst, tag) ==
  IF dst = PROC_NULL THEN TRUE ELSE wire[tag][r][dst] = <<>>

Incoming(r, src, tag) == src # PROC_NULL /\ wire[tag][src][r] # <<>>
Message(r, src, tag) == Head(wire[tag][src][r])
Receive(r, src, tag) == wire' = [wire EXCEPT ![tag][src][r] = Tail(@)]

-----------------------------------------------------------------------------
(* Collectives. *)

Enter(r, call, data) ==
  calls' = [calls EXCEPT ![r] = Append(@, [call |-> call, data |-> data])]

Entered(r) == Len(calls[r])

\* Everyone has entered the collective r entered last.  Ranks that make
\* different calls are in error (see SameCall) and nobody leaves.
AllEntered(r) ==
  \A q \in Ranks : /\ Entered(q) >= Entered(r)
                   /\ calls[q][Entered(r)].call = calls[r][Entered(r)].call
RootEntered(r, root) == Entered(root) >= Entered(r)

\* What rank q brought to the collective r entered last.
Brought(r, q) == calls[q][Entered(r)].data

\* Ranks that meet in a collective make the same call.
SameCall(q, r) ==
  \A k \in 1..Entered(q) : k <= Entered(r) => calls[q][k].call = calls[r][k].call

=============================================================================
