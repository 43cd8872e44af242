----------------------------- MODULE BsDownloader -----------------------------
(****************************************************************************)
(* The update of the PL end to end: the trusted application                 *)
(* bs_downloader_ta.c fetches an image over TCP into a buffer and hands it  *)
(* to FpgaMgr.  The TA has one instance that is kept alive and one session  *)
(* at a time (its flags), so its commands do not overlap.                   *)
(****************************************************************************)
EXTENDS FpgaMgr

CONSTANTS
    BufChunks,     \* chunks that fit into the buffer: BITSTREAM_SIZE / REVC_BLOCK
    MaxChunks,     \* bound: chunks that a command receives
    MaxSockets     \* bound: sockets left open

ASSUME DownloadAssumption ==
    BufChunks \in Nat /\ MaxChunks \in Nat /\ MaxSockets \in Nat

VARIABLES
    ta,            \* where the TA is
    session,       \* pta_zynqmp_fpga_mgr_session is open
    ptr,           \* where the start of the buffer is from, or "null"
    heap,          \* what the heap holds where no buffer is
    got,           \* chunks counted by this command
    sockets        \* open sockets

taVars == <<ta, session, ptr, heap, got, sockets>>
vars == <<mgrVars, taVars>>

(* Bytes that the server sent, and bytes that the shared memory happened to  *)
(* hold when a receive failed; both came through recv of this very command.  *)
Received == {"image", "shm"}

Contents == Received \cup {"zero", "old"}

TypeOK ==
    /\ MgrTypeOK
    /\ ta \in {"closed", "open", "connect", "recv", "invoke", "pta"}
    /\ session \in BOOLEAN
    /\ ptr \in Contents \cup {"null"}
    /\ heap \in {"zero", "old", "broken"}
    /\ got \in 0..MaxChunks
    /\ sockets \in 0..(MaxSockets + 1)

Init ==
    /\ MgrInit
    /\ ta = "closed"
    /\ session = FALSE
    /\ ptr = "null"
    /\ heap = "zero"
    /\ got = 0
    /\ sockets = 0

(* The session to the PTA is opened once and kept over the sessions of the   *)
(* TA; opening it may fail.                                                  *)
TA_OpenSessionEntryPoint ==
    /\ ta = "closed"
    /\ session' \in {session, TRUE}
    /\ ta' = IF session' THEN "open" ELSE "closed"
    /\ UNCHANGED <<mgrVars, ptr, heap, got, sockets>>

TA_CloseSessionEntryPoint ==
    /\ ta = "open"
    /\ ta' = "closed"
    /\ UNCHANGED <<mgrVars, session, ptr, heap, got, sockets>>

(* Mutant of Malloc: without TEE_MALLOC_FILL_ZERO.                           *)
MallocUncleared == ptr' = IF heap = "zero" THEN "zero" ELSE "old"

Malloc == ptr' = "zero"

(* downlaod_bs; TEE_Malloc may fail, and the command with it.                *)
downlaod_bs ==
    /\ ta = "open"
    /\ Malloc
    /\ got' = 0
    /\ ta' = "connect"
    /\ UNCHANGED <<mgrVars, session, heap, sockets>>

(* tcp_connect.  Without a connection the command goes on all the same.      *)
tcp_connect ==
    /\ ta = "connect"
    /\ \/ ta' = "invoke" /\ sockets' = sockets
       \/ sockets <= MaxSockets /\ ta' = "recv" /\ sockets' = sockets + 1
    /\ UNCHANGED <<mgrVars, session, ptr, heap, got>>

(* The receive loop never looks at res, only at the length that recv leaves. *)
(* A length may come with bytes of the image; with an error of the RPC, after*)
(* which the shared memory is copied all the same; or, when there is no      *)
(* shared memory, with nothing, the buffer untouched.  Nor does the loop know*)
(* where the buffer ends: what does not fit breaks the heap.                 *)
Recv ==
    /\ ta = "recv"
    /\ got < MaxChunks
    /\ got' = got + 1
    /\ ptr' \in IF got = 0 THEN Received \cup {ptr} ELSE {ptr}
    /\ heap' = IF got < BufChunks THEN heap ELSE "broken"
    /\ UNCHANGED <<mgrVars, ta, session, sockets>>

(* Length 0 ends the loop; after an error the socket stays open.             *)
RecvEnds ==
    /\ ta = "recv"
    /\ sockets' \in {sockets - 1, sockets}
    /\ ta' = "invoke"
    /\ UNCHANGED <<mgrVars, session, ptr, heap, got>>

(* The PTA is called: it accepts what looks like an image ...                *)
Invoke ==
    /\ ta = "invoke"
    /\ ptr # "zero"
    /\ Accept
    /\ ta' = "pta"
    /\ UNCHANGED <<session, ptr, heap, got, sockets>>

Free ==
    /\ ptr' = "null"
    /\ heap' = IF heap = "zero" /\ ptr # "zero" THEN "old" ELSE heap
    /\ ta' = "open"

(* ... or refuses the parameters or the header at once.                      *)
InvokeRefused ==
    /\ ta = "invoke"
    /\ Free
    /\ UNCHANGED <<mgrVars, session, got, sockets>>

(* The PTA has returned, the buffer is freed.                                *)
InvokeReturns ==
    /\ ta = "pta"
    /\ pc = "idle"
    /\ Free
    /\ UNCHANGED <<mgrVars, session, got, sockets>>

(* What a broken heap does is undefined: nothing, or, at any later step of   *)
(* the TA, a fault or a failed check of the allocator.  OP-TEE then removes  *)
(* the instance with its heap, its sessions and, through them, its sockets.  *)
Panic ==
    /\ heap = "broken"
    /\ ta # "closed"
    /\ pc = "idle"
    /\ ta' = "closed"
    /\ session' = FALSE
    /\ ptr' = "null"
    /\ heap' = "zero"
    /\ sockets' = 0
    /\ UNCHANGED <<mgrVars, got>>

Ta == \/ TA_OpenSessionEntryPoint \/ TA_CloseSessionEntryPoint
      \/ downlaod_bs \/ tcp_connect \/ Recv \/ RecvEnds
      \/ Invoke \/ InvokeRefused \/ InvokeReturns \/ Panic

Next == \/ Ta
        \/ PtaStep /\ UNCHANGED taVars
        \/ DmaCompletes /\ UNCHANGED taVars
        \/ PcapDrains /\ UNCHANGED taVars

(* Software in the PTA goes on; DMA and PCAP finish what they have begun     *)
(* (the wait for the PCAP has no timeout).  Nothing is said of the server.   *)
Spec == /\ Init /\ [][Next]_vars
        /\ WF_vars(PtaStep /\ UNCHANGED taVars)
        /\ WF_vars(DmaCompletes /\ UNCHANGED taVars)
        /\ WF_vars(PcapDrains /\ UNCHANGED taVars)

-----------------------------------------------------------------------------
(* What the PTA works on came through recv of the same command: never what   *)
(* an earlier command left in the heap, although the PTA is called even when *)
(* the connection failed or every recv did, with a length that says          *)
(* otherwise.  The fresh buffer is zero (TEE_MALLOC_FILL_ZERO), and the      *)
(* header check refuses it as long as nothing was copied to its start.       *)
OnlyReceivedWritten == pc # "idle" => got > 0 /\ ptr \in Received

-----------------------------------------------------------------------------
(* The inductive strengthening: the PTA works only for a command that has    *)
(* received something, which is in its buffer; every command has a buffer,   *)
(* and one that receives has a socket open.                                  *)
TaInv ==
    /\ ta \notin {"closed", "open"} => ptr # "null"
    /\ ta = "recv" => sockets > 0
    /\ ta # "pta" => pc = "idle"
    /\ ptr # "old"
    /\ ta = "pta" => ptr \in Received
    /\ ptr \in Received => got > 0

IInv == TypeOK /\ MgrInv /\ TaInv
=============================================================================
