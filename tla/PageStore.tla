------------------------------ MODULE PageStore ------------------------------
(***************************************************************************)
(* What the bootloader promises about program memory, whatever the chip:   *)
(* pages are reprogrammed one at a time, only the page being reprogrammed  *)
(* ever changes, and a commit is acknowledged only while that page holds   *)
(* exactly the bytes that were committed.  A reprogramming that is cut     *)
(* short by a reset leaves its own page in any condition and no other.     *)
(***************************************************************************)
CONSTANTS
  Page,      \* the pages that may be reprogrammed
  Contents,  \* what a page can hold
  NoPage     \* no page is being reprogrammed; not a member of Page

VARIABLES
  store,  \* what each page holds
  open,   \* the page being reprogrammed
  acked   \* <<page, contents>> of the acknowledgement being given, if any

storeVars == <<store, open, acked>>

NoAck == <<>>

Init ==
  /\ store \in [Page -> Contents]
  /\ open = NoPage
  /\ acked = NoAck

\* A master asks for a page to be reprogrammed.
Open(p) ==
  /\ open = NoPage
  /\ open' = p
  /\ acked' = NoAck
  /\ UNCHANGED store

Rewrite(p, c) == store' = [store EXCEPT ![p] = c]

\* One step of the erasing and filling of the open page.
Edit ==
  /\ open # NoPage
  /\ \E c \in Contents : Rewrite(open, c)
  /\ UNCHANGED <<open, acked>>

\* The page is done: the acknowledgement names it and what it now holds.
Acknowledge ==
  /\ open # NoPage
  /\ open' = NoPage
  /\ acked' = <<open, store[open]>>
  /\ UNCHANGED store

\* Given up, or cut short by a reset.
Abandon ==
  /\ open # NoPage
  /\ open' = NoPage
  /\ acked' = NoAck
  /\ \E c \in Contents : Rewrite(open, c)

\* The acknowledgement has been taken by the master.
Taken ==
  /\ acked' = NoAck
  /\ UNCHANGED <<store, open>>

Next == (\E p \in Page : Open(p)) \/ Edit \/ Acknowledge \/ Abandon \/ Taken

Spec == Init /\ [][Next]_storeVars
=============================================================================
