----------------------------- MODULE MCBookFeed ------------------------------
(***************************************************************************)
(* BookFeed with snapshots and deltas in any order.  The middle price can  *)
(* have either quantity, so a stale quantity is told from a fresh one; the *)
(* outer prices have one quantity, or no level.                            *)
(***************************************************************************)
EXTENDS BookFeed

FewBooks == {b \in UncrossedBooks : \A p \in Prices \ {2} : b.bids[p] < 2 /\ b.asks[p] < 2}

FewBooksNext ==
  \/ Open
  \/ Close
  \/ \E b \in FewBooks : ReceiveSnapshot(b) \/ ReceiveDelta(b)
  \/ ClearBook
  \/ \E p \in Prices : ApplyBid(p) \/ ApplyAsk(p)
  \/ EndFrame
  \/ AbandonFrame

FewBooksSpec == Init /\ [][FewBooksNext]_vars
==============================================================================
