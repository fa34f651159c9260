---------------------------- MODULE SavedOrders ----------------------------
(***************************************************************************)
(* The list of orders that XMAppleIAP_Lost_Transaction_Helper keeps in     *)
(* NSUserDefaults under the key "iap_product": a sequence of records, in   *)
(* the order they were saved.  A record carries what the properties tell   *)
(* apart: the transaction, the product and the user.  The JSON text of a   *)
(* record and its receipt are left out.                                    *)
(***************************************************************************)
EXTENDS SequencesExt

\* saveUid:productId:type:tid:purchaseToken: appends without looking for an
\* earlier record of the same transaction.
saveUid(orders, uid, pid, tid) ==
    Append(orders, [tid |-> tid, pid |-> pid, uid |-> uid])

\* The positions indexOfObjectPassingTest: can stop at.
Positions(orders, tid) == {i \in DOMAIN orders : orders[i].tid = tid}

\* updateSavedProductInfo: removes the first record of the transaction, if any.
updateSavedProductInfo(orders, tid) ==
    IF Positions(orders, tid) = {}
    THEN orders
    ELSE RemoveAt(orders, Min(Positions(orders, tid)))

\* The transactions that still have a record.
SavedTids(orders) == {orders[i].tid : i \in DOMAIN orders}

\* How many times processLostTransaction: hands out the transaction: once per
\* record of it.
Copies(orders, tid) == Cardinality(Positions(orders, tid))
=============================================================================
