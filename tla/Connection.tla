----------------------------- MODULE Connection -----------------------------
(***************************************************************************)
(* One MySQL connection, class Connection (Connection.h, Connection.cpp).  *)
(* The SQL text and the rows are abstracted away; what is left is the      *)
(* state of the link, which is what the pool hands from client to client:  *)
(*                                                                         *)
(*   "none"     the object does not exist (not constructed, or deleted)    *)
(*   "up"       connected, the next statement is accepted                  *)
(*   "pending"  the rows of a query() are still unread: query() returns    *)
(*              mysql_use_result(), so the server streams the rows and     *)
(*              refuses further statements until the result is freed       *)
(*   "down"     mysql_real_connect() failed, or the server has gone away   *)
(***************************************************************************)

LinkStates == {"none", "up", "pending", "down"}

\* `new Connection()` followed by connect(): mysql_init, then
\* mysql_real_connect, which succeeds or returns nullptr.  mysql_init fails only
\* for want of memory; that is left out, so every object has a handle.
AfterConnect == {"up", "down"}

\* ~Connection(): mysql_close, since the handle is not null.
AfterDelete == "none"

\* update(sql): a statement on a link that is not "up" fails and leaves the
\* link as it was; on one that is "up" it may find that the server is gone.
AfterUpdate(l) == IF l = "up" THEN {"up", "down"} ELSE {l}

\* query(sql): as update(), and on success the result set is left open.
AfterQuery(l) == AfterUpdate(l) \cup (IF l = "up" THEN {"pending"} ELSE {})

\* mysql_free_result(), called by the user of query() (client library).
AfterFreeResult(l) == IF l = "pending" THEN "up" ELSE l
=============================================================================
