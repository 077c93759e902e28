------------------------------ MODULE Account ------------------------------
(***************************************************************************)
(* The ACME account of one CA, src/src/ngx_autocert_account.c: its key on  *)
(* disk, its registration (directory, nonce, newAccount, one retry after   *)
(* badNonce) and the signed POST the order flow is built on, of which one  *)
(* may be in flight, with its own retry after badNonce.                    *)
(*                                                                         *)
(* pend is the set of events worker 0 waits for; each names what will run  *)
(* and the order it belongs to (0 for none).  A request of the HTTPS       *)
(* client (AcmeClient.tla) is an event until its handler runs; a request   *)
(* the client refuses never becomes one.  What the CA answers is data: an  *)
(* answer is the class of answers the handler tells apart.                 *)
(***************************************************************************)
EXTENDS Integers, FiniteSets

VARIABLES
  acct,     \* ngx_autocert_account_t of the CA
  pend,     \* events worker 0 waits for: requests and timers
  keyfile   \* disk: the account key is "absent", "partial" or "good"

accountVars == <<acct, pend, keyfile>>

Event(k, o) == [k |-> k, o |-> o]

(* post_pool = NULL: no POST in flight. *)
NoPost == [k |-> "none", o |-> 0, retried |-> FALSE, fresh |-> FALSE]

(* An account struct as the driver allocates it. *)
NoAccount == [st |-> "none", retried |-> FALSE, nonce |-> "none",
              post |-> NoPost]

Registration == {"acct_directory", "acct_nonce", "acct_register",
                 "acct_renonce"}

(* account_start: the request e takes the place of the event s. *)
Follow(s, e) == (pend \ {Event(s, 0)}) \cup {Event(e, 0)}

(* account_finish with an error: the driver frees the account and tries the  *)
(* CA again later (Sched.tla).                                               *)
AccountFails(k) ==
  /\ acct' = NoAccount
  /\ pend' = pend \ {Event(k, 0)}
  /\ UNCHANGED keyfile

(* load_key: a key that is absent is generated and saved, one that cannot be *)
(* parsed is refused.                                                        *)
load_key ==
  /\ keyfile # "partial"
  /\ keyfile' = "good"

(* save_key creates the file under O_EXCL and writes it; the process may die *)
(* in between.                                                               *)
SaveInterrupted ==
  /\ keyfile = "absent"
  /\ keyfile' = "partial"

(* account_register: the directory is requested, or the client refuses and   *)
(* all is undone but the file.                                               *)
AccountRegister ==
  /\ acct.st = "none"
  /\ load_key
  /\ \/ /\ acct' = [NoAccount EXCEPT !.st = "registering"]
        /\ pend' = pend \cup {Event("acct_directory", 0)}
     \/ UNCHANGED <<acct, pend>>

(* directory_done: both endpoints are there and https, or not. *)
AccountDirectoryDone ==
  /\ Event("acct_directory", 0) \in pend
  /\ \/ /\ pend' = Follow("acct_directory", "acct_nonce")
        /\ UNCHANGED <<acct, keyfile>>
     \/ AccountFails("acct_directory")

(* post_account with build_eab: newAccount, which spends the nonce. *)
post_account(k) ==
  /\ pend' = Follow(k, "acct_register")
  /\ acct' = [acct EXCEPT !.nonce = "spent"]
  /\ UNCHANGED keyfile

(* nonce_done and register_renonce_done: the answer carries a nonce, or not. *)
AccountNonceDone ==
  \E k \in {"acct_nonce", "acct_renonce"} :
    /\ Event(k, 0) \in pend
    /\ post_account(k) \/ AccountFails(k)

(* register_done: the account is there, with a nonce for the first POST if   *)
(* the answer carried one; badNonce is retried once; all else is final.      *)
AccountRegisterDone ==
  /\ Event("acct_register", 0) \in pend
  /\ \/ \E n \in {"spent", "fresh"} :
          /\ acct' = [acct EXCEPT !.st = "ready", !.nonce = n]
          /\ pend' = pend \ {Event("acct_register", 0)}
          /\ UNCHANGED keyfile
     \/ /\ ~acct.retried
        /\ acct' = [acct EXCEPT !.retried = TRUE]
        /\ pend' = Follow("acct_register", "acct_renonce")
        /\ UNCHANGED keyfile
     \/ AccountFails("acct_register")

-----------------------------------------------------------------------------
(* The signed POST.  a stands for the account as the caller has it. *)

(* send_post: the JWS carries the current nonce, which is spent with it. *)
send_post(a) ==
  [a EXCEPT !.post.fresh = (a.nonce = "fresh"), !.nonce = "spent"]

(* The guards of account_post: a registered account, no POST in flight. *)
CanPost(a) == a.st = "ready" /\ a.post = NoPost

(* account_post, accepted: the handler to call and the order are kept. *)
account_post(a, k, o) ==
  send_post([a EXCEPT !.post = [NoPost EXCEPT !.k = k, !.o = o]])

(* MUTANT: the slot is not released before the handler runs. *)
delivered_Keeps(a) == a

(* post_done and post_fail: the slot is released before the handler runs. *)
delivered(a) == [a EXCEPT !.post = NoPost]

(* post_done: the answer's Replay-Nonce, if it has one, replaces ours. *)
set_nonce(a, n) == [a EXCEPT !.nonce = n]

(* post_done, badNonce: the POST is kept and a nonce is fetched, once. *)
PostBadNonce ==
  \E e \in pend, n \in {acct.nonce, "fresh"} :
    /\ e.k = "post" /\ ~acct.post.retried
    /\ acct' = [set_nonce(acct, n) EXCEPT !.post.retried = TRUE]
    /\ pend' = (pend \ {e}) \cup {Event("renonce", e.o)}
    /\ UNCHANGED keyfile

(* MUTANT: the POST is sent again with the nonce at hand. *)
RenonceDone_Stale ==
  \E e \in pend :
    /\ e.k = "renonce"
    /\ acct' = send_post(acct)
    /\ pend' = (pend \ {e}) \cup {Event("post", e.o)}
    /\ UNCHANGED keyfile

(* renonce_done: the same POST again, signed with the nonce just fetched. *)
RenonceDone ==
  \E e \in pend :
    /\ e.k = "renonce"
    /\ acct' = send_post(set_nonce(acct, "fresh"))
    /\ pend' = (pend \ {e}) \cup {Event("post", e.o)}
    /\ UNCHANGED keyfile

AccountStep == AccountRegister \/ AccountDirectoryDone \/ AccountNonceDone
                 \/ AccountRegisterDone

PostStep == PostBadNonce \/ RenonceDone

AccountTypeOK ==
  /\ acct \in [st : {"none", "registering", "ready"}, retried : BOOLEAN,
               nonce : {"none", "spent", "fresh"},
               post : [k : {"none", "newOrder", "authz", "respond", "poll",
                            "finalize", "orderPoll", "download"},
                       o : Nat, retried : BOOLEAN, fresh : BOOLEAN]]
  /\ keyfile \in {"absent", "partial", "good"}
=============================================================================
