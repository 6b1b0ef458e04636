------------------------------ MODULE MailVCode ------------------------------
(***************************************************************************)
(* Mail verification-code credentials,                                     *)
(* src/support/iam/src/basic/serv/iam_cert_mail_vcode_serv.rs.             *)
(*                                                                         *)
(* A code is a random number put into a cache under the key (mail,         *)
(* own_paths) and mailed to the address.  add_cert and                     *)
(* resend_activation_mail issue one for a Pending cert, send_bind_mail for *)
(* binding the mail to the caller's account, send_login_mail for a login;  *)
(* all of them share the one key.  activate_mail and bind_mail take the    *)
(* code out of the cache (get_and_delete) and compare it with the input.  *)
(* Cert rows store their status as RbumCertStatusKind::to_int.             *)
(*                                                                         *)
(* Each issued code is an issue number; two issues are taken to differ     *)
(* (gen_range(1000..9999) collides with probability 1/8999).  The user    *)
(* entering a code enters one mailed to that address, or a wrong one.      *)
(* RbumCertServ is not in this repository: add_rbum with a vcode is taken  *)
(* to cache it, as resend_activation_mail does explicitly.                 *)
(***************************************************************************)
EXTENDS Integers, FiniteSets, RbumEnumeration

CONSTANTS
    Accounts,    \* account ids
    Mails,       \* mail addresses
    OwnPaths,    \* ctx.own_paths of the tenant
    MaxIssues,   \* bound on the codes issued
    MaxCerts     \* bound on the cert rows added

Issues == 1..MaxIssues
NoCode == 0
\* An input that matches no issued code.
WrongCode == -1

VARIABLES
    certs,      \* the MailVCode cert rows: [id, acc, mail, status (i16)]
    cache,      \* cache[key]: the issue cached under a vcode key, or NoCode
    nextIssue,  \* the number of the next issue
    mailbox,    \* mailbox[m]: the issues whose mail reached m
    used,       \* used[i]: the calls that accepted issue i
    pc,         \* send_bind_mail's progress per account
    arg         \* the mail a pending send_bind_mail is for

vars == <<certs, cache, nextIssue, mailbox, used, pc, arg>>

\* RbumCertServ's vcode cache key: the mail within the tenant's own_paths.
CacheKey(m) == <<m, OwnPaths>>

Keys == {CacheKey(m) : m \in Mails}

Init ==
    /\ certs = {}
    /\ cache = [k \in Keys |-> NoCode]
    /\ nextIssue = 1
    /\ mailbox = [m \in Mails |-> {}]
    /\ used = [i \in Issues |-> 0]
    /\ pc = [a \in Accounts |-> "idle"]
    /\ arg = [a \in Accounts |-> "none"]

-----------------------------------------------------------------------------
\* get_vcode() then add_vcode_to_cache(mail, vcode, own_paths): the new
\* code replaces whatever the key held; the mail carrying it may fail.
IssueCode(m) ==
    /\ nextIssue <= MaxIssues
    /\ cache' = [cache EXCEPT ![CacheKey(m)] = nextIssue]
    /\ nextIssue' = nextIssue + 1
    /\ \E delivered \in BOOLEAN :
         mailbox' = IF delivered THEN [mailbox EXCEPT ![m] = @ \cup {nextIssue}] ELSE mailbox

\* A new cert row of account a for mail m with the given status.
AddCertRow(a, m, status) ==
    /\ Cardinality(certs) < MaxCerts
    /\ certs' = certs \cup {[id |-> Cardinality(certs) + 1, acc |-> a, mail |-> m,
                             status |-> CertStatusToInt[status]]}

\* add_cert, lines 99-125: a Pending cert whose code is cached and mailed.
AddCert(a, m) ==
    /\ AddCertRow(a, m, "Pending")
    /\ IssueCode(m)
    /\ UNCHANGED <<used, pc, arg>>

\* resend_activation_mail, lines 127-131.
ResendActivationMail(m) ==
    /\ IssueCode(m)
    /\ UNCHANGED <<certs, used, pc, arg>>

\* The call accepts issue i.
Accept(i) == used' = [used EXCEPT ![i] = @ + 1]

\* get_and_delete_vcode_in_cache: the cached code, removed from the cache.
TakeCode(m) == cache' = [cache EXCEPT ![CacheKey(m)] = NoCode]

\* activate_mail, lines 139-184: take the code; if it equals the input,
\* find a Pending cert of the mail and enable it (404 if there is none).
\* A wrong input has still consumed the code.
ActivateMail(m, input) ==
    LET code == cache[CacheKey(m)]
        pending == {c \in certs : c.mail = m /\ CertStatusFromInt[c.status] = "Pending"}
    IN /\ code # NoCode
       /\ TakeCode(m)
       /\ IF code = input /\ pending # {}
          THEN \E c \in pending :
                 /\ certs' = (certs \ {c}) \cup {[c EXCEPT !.status = CertStatusToInt["Enabled"]]}
                 /\ Accept(code)
          ELSE UNCHANGED <<certs, used>>
       /\ UNCHANGED <<nextIssue, mailbox, pc, arg>>

\* send_bind_mail, lines 186-204: reject a mail any MailVCode cert of the
\* tenant already has ("email already exist").
SendBindMailCheck(a, m) ==
    /\ pc[a] = "idle"
    /\ pc' = [pc EXCEPT ![a] = IF \E c \in certs : c.mail = m THEN "idle" ELSE "bind_send"]
    /\ arg' = [arg EXCEPT ![a] = m]
    /\ UNCHANGED <<certs, cache, nextIssue, mailbox, used>>

\* Lines 205-209, after the awaits of the check: the code is cached and
\* mailed, or peek_item or add_vcode_to_cache fails and `?` returns first.
SendBindMailSend(a) ==
    /\ pc[a] = "bind_send"
    /\ \/ IssueCode(arg[a])
       \/ UNCHANGED <<cache, nextIssue, mailbox>>
    /\ pc' = [pc EXCEPT ![a] = "idle"]
    /\ arg' = [arg EXCEPT ![a] = "none"]
    /\ UNCHANGED <<certs, used>>

\* Mutant: bind_mail reading the cached code without deleting it.
BindMailNoDelete(a, m, input) ==
    LET code == cache[CacheKey(m)]
    IN /\ code # NoCode
       /\ UNCHANGED cache
       /\ IF code = input
          THEN /\ AddCertRow(a, m, "Enabled")
               /\ Accept(code)
          ELSE UNCHANGED <<certs, used>>
       /\ UNCHANGED <<nextIssue, mailbox, pc, arg>>

\* bind_mail, lines 212-272: take the code; if it equals the input, add an
\* Enabled cert of the caller for the mail (the log task is not state).
BindMail(a, m, input) ==
    LET code == cache[CacheKey(m)]
    IN /\ code # NoCode
       /\ TakeCode(m)
       /\ IF code = input
          THEN /\ AddCertRow(a, m, "Enabled")
               /\ Accept(code)
          ELSE UNCHANGED <<certs, used>>
       /\ UNCHANGED <<nextIssue, mailbox, pc, arg>>

\* send_login_mail, lines 274-279.
SendLoginMail(m) ==
    /\ IssueCode(m)
    /\ UNCHANGED <<certs, used, pc, arg>>

\* The codes a caller can enter: any code mailed to an address (the caller
\* may own another address of the tenant), or a wrong one.
Inputs(m) == UNION {mailbox[x] : x \in Mails} \cup {WrongCode}

Next ==
    \/ \E a \in Accounts, m \in Mails :
         \/ AddCert(a, m)
         \/ SendBindMailCheck(a, m)
         \/ \E input \in Inputs(m) : BindMail(a, m, input)
    \/ \E a \in Accounts : SendBindMailSend(a)
    \/ \E m \in Mails :
         \/ ResendActivationMail(m)
         \/ SendLoginMail(m)
         \/ \E input \in Inputs(m) : ActivateMail(m, input)

Spec == Init /\ [][Next]_vars

-----------------------------------------------------------------------------
\* A mailed code is accepted at most once: activate_mail and bind_mail
\* both take it out of the cache (get_and_delete) before comparing, so a
\* code can neither activate or bind twice nor serve two accounts.
VCodeSingleUse == \A i \in Issues : used[i] <= 1

\* The status column round-trips: every cert row's stored i16 reads back
\* through from_int as the variant whose to_int wrote it, and the matches of
\* every rbum kind are inverse (RbumEnumeration's EnumRoundTrip), so the
\* Pending filter of activate_mail finds exactly the rows add_cert wrote.
CertStatusRoundTrip ==
    /\ EnumRoundTrip
    /\ \A c \in certs : CertStatusToInt[CertStatusFromInt[c.status]] = c.status
=============================================================================
