----------------------------- MODULE IamUserPwd -----------------------------
(***************************************************************************)
(* User-password credentials, src/core/iam/src/basic/serv/                 *)
(* iam_cert_user_pwd_serv.rs.                                              *)
(*                                                                         *)
(* add_cert_conf and modify_cert_conf write a UserPwd cert conf; add_cert  *)
(* adds an account's Enabled cert under a conf.  modify_cert and reset_sk  *)
(* look the account's cert up, change its secret (change_sk checks the    *)
(* original one, reset_sk does not), and then, after that await, delete   *)
(* the account's tokens and contexts: two steps of a caller, between which *)
(* others run.  The secret is abstracted to a version number per account.  *)
(* RbumCertServ, RbumCertConfServ, IamIdentCacheServ and the login that    *)
(* issues tokens are not in this repository: login is an environment step *)
(* that checks the current secret and issues a token under it.             *)
(*                                                                         *)
(* modify_cert runs inside the transaction of its API handler,             *)
(* modify_cert_user_pwd of src/core/iam/src/console_passport/api/          *)
(* iam_cp_cert_api.rs (begin, the service call, commit; the service in     *)
(* between, IamCpCertUserPwdServ, is not in this repository and is taken   *)
(* to call modify_cert).  Its new secret is written in that transaction,   *)
(* invisible to a login (another transaction, READ COMMITTED) until the    *)
(* commit, and the row stays locked to other changes until then.  Token    *)
(* deletion goes to the cache at once.  reset_sk has no caller here; its   *)
(* change is taken as committed when it is made.                           *)
(***************************************************************************)
EXTENDS Naturals

CONSTANTS
    PwdAccounts,  \* accounts holding a UserPwd cert
    PwdCallers,   \* concurrent callers of the service
    ConfIds,      \* ids add_cert_conf may return
    ConfVals,     \* the rule fields of an IamUserPwdCertConfAddOrModifyReq
    MaxSk         \* bound on the secrets an account has had

NoConf == "none"
NoCert == [conf |-> NoConf, sk |-> 0]

VARIABLES
    certConf,   \* certConf[c]: the rule fields of cert conf c, or NoConf
    pwdCert,    \* pwdCert[a]: account a's cert: its conf and secret version
    tokens,     \* tokens[a]: the secret versions a's live tokens were issued under
    pwdPc,      \* each caller: "idle" or "del_tokens" after the secret changed
    pwdArg,     \* the account a caller works on
    delFailed,  \* delFailed[a]: a token deletion for a failed since its last success
    pwdTx       \* pwdTx[p]: the secret version p's open transaction wrote, or 0

pwdVars == <<certConf, pwdCert, tokens, pwdPc, pwdArg, delFailed, pwdTx>>

PwdInit ==
    /\ certConf = [c \in ConfIds |-> NoConf]
    /\ pwdCert = [a \in PwdAccounts |-> NoCert]
    /\ tokens = [a \in PwdAccounts |-> {}]
    /\ pwdPc = [p \in PwdCallers |-> "idle"]
    /\ pwdArg = [p \in PwdCallers |-> "none"]
    /\ delFailed = [a \in PwdAccounts |-> FALSE]
    /\ pwdTx = [p \in PwdCallers |-> 0]

-----------------------------------------------------------------------------
\* add_cert_conf, lines 22-58: RbumCertConfServ::add_rbum with the request's
\* rules (code, name, sk_need etc. fixed by the code).
AddCertConf(c, v) ==
    /\ certConf[c] = NoConf
    /\ certConf' = [certConf EXCEPT ![c] = v]
    /\ UNCHANGED <<pwdCert, tokens, pwdPc, pwdArg, delFailed, pwdTx>>

\* modify_cert_conf, lines 60-88: modify_rbum of an existing conf.
ModifyCertConf(c, v) ==
    /\ certConf[c] # NoConf
    /\ certConf' = [certConf EXCEPT ![c] = v]
    /\ UNCHANGED <<pwdCert, tokens, pwdPc, pwdArg, delFailed, pwdTx>>

\* add_cert, lines 90-116: an Enabled cert of the account under the conf.
AddPwdCert(a, c) ==
    /\ certConf[c] # NoConf
    /\ pwdCert[a] = NoCert
    /\ pwdCert' = [pwdCert EXCEPT ![a] = [conf |-> c, sk |-> 1]]
    /\ UNCHANGED <<certConf, tokens, pwdPc, pwdArg, delFailed, pwdTx>>

\* find_one_rbum by (Item, account, conf), lines 125-135 and 156-166.
FoundCert(a, c) == pwdCert[a] # NoCert /\ pwdCert[a].conf = c

\* An open transaction has written a's cert row; its UPDATE holds the row
\* lock, so another change of a waits for the commit or rollback.
RowLocked(a) == \E q \in PwdCallers : pwdTx[q] # 0 /\ pwdArg[q] = a

\* The secret changed, then on to the token deletion: in the caller's
\* transaction (tx) or committed at once.
ChangeSk(p, a, tx) ==
    /\ pwdCert[a].sk < MaxSk
    /\ IF tx THEN /\ pwdTx' = [pwdTx EXCEPT ![p] = pwdCert[a].sk + 1]
                  /\ UNCHANGED pwdCert
             ELSE /\ pwdCert' = [pwdCert EXCEPT ![a].sk = @ + 1]
                  /\ UNCHANGED pwdTx
    /\ pwdPc' = [pwdPc EXCEPT ![p] = "del_tokens"]
    /\ pwdArg' = [pwdArg EXCEPT ![p] = a]

\* modify_cert_user_pwd (API, lines 30-33) begins a transaction, then
\* modify_cert, lines 118-147: 404 without a cert; change_sk with the
\* original secret (an error returned by `?` if it is not the current
\* one); either error drops the transaction.
ModifyCert(p, a, c, originalOk) ==
    /\ pwdPc[p] = "idle"
    /\ ~RowLocked(a)
    /\ IF FoundCert(a, c) /\ originalOk
       THEN ChangeSk(p, a, TRUE)
       ELSE UNCHANGED <<pwdCert, pwdPc, pwdArg, pwdTx>>
    /\ UNCHANGED <<certConf, tokens, delFailed>>

\* reset_sk, lines 149-178: as modify_cert, no original secret checked.
ResetSk(p, a, c) ==
    /\ pwdPc[p] = "idle"
    /\ ~RowLocked(a)
    /\ IF FoundCert(a, c)
       THEN ChangeSk(p, a, FALSE)
       ELSE UNCHANGED <<pwdCert, pwdPc, pwdArg, pwdTx>>
    /\ UNCHANGED <<certConf, tokens, delFailed>>

\* The call returns: the caller is idle again, its transaction closed.
PwdReturn(p) ==
    /\ pwdPc' = [pwdPc EXCEPT ![p] = "idle"]
    /\ pwdArg' = [pwdArg EXCEPT ![p] = "none"]
    /\ pwdTx' = [pwdTx EXCEPT ![p] = 0]

\* Lines 138 and 169: delete_tokens_and_contexts_by_account_id, whose
\* result is the call's.  Success goes on to the API's commit (line 34)
\* when there is a transaction.  A failure returns the error: in a
\* transaction `?` drops it and the secret is rolled back, otherwise the
\* secret has already changed.
DeleteTokens(p) ==
    LET a == pwdArg[p]
    IN  /\ pwdPc[p] = "del_tokens"
        /\ \/ /\ tokens' = [tokens EXCEPT ![a] = {}]
              /\ delFailed' = [delFailed EXCEPT ![a] = FALSE]
              /\ IF pwdTx[p] # 0 THEN /\ pwdPc' = [pwdPc EXCEPT ![p] = "commit"]
                                      /\ UNCHANGED <<pwdArg, pwdTx>>
                                 ELSE PwdReturn(p)
           \/ /\ UNCHANGED tokens
              /\ delFailed' = [delFailed EXCEPT ![a] = @ \/ pwdTx[p] = 0]
              /\ PwdReturn(p)
        /\ UNCHANGED <<certConf, pwdCert>>

\* funs.commit(), API line 34: the new secret becomes visible to logins
\* and the row lock is released; a failed commit rolls it back.
PwdCommit(p) ==
    /\ pwdPc[p] = "commit"
    /\ \/ pwdCert' = [pwdCert EXCEPT ![pwdArg[p]].sk = pwdTx[p]]
       \/ UNCHANGED pwdCert
    /\ PwdReturn(p)
    /\ UNCHANGED <<certConf, tokens, delFailed>>

\* login_by_user_pwd (API, lines 40-46): its own transaction reads the
\* committed secret; the login itself (environment) issues a token under it.
Login(a) ==
    /\ pwdCert[a] # NoCert
    /\ tokens' = [tokens EXCEPT ![a] = @ \cup {pwdCert[a].sk}]
    /\ UNCHANGED <<certConf, pwdCert, pwdPc, pwdArg, delFailed, pwdTx>>

PwdNext ==
    \/ \E c \in ConfIds, v \in ConfVals : AddCertConf(c, v) \/ ModifyCertConf(c, v)
    \/ \E a \in PwdAccounts :
         \/ Login(a)
         \/ \E c \in ConfIds : AddPwdCert(a, c)
    \/ \E p \in PwdCallers :
         \/ DeleteTokens(p) \/ PwdCommit(p)
         \/ \E a \in PwdAccounts, c \in ConfIds :
              \/ ResetSk(p, a, c)
              \/ \E ok \in BOOLEAN : ModifyCert(p, a, c, ok)

PwdSpec == PwdInit /\ [][PwdNext]_pwdVars

-----------------------------------------------------------------------------
PwdTypeOK ==
    /\ certConf \in [ConfIds -> ConfVals \cup {NoConf}]
    /\ pwdCert \in [PwdAccounts -> {NoCert} \cup [conf : ConfIds, sk : 1..MaxSk]]
    /\ tokens \in [PwdAccounts -> SUBSET (1..MaxSk)]
    /\ pwdPc \in [PwdCallers -> {"idle", "del_tokens", "commit"}]
    /\ pwdTx \in [PwdCallers -> 0..MaxSk]

\* A changed password ends the account's sessions: once no modify_cert or
\* reset_sk of the account is between its secret change and its return
\* (token deletion and, for modify_cert_user_pwd, the commit), and no
\* deletion of it has failed since its last success, every live token of
\* the account was issued under its current secret, however logins,
\* changes by the owner and resets by an admin interleave.
SessionsFollowSecret ==
    \A a \in PwdAccounts :
        (/\ \A p \in PwdCallers : ~(pwdPc[p] # "idle" /\ pwdArg[p] = a)
         /\ ~delFailed[a])
        => tokens[a] \subseteq {pwdCert[a].sk}
=============================================================================
