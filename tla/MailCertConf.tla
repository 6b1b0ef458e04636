---------------------------- MODULE MailCertConf ----------------------------
(***************************************************************************)
(* The mail verification-code cert confs of                                *)
(* src/support/iam/src/basic/serv/iam_cert_mail_vcode_serv.rs:             *)
(* add_cert_conf, modify_cert_conf and add_or_enable_cert_conf.            *)
(*                                                                         *)
(* A conf row belongs to a rel_rbum_item_id (a tenant or app) and carries  *)
(* the request's ak_note and ak_rule (a value of MailConfVals here) and a  *)
(* status.  add_or_enable_cert_conf looks the item's MailVCode conf up,    *)
(* then, after that await, enables the one found or adds one: two steps    *)
(* of a caller.  RbumCertConfServ and IamCertServ are not in this          *)
(* repository: do_find_one_rbum is taken to fail when more than one row    *)
(* matches, as a find-one does, and disabling a conf is an environment     *)
(* step.                                                                   *)
(***************************************************************************)
EXTENDS Naturals

CONSTANTS
    ConfItems,      \* rel_iam_item_id values
    MailConfVals,   \* the fields of an IamCertConfMailVCodeAddOrModifyReq
    MailCallers,    \* concurrent callers of add_or_enable_cert_conf
    MaxMailConfs    \* bound on the conf rows added

MailConfIds == 1..MaxMailConfs
NoMailConf == [item |-> "none", val |-> "none", status |-> "none"]

VARIABLES
    mailConf,   \* mailConf[c]: conf row c, or NoMailConf
    mcPc,       \* each caller: "idle", "enable" or "add"
    mcArg       \* a caller's item, request and the conf it found

mcVars == <<mailConf, mcPc, mcArg>>

MailConfInit ==
    /\ mailConf = [c \in MailConfIds |-> NoMailConf]
    /\ mcPc = [p \in MailCallers |-> "idle"]
    /\ mcArg = [p \in MailCallers |-> [item |-> "none", val |-> "none", conf |-> 0]]

\* RbumCertConfServ::add_rbum: the next free id gets an Enabled row.
NewMailConf(item, v) ==
    LET c == CHOOSE i \in MailConfIds : mailConf[i] = NoMailConf
    IN  [mailConf EXCEPT ![c] = [item |-> item, val |-> v, status |-> "enabled"]]

CanAdd == \E i \in MailConfIds : mailConf[i] = NoMailConf

-----------------------------------------------------------------------------
\* add_cert_conf, lines 33-66: kind and name MailVCode, sk not needed,
\* dynamic, coexist_num 1, status Enabled.
AddMailCertConf(item, v) ==
    /\ CanAdd
    /\ mailConf' = NewMailConf(item, v)
    /\ UNCHANGED <<mcPc, mcArg>>

\* modify_cert_conf, lines 68-97: only ak_note and ak_rule change; the
\* status is left as it is.  An absent id is modify_rbum's error.
ModifyMailCertConf(c, v) ==
    /\ mailConf[c] # NoMailConf
    /\ mailConf' = [mailConf EXCEPT ![c].val = v]
    /\ UNCHANGED <<mcPc, mcArg>>

\* The MailVCode confs of an item, whatever their status.
ConfsOf(item) == {c \in MailConfIds : mailConf[c].item = item}

\* add_or_enable_cert_conf, lines 287-302: do_find_one_rbum by kind and
\* item (an error through `?` when several rows match).
AddOrEnableFind(p, item, v) ==
    /\ mcPc[p] = "idle"
    /\ \/ /\ ConfsOf(item) = {}
          /\ mcPc' = [mcPc EXCEPT ![p] = "add"]
          /\ mcArg' = [mcArg EXCEPT ![p] = [item |-> item, val |-> v, conf |-> 0]]
       \/ \E c \in ConfsOf(item) :
            /\ ConfsOf(item) = {c}
            /\ mcPc' = [mcPc EXCEPT ![p] = "enable"]
            /\ mcArg' = [mcArg EXCEPT ![p] = [item |-> item, val |-> v, conf |-> c]]
       \/ /\ \E c, d \in ConfsOf(item) : c # d
          /\ UNCHANGED <<mcPc, mcArg>>
    /\ UNCHANGED mailConf

\* Lines 303-305: IamCertServ::enabled_cert_conf on the row found.
AddOrEnableEnable(p) ==
    /\ mcPc[p] = "enable"
    /\ mailConf' = [mailConf EXCEPT ![mcArg[p].conf].status = "enabled"]
    /\ mcPc' = [mcPc EXCEPT ![p] = "idle"]
    /\ UNCHANGED mcArg

\* Lines 306-309: none was found, so add_cert_conf with the request.
AddOrEnableAdd(p) ==
    /\ mcPc[p] = "add"
    /\ CanAdd
    /\ mailConf' = NewMailConf(mcArg[p].item, mcArg[p].val)
    /\ mcPc' = [mcPc EXCEPT ![p] = "idle"]
    /\ UNCHANGED mcArg

\* A conf disabled by the IAM console (environment).
DisableMailConf(c) ==
    /\ mailConf[c] # NoMailConf
    /\ mailConf' = [mailConf EXCEPT ![c].status = "disabled"]
    /\ UNCHANGED <<mcPc, mcArg>>

MailConfNext ==
    \/ \E item \in ConfItems, v \in MailConfVals :
         \/ AddMailCertConf(item, v)
         \/ \E p \in MailCallers : AddOrEnableFind(p, item, v)
    \/ \E c \in MailConfIds :
         \/ DisableMailConf(c)
         \/ \E v \in MailConfVals : ModifyMailCertConf(c, v)
    \/ \E p \in MailCallers : AddOrEnableEnable(p) \/ AddOrEnableAdd(p)

-----------------------------------------------------------------------------
MailConfTypeOK ==
    /\ \A c \in MailConfIds :
         mailConf[c] \in {NoMailConf}
                         \cup [item : ConfItems, val : MailConfVals, status : {"enabled", "disabled"}]
    /\ mcPc \in [MailCallers -> {"idle", "enable", "add"}]

=============================================================================
