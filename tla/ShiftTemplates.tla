---------------------------- MODULE ShiftTemplates ----------------------------
(***************************************************************************)
(* The shift templates of one organisation (src/src/routes/shifts.ts): the   *)
(* two flags that make a template apply without an assignment (default,      *)
(* org-wide) and its publication, which the fallback that looks a template   *)
(* up requires.                                                              *)
(*                                                                         *)
(* Every handler that sets a flag is a READ COMMITTED transaction: one       *)
(* statement clears the flag of other templates, the next writes its own.    *)
(* The rows the first statement touches are those it saw when it started; of *)
(* a row another transaction has changed meanwhile, PostgreSQL re-evaluates  *)
(* the newest version and never looks for further rows.  A transaction is    *)
(* therefore two steps: the statement's snapshot, and all that follows it.   *)
(***************************************************************************)
EXTENDS Naturals, FiniteSets

CONSTANTS
  Shifts,   \* identifiers of templates
  Admins    \* requests of managers of templates in progress

Flags == {"def", "wide"}

VARIABLES
  exists,    \* the templates that have a row
  flag,      \* the templates of each flag: is_default, is_org_wide
  listed,    \* the templates with is_published
  tx,        \* what a request has read and is about to write
  together   \* history: two requests that clear a flag by its value overlapped

templateVars == <<exists, flag, listed, tx, together>>

NoTx == [op |-> "none"]
\* on, off: the flags the body sets and clears; turning: the flags that the
\* row read did not have; stale: the rows the clearing statement has matched.
Tx == [op : {"create", "put", "default", "wide"}, id : Shifts,
       on : SUBSET Flags, off : SUBSET Flags, turning : SUBSET Flags,
       at : {"clear", "write"}, stale : [Flags -> SUBSET Shifts]]

TemplateTypeOK ==
  /\ exists \subseteq Shifts
  /\ flag \in [Flags -> SUBSET exists]
  /\ listed \subseteq exists
  /\ tx \in [Admins -> Tx \cup {NoTx}]
  /\ together \in BOOLEAN

TemplateInit ==
  /\ exists \in SUBSET Shifts
  /\ flag = [f \in Flags |-> {}]
  /\ listed = {}
  /\ tx = [c \in Admins |-> NoTx]
  /\ together = FALSE

-----------------------------------------------------------------------------
\* PUT /shifts/:id/set-default matches every template of the organisation, so
\* two of them wait for each other; all the others match flagged rows only.
ClearsAll(op) == op = "default"
Overlap(c, op) ==
  \E d \in Admins \ {c} : tx[d].op # "none" /\ ~(ClearsAll(op) /\ ClearsAll(tx[d].op))

\* A request has passed its checks on the row it read.
Begin(c, op, s, on, off, turning) ==
  /\ tx[c] = NoTx
  /\ tx' = [tx EXCEPT ![c] = [op |-> op, id |-> s, on |-> on, off |-> off, turning |-> turning,
                              at |-> "clear", stale |-> [f \in Flags |-> {}]]]
  /\ together' = (together \/ Overlap(c, op))
  /\ UNCHANGED <<exists, flag, listed>>

\* A new template gets an identifier that no request knows.
Unknown(s) ==
  /\ s \notin exists
  /\ \A d \in Admins : tx[d].op # "none" => tx[d].id # s /\ \A f \in Flags : s \notin tx[d].stale[f]

\* POST /shifts
CreateShift(c, s) ==
  \E on \in SUBSET Flags :
    /\ Unknown(s)
    /\ Begin(c, "create", s, on, {}, on)

\* PUT /shifts/:id: a flag is turned on when the row that was read lacks it.
PutShift(c, s) ==
  \E on, off \in SUBSET Flags :
    /\ s \in exists /\ on \cap off = {}
    /\ Begin(c, "put", s, on, off, {f \in on : s \notin flag[f]})

\* PUT /shifts/:id/set-default
SetDefault(c, s) == s \in exists /\ Begin(c, "default", s, {"def"}, {}, {"def"})

\* PUT /shifts/:id/set-org-wide with org_wide true
SetOrgWide(c, s) == s \in exists /\ Begin(c, "wide", s, {"wide"}, {}, {"wide"})

\* PUT /shifts/:id/set-org-wide with org_wide false: one update by id
ClearOrgWide(s) ==
  /\ s \in exists
  /\ flag' = [flag EXCEPT !["wide"] = @ \ {s}]
  /\ UNCHANGED <<exists, listed, tx, together>>

\* Mutant: a request that turns on both flags clears the default only.
ClearFlagsFirst(c) ==
  /\ tx[c].op # "none" /\ tx[c].at = "clear"
  /\ tx' = [tx EXCEPT ![c].at = "write",
                      ![c].stale = [f \in Flags |-> IF f \in tx[c].turning /\ (f = "def" \/ tx[c].turning = {f})
                                                    THEN IF ClearsAll(tx[c].op) THEN exists ELSE flag[f] ELSE {}]]
  /\ UNCHANGED <<exists, flag, listed, together>>

\* The statement that clears the flags starts and matches its rows.
ClearFlags(c) ==
  /\ tx[c].op # "none" /\ tx[c].at = "clear"
  /\ tx' = [tx EXCEPT ![c].at = "write",
                      ![c].stale = [f \in Flags |-> IF f \notin tx[c].turning THEN {}
                                                    ELSE IF ClearsAll(tx[c].op) THEN exists ELSE flag[f]]]
  /\ UNCHANGED <<exists, flag, listed, together>>

\* A template that turns a flag on is published with it.
Publishes(t) == t.turning # {}

\* The matched rows lose the flag, the template gets the columns of the body,
\* and the transaction commits; an update of a deleted row rolls it back.
CommitFlags(c) ==
  LET t == tx[c]
  IN  /\ t.op # "none" /\ t.at = "write"
      /\ tx' = [tx EXCEPT ![c] = NoTx]
      /\ UNCHANGED together
      /\ \/ /\ t.op = "create" \/ t.id \in exists
            /\ exists' = exists \cup {t.id}
            /\ flag' = [f \in Flags |-> ((flag[f] \ t.stale[f]) \cup (IF f \in t.on THEN {t.id} ELSE {}))
                                          \ (IF f \in t.off THEN {t.id} ELSE {})]
            /\ listed' = IF Publishes(t) THEN listed \cup {t.id} ELSE listed
         \/ /\ t.op # "create" /\ t.id \notin exists
            /\ UNCHANGED <<exists, flag, listed>>

\* DELETE /shifts/:id
DeleteTemplate(s) ==
  /\ s \in exists
  /\ exists' = exists \ {s}
  /\ flag' = [f \in Flags |-> flag[f] \ {s}]
  /\ listed' = listed \ {s}
  /\ UNCHANGED <<tx, together>>

TemplateNext ==
  \/ \E c \in Admins : ClearFlags(c) \/ CommitFlags(c)
  \/ \E c \in Admins, s \in Shifts :
       CreateShift(c, s) \/ PutShift(c, s) \/ SetDefault(c, s) \/ SetOrgWide(c, s)
  \/ \E s \in Shifts : ClearOrgWide(s)

-----------------------------------------------------------------------------
(* Properties *)

\* A default or org-wide template is published: the fallback that applies it
\* filters on is_published, whatever the order of requests and stale reads.
FlaggedIsPublished == \A f \in Flags : flag[f] \subseteq listed

\* At most one template is the default and at most one is org-wide, unless two
\* requests overlapped of which one clears the flag by its value (POST, PUT,
\* set-org-wide); requests to set-default alone never leave two.
OneOfEachFlag == together \/ \A f \in Flags : Cardinality(flag[f]) <= 1

\* The template a fallback applies is published and, but for overlapping requests
\* that clear a flag by its value, the only one with its flag.
TemplatesSafe == TemplateTypeOK /\ FlaggedIsPublished /\ OneOfEachFlag
=============================================================================
