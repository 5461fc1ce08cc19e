------------------------------- MODULE Answers -------------------------------
(***************************************************************************)
(* What the assistant writes from a workspace's messages, and what becomes *)
(* of it when the messages change: cited answers (app/retrieval.py),       *)
(* invitation drafts and suggested replies of one invitee                  *)
(* (app/gatherings.py, app/pages.py), and their invalidation               *)
(* (ingest.invalidate).                                                    *)
(*                                                                         *)
(* A request keeps one READ COMMITTED transaction open while the model     *)
(* answers: what it read before the call is in `seen`, what it writes is   *)
(* seen by others when it ends.  One request of each kind runs at a time.  *)
(* The model's answer is any status and any subset of the labels it was    *)
(* shown; labels it was not shown are stripped.  Rows that answers, drafts *)
(* and suggestions rest on are pairs of a message and its version.         *)
(*                                                                         *)
(* `used` and `raced` are history: what the text was written from, and     *)
(* whether some of that changed while the request ran.                     *)
(***************************************************************************)
EXTENDS Integers, FiniteSets

CONSTANTS Messages,
          Replies,      \* those the invitee wrote
          MaxChanges,   \* bound: changes of messages
          MaxCalls,     \* bound: requests that ask the model
          MaxActs       \* bound: what the user does by hand

ASSUME AnswersAssumption ==
  Replies \subseteq Messages /\ MaxChanges \in Nat /\ MaxCalls \in Nat /\ MaxActs \in Nat

VARIABLES
  msg,         \* live, tombstone or gone
  ver,         \* its version
  facts,       \* the messages that active claims about the invitee cite
  leaving,     \* an exclusion under way: its message, and the answers, drafts
               \* and suggestion that it found to cite it
  answers,     \* answers
  drafts,      \* drafts for the invitee
  invitee,     \* event_people: status, suggested, by (suggested_source_id)
  behind,      \* the pair behind the suggestion, and whether it is raced
  call,        \* the request of each kind
  changes, calls, acts

messages == <<msg, ver, facts, leaving>>
written  == <<answers, drafts, invitee, behind>>
bounds   == <<changes, calls, acts>>
vars     == <<messages, written, call, bounds>>

Kinds    == {"ask", "draft", "rewrite", "check"}
Versions == 0..MaxChanges
Pairs    == Messages \X Versions
Statuses == {"awaiting_reply", "accepted", "maybe"}
Nobody   == "nobody"   \* NULL

Invitee == [status : Statuses, suggested : Statuses \cup {Nobody}, by : Messages \cup {Nobody}]
Ids     == 1..MaxCalls + MaxActs
Call    == [seen : SUBSET Pairs, raced : BOOLEAN, draft : {0} \cup Ids, text : 0..MaxActs, invitee : Invitee]
Written == [id : Ids, cites : SUBSET Pairs, used : SUBSET Pairs, stale : BOOLEAN, raced : BOOLEAN,
            text : 0..MaxActs]

TypeOK ==
  /\ msg \in [Messages -> {"live", "tombstone", "gone"}] /\ ver \in [Messages -> Versions]
  /\ facts \subseteq {m \in Messages : msg[m] = "live"}
  /\ Cardinality(leaving) <= 1
  /\ leaving \subseteq [msg : Messages, answers : SUBSET Ids, drafts : SUBSET Ids, suggestion : BOOLEAN]
  /\ answers \subseteq Written /\ drafts \subseteq Written
  /\ invitee \in Invitee
  /\ behind \in [pair : SUBSET Pairs, raced : BOOLEAN]
  /\ \A k \in Kinds : Cardinality(call[k]) <= 1 /\ call[k] \subseteq Call

Init ==
  /\ msg = [m \in Messages |-> "live"] /\ ver = [m \in Messages |-> 0]
  /\ facts = {} /\ leaving = {}
  /\ answers = {} /\ drafts = {}
  /\ invitee = [status |-> "awaiting_reply", suggested |-> Nobody, by |-> Nobody]
  /\ behind = [pair |-> {}, raced |-> FALSE]
  /\ call = [k \in Kinds |-> {}]
  /\ changes = 0 /\ calls = 0 /\ acts = 0

Now(S)        == {<<m, ver[m]>> : m \in S}
Live          == {m \in Messages : msg[m] = "live"}
Of(C)         == {p[1] : p \in C}
Citing(W, m)  == {w.id : w \in {x \in W : m \in Of(x.cites)}}
Without(C, m) == {p \in C : p[1] # m}
Leaving       == {l.msg : l \in leaving}

Text(id, cites, used, late, text) ==
  [id |-> id, cites |-> cites, used |-> used, stale |-> FALSE, text |-> text,
   raced |-> late \/ Of(used) \cap Leaving # {}]

NoSuggestion == [invitee EXCEPT !.suggested = Nobody, !.by = Nobody]

\* The row of the invitee is locked by an exclusion that clears its suggestion.
Unlocked == \A l \in leaving : ~l.suggestion

-----------------------------------------------------------------------------
(* Requests *)

Start(k, S, draft, text) ==
  /\ call[k] = {} /\ calls < MaxCalls
  /\ calls' = calls + 1
  /\ call' = [call EXCEPT ![k] = {[seen |-> Now(S), raced |-> FALSE, draft |-> draft, text |-> text,
                                    invitee |-> invitee]}]
  /\ UNCHANGED <<messages, written, changes, acts>>

Ended(k) == call' = [call EXCEPT ![k] = {}] /\ UNCHANGED <<messages, bounds>>

\* The model fails, or the request is rolled back.
Fails(k) == call[k] # {} /\ Ended(k) /\ UNCHANGED written

\* evidence_for: chunks cite their sources' versions, those that are current.
Ask(S) == S # {} /\ S \subseteq Live /\ Start("ask", S, 0, 0)

\* Mutant of Insertable: without the foreign key.
InsertableAlways(C) == TRUE

\* A citation needs its source's row, or the request fails; a row that is
\* being deleted is waited for.
Insertable(C) == \A m \in Of(C) : msg[m] # "gone"

\* Without a valid citation the answer says that it found nothing.
Answer(c, cited) ==
  /\ call["ask"] = {c}
  /\ Insertable(cited)
  /\ answers' = answers \cup {Text(calls, cited, cited, c.raced, 0)}
  /\ Ended("ask") /\ UNCHANGED <<drafts, invitee, behind>>

\* The existing draft is deleted first; the row stays locked until the end.
Draft ==
  \/ \E d \in drafts : Start("draft", facts, d.id, 0)
  \/ drafts = {} /\ Start("draft", facts, 0, 0)

Held == {d \in drafts : \E c \in call["draft"] : c.draft = d.id}

\* _store_draft reads the cited facts' sources again: it cites the versions
\* of then, and leaves out a source that is gone.
StoreDraft(c, cited) ==
  /\ call["draft"] = {c}
  /\ drafts' = (drafts \ Held) \cup
       {Text(calls, Now({m \in Of(cited) : msg[m] # "gone"}), cited, c.raced, 0)}
  /\ Ended("draft") /\ UNCHANGED <<answers, invitee, behind>>

Rewrite == \E d \in drafts \ Held : Start("rewrite", {}, d.id, d.text)

\* The text written from the one that was read; stale and the citations stay.
StoreRewrite(c) ==
  /\ call["rewrite"] = {c}
  /\ \E d \in drafts \ Held : d.id = c.draft
  /\ drafts' = {IF d.id = c.draft THEN [d EXCEPT !.text = c.text] ELSE d : d \in drafts}
  /\ Ended("rewrite") /\ UNCHANGED <<answers, invitee, behind>>

Check ==
  /\ invitee.status \in {"awaiting_reply", "maybe"}
  /\ Replies \cap Live # {}
  /\ Start("check", Replies \cap Live, 0, 0)

\* The ORM writes the columns that differ from those it loaded.
Column(loaded, new, current) == IF new = loaded THEN current ELSE new

Suggest(c, suggested, by) ==
  invitee' = [invitee EXCEPT !.suggested = Column(c.invitee.suggested, suggested, @),
                             !.by = Column(c.invitee.by, by, @)]

\* Mutant of StoreCheck: whatever the status is.
StoreCheckSame(c, status, p) ==
  /\ call["check"] = {c}
  /\ Unlocked
  /\ IF status # "unclear"
     THEN /\ Suggest(c, status, p[1])
          /\ behind' = [pair |-> {p}, raced |-> c.raced \/ p[1] \in Leaving]
     ELSE /\ Suggest(c, Nobody, Nobody)
          /\ behind' = [behind EXCEPT !.raced = @ \/ c.raced]
  /\ Ended("check") /\ UNCHANGED <<answers, drafts>>

\* suggest_rsvp: a stated status other than the one loaded, with its message.
StoreCheck(c, status, p) ==
  /\ call["check"] = {c}
  /\ Unlocked
  /\ IF status \notin {"unclear", c.invitee.status}
     THEN /\ Suggest(c, status, p[1])
          /\ behind' = [pair |-> {p}, raced |-> c.raced \/ p[1] \in Leaving]
     ELSE /\ Suggest(c, Nobody, Nobody)
          /\ behind' = [behind EXCEPT !.raced = @ \/ c.raced]
  /\ Ended("check") /\ UNCHANGED <<answers, drafts>>

-----------------------------------------------------------------------------
(* The user *)

Act == acts < MaxActs /\ acts' = acts + 1 /\ UNCHANGED <<messages, changes, calls>>

Raced(c) == {[x EXCEPT !.raced = TRUE] : x \in c}

\* set_status, also to accept the suggestion or, leaving the status, to dismiss
\* it; a check under way compares with the status it loaded.
SetStatus(status) ==
  /\ Act /\ Unlocked
  /\ invitee' = [NoSuggestion EXCEPT !.status = status]
  /\ behind' = [pair |-> {}, raced |-> FALSE]
  /\ call' = [call EXCEPT !["check"] = Raced(@)]
  /\ UNCHANGED <<answers, drafts>>

\* edit_draft and manual_draft: the user's own text, in a draft of its own
\* when there is none.
Save ==
  /\ Act
  /\ \/ \E d \in drafts \ Held : drafts' = (drafts \ {d}) \cup {[d EXCEPT !.text = acts']}
     \/ /\ drafts = {}
        /\ drafts' = {Text(MaxCalls + acts', {}, {}, FALSE, acts')}
  /\ UNCHANGED <<answers, invitee, behind, call>>

-----------------------------------------------------------------------------
(* Messages *)

Change == changes < MaxChanges /\ changes' = changes + 1 /\ UNCHANGED <<calls, acts>>

Touched(m) ==
  call' = [k \in Kinds |-> IF \E c \in call[k] : m \in Of(c.seen) THEN Raced(call[k]) ELSE call[k]]

\* Mutant of Invalidate: drafts keep their evidence.
InvalidateAnswers(m, A, D, suggestion) ==
  /\ facts' = facts \ {m}
  /\ answers' = {[a EXCEPT !.stale = @ \/ a.id \in A,
                           !.cites = IF a.id \in A THEN {} ELSE Without(@, m)] : a \in answers}
  /\ IF suggestion
     THEN invitee' = NoSuggestion /\ behind' = [pair |-> {}, raced |-> FALSE]
     ELSE UNCHANGED <<invitee, behind>>
  /\ Touched(m)
  /\ UNCHANGED drafts

\* invalidate, of the answers and drafts that were found to cite m.  An
\* answer's text goes, with all its citations; a draft is marked.  With the
\* row of m goes whatever else cites it.
Invalidate(m, A, D, suggestion) ==
  /\ facts' = facts \ {m}
  /\ answers' = {[a EXCEPT !.stale = @ \/ a.id \in A,
                           !.cites = IF a.id \in A THEN {} ELSE Without(@, m)] : a \in answers}
  /\ drafts' = {[d EXCEPT !.stale = @ \/ d.id \in D, !.cites = Without(@, m)] : d \in drafts}
  /\ IF suggestion
     THEN invitee' = NoSuggestion /\ behind' = [pair |-> {}, raced |-> FALSE]
     ELSE UNCHANGED <<invitee, behind>>
  /\ Touched(m)
  /\ \A d \in Held : m \notin Of(d.cites) /\ d.id \notin D

\* upsert, which holds the source's row: a change, or a tombstone.
Upsert(m) ==
  /\ Change
  /\ msg[m] # "gone" /\ m \notin Leaving
  /\ invitee.by = m => Unlocked
  /\ Invalidate(m, Citing(answers, m), Citing(drafts, m), invitee.by = m)
  /\ ver' = [ver EXCEPT ![m] = @ + 1]
  /\ \/ msg' = [msg EXCEPT ![m] = "live"]
     \/ msg[m] = "live" /\ msg' = [msg EXCEPT ![m] = "tombstone"]
  /\ UNCHANGED leaving

\* exclude and delete_provider_data: what cites the message is looked up ...
Leave(m) ==
  /\ Change
  /\ msg[m] # "gone" /\ leaving = {}
  /\ leaving' = {[msg |-> m, answers |-> Citing(answers, m), drafts |-> Citing(drafts, m),
                  suggestion |-> invitee.by = m]}
  /\ Touched(m)
  /\ UNCHANGED <<msg, ver, facts, written>>

\* ... and invalidated, and the source is deleted.
Gone(l) ==
  /\ l \in leaving
  /\ leaving' = {}
  /\ msg' = [msg EXCEPT ![l.msg] = "gone"]
  /\ Invalidate(l.msg, l.answers, l.drafts, l.suggestion)
  /\ UNCHANGED <<ver, bounds>>

\* Mutant of Extract: a late job does not look at the message again.
ExtractLate(m) ==
  /\ m \notin facts \cup Leaving
  /\ facts' = facts \cup {m}
  /\ UNCHANGED <<msg, ver, leaving, written, call, bounds>>

\* publish of a claim about the invitee.
Extract(m) ==
  /\ msg[m] = "live" /\ m \notin facts \cup Leaving
  /\ facts' = facts \cup {m}
  /\ UNCHANGED <<msg, ver, leaving, written, call, bounds>>
-----------------------------------------------------------------------------
User ==
  \/ \E S \in SUBSET Messages : Ask(S)
  \/ Draft
  \/ Rewrite
  \/ Check
  \/ \E status \in Statuses : SetStatus(status)
  \/ Save

Answered ==
  \/ \E c \in call["ask"] : \E cited \in SUBSET c.seen : Answer(c, cited)
  \/ \E c \in call["draft"] : \E cited \in SUBSET c.seen : StoreDraft(c, cited)
  \/ \E c \in call["rewrite"] : StoreRewrite(c)
  \/ \E c \in call["check"] :
       \E status \in {"accepted", "maybe", "unclear"}, p \in c.seen : StoreCheck(c, status, p)
  \/ \E k \in Kinds : Fails(k)

Ingest ==
  \/ \E m \in Messages : Upsert(m)
  \/ \E m \in Messages : Leave(m)
  \/ \E l \in leaving : Gone(l)
  \/ \E m \in Messages : Extract(m)

Next == User \/ Answered \/ Ingest

Spec == Init /\ [][Next]_vars

-----------------------------------------------------------------------------
(* Properties *)

Sound(w) == \A p \in w.used : p \in w.cites /\ msg[p[1]] = "live" /\ p[2] = ver[p[1]]

\* What answers and drafts say rests on what messages say now and cites it,
\* or they are marked: the evidence of the ones that are not has not changed
\* since, other than while they were being written.
WrittenSound == \A w \in answers \cup drafts : w.stale \/ w.raced \/ Sound(w)

\* A suggested reply is what a message says now and differs from the status,
\* unless one of them changed while the messages were being read.
SuggestionSound ==
  invitee.suggested # Nobody /\ ~behind.raced =>
    /\ behind.pair = Now({invitee.by})
    /\ msg[invitee.by] = "live"
    /\ invitee.suggested # invitee.status

\* Nothing quotes a message that was excluded, whatever was under way.
Forgotten ==
  \A m \in Messages : msg[m] = "gone" => Citing(answers \cup drafts, m) = {}

\* No answer or draft that is not marked contains deleted evidence.
DeletedMarked ==
  \A w \in answers \cup drafts : w.stale \/ \A p \in w.used : msg[p[1]] = "live"

\* A suggestion is cleared when its source is excluded or deleted.
SuggestionLive == invitee.suggested # Nobody => msg[invitee.by] = "live"

\* A text that the user saved is not replaced by an older one.
SavesKept ==
  [][\A d \in drafts, e \in drafts' : d.id = e.id => e.text >= d.text]_vars
=============================================================================
