------------------------------ MODULE AlasPolicy ------------------------------
(* What one embedded ALAS page may do over its WebSocket: the ids of the      *)
(* callbacks and of the tasks ALAS advertises are registered on their way down *)
(* to the browser, and a message on its way up is forwarded, dropped or ends   *)
(* the session by what is registered (PyWebIOSessionPolicy of                  *)
(* src/app/alas_embed_policy.py). The registry is bounded: a full one gives up *)
(* its oldest entry. What makes a label, a field or a text restricted is the   *)
(* input of the model; what becomes of it is the model.                        *)
EXTENDS Naturals, Sequences, FiniteSets

CONSTANTS
  CallbackIds,      \* ids ALAS gives to buttons and options, numbered as it gives them
  TaskIds,          \* ids ALAS gives to input groups and browser tasks
  Options,          \* names of options (pin_onchange)
  FormFields,       \* names of fields of an input group
  Forbidden,        \* those the name of which is restricted
  Capacities,       \* what ALAS_POLICY_REGISTRY_MAX_ENTRIES may be
  MaxRenders        \* bound: messages of ALAS; two buttons in one fit the registry

ASSUME PolicyAssumption ==
  /\ CallbackIds \subseteq Nat /\ TaskIds \subseteq Nat /\ CallbackIds \cap TaskIds = {}
  /\ Forbidden \subseteq FormFields
  /\ Capacities \subseteq Nat \ {0} /\ MaxRenders \in Nat

VARIABLES
  rights,           \* can_run, can_edit
  registry_capacity,
  entries,          \* callbacks and tasks: what an id still allowed needs
  refused,          \* denied_callbacks and denied_tasks
  allowed_order,    \* _allowed_order: ids by the time they were allowed
  pin_callbacks,    \* the id each option now has
  saturated,        \* _registry_saturated
  open,             \* no message of the browser has ended the session
  renders,          \* messages of ALAS so far
  advertised,       \* for each id, what its last advertisement asked for
  sent,             \* ids ALAS has given out
  tainted,          \* ids once withheld from the browser or restricted
  superseded,       \* ids of options rendered again with another
  latest            \* new ids the last message of ALAS gave the browser

registryVars == <<entries, refused, allowed_order, saturated>>
policyVars == <<rights, registry_capacity, registryVars, pin_callbacks, open, renders, advertised, sent,
                tainted, superseded, latest>>

Widgets == CallbackIds \cup TaskIds
Unregistered == [needs |-> {}, kind |-> "none", fields |-> {}, barred |-> {}]

\* The registry, as the value the methods pass along.
Registry == [entries |-> entries, refused |-> refused, order |-> allowed_order,
             saturated |-> saturated]
Known(r) == DOMAIN r.entries
Without(f, ids) == [w \in DOMAIN f \ ids |-> f[w]]

PolicyInit ==
  /\ rights \in SUBSET {"run", "edit"} /\ registry_capacity \in Capacities
  /\ entries = <<>> /\ refused = {} /\ allowed_order = <<>> /\ saturated = FALSE
  /\ pin_callbacks = <<>> /\ renders = 0
  /\ open = TRUE
  /\ advertised = [w \in Widgets |-> {}]
  /\ sent = {} /\ tainted = {} /\ superseded = {} /\ latest = {}

-------------------------------------------------------------------------------
\* An id is no longer allowed; that it was refused is remembered while there is
\* room among everything registered.
Refuse(r, w) ==
  LET popped == [r EXCEPT !.entries = Without(@, {w})]
      room == Cardinality(Known(popped)) + Cardinality(r.refused) < registry_capacity
  IN  IF w \in r.refused THEN popped
      ELSE IF room THEN [popped EXCEPT !.refused = @ \cup {w}]
      ELSE [popped EXCEPT !.saturated = TRUE]

\* The end of the order taken for its beginning: the newest gives way.
EvictNewest(r) ==
  LET last == CHOOSE i \in DOMAIN r.order :
                /\ r.order[i] \in Known(r)
                /\ \A j \in (i + 1)..Len(r.order) : r.order[j] \notin Known(r)
  IN  [r EXCEPT !.entries = Without(@, {r.order[last]}),
                !.order = SubSeq(@, 1, last - 1), !.saturated = TRUE]

\* The oldest id still allowed gives way.
EvictOldest(r) ==
  LET first == CHOOSE i \in DOMAIN r.order :
                 /\ r.order[i] \in Known(r)
                 /\ \A j \in 1..(i - 1) : r.order[j] \notin Known(r)
  IN  [r EXCEPT !.entries = Without(@, {r.order[first]}),
                !.order = SubSeq(@, first + 1, Len(@)), !.saturated = TRUE]

\* A new id gets a place even in a full registry.
ReserveSlot(r) == IF Cardinality(Known(r)) < registry_capacity THEN r ELSE EvictOldest(r)

\* What two advertisements of an id ask for together; one that changes its kind
\* is a conflict.
Merged(a, b) ==
  [needs |-> a.needs \cup b.needs \cup (IF a.kind # b.kind THEN {"restricted"} ELSE {}),
   kind |-> b.kind, fields |-> a.fields \cup b.fields, barred |-> a.barred \cup b.barred]

Allow(r, w, asked) ==
  IF w \in r.refused \/ "restricted" \in asked.needs THEN Refuse(r, w)
  ELSE IF w \notin Known(r)
  THEN LET s == ReserveSlot(r)
       IN  [s EXCEPT !.entries = [v \in Known(s) \cup {w} |-> IF v = w THEN asked ELSE @[v]],
                     !.order = Append(@, w)]
  ELSE LET both == Merged(r.entries[w], asked)
       IN  IF "restricted" \in both.needs THEN Refuse(r, w)
           ELSE [r EXCEPT !.entries[w] = both]

\* Ids that were released pile up in the order: it is rebuilt, callbacks before
\* tasks, each in the order it was last registered.
LastRegistered(r, ids, i) ==
  /\ r.order[i] \in Known(r) \cap ids
  /\ \A j \in (i + 1)..Len(r.order) : r.order[j] # r.order[i]
Standing(r, ids) ==
  LET upTo[i \in 0..Len(r.order)] ==
        IF i = 0 THEN <<>>
        ELSE IF LastRegistered(r, ids, i) THEN Append(upTo[i - 1], r.order[i]) ELSE upTo[i - 1]
  IN  upTo[Len(r.order)]

TrimOrder(r) ==
  IF Len(r.order) <= 2 * registry_capacity THEN r
  ELSE [r EXCEPT !.order = Standing(r, CallbackIds) \o Standing(r, TaskIds)]

\* An option rendered again: the id it had is released, not refused.
ReleaseSuperseded(r, name, w) ==
  LET old == IF name \in DOMAIN pin_callbacks THEN {pin_callbacks[name]} \ {w} ELSE {}
  IN  TrimOrder([r EXCEPT !.entries = Without(@, old)])

-------------------------------------------------------------------------------
\* One advertisement of a message of ALAS: the id, what it asks for, and whether
\* the filter leaves it in what the browser gets.
Asking(needs, kind, fields, barred) ==
  [needs |-> needs, kind |-> kind, fields |-> fields, barred |-> barred]

CallbackAds ==
  {[id |-> w, shown |-> TRUE, asked |-> Asking(needs, "callback", {}, {})]
     : w \in CallbackIds, needs \in {{}, {"run"}, {"restricted"}}}
  \cup {[id |-> w, shown |-> FALSE, asked |-> Asking({}, "callback", {}, {})] : w \in CallbackIds}

\* What the filter takes out of an input group is barred from its answers; an
\* input group as a whole is never restricted, a browser task is when any part is.
InputAds ==
  {[id |-> t, shown |-> TRUE, asked |-> Asking({}, "input", kept, Forbidden \cup (FormFields \ kept))]
     : t \in TaskIds, kept \in {FormFields, FormFields \ Forbidden}}
YieldAds ==
  {[id |-> t, shown |-> TRUE,
    asked |-> Asking(IF f \cap Forbidden # {} THEN {"restricted"} ELSE {}, "yield", f, {})]
     : t \in TaskIds, f \in {{g} : g \in FormFields}}
HiddenTasks ==
  {[id |-> t, shown |-> FALSE, asked |-> Asking({}, "input", {}, {})] : t \in TaskIds}

\* A message is registered: what the filter kept back or is restricted is refused,
\* then what the browser gets is allowed.
Withheld(a) == ~a.shown \/ (a.id \in CallbackIds /\ "restricted" \in a.asked.needs)

RefuseWithheld(r, ads) ==
  LET upTo[i \in 0..Len(ads)] ==
        IF i = 0 THEN r
        ELSE IF Withheld(ads[i]) THEN Refuse(upTo[i - 1], ads[i].id) ELSE upTo[i - 1]
  IN  upTo[Len(ads)]

AllowShown(r, ads) ==
  LET upTo[i \in 0..Len(ads)] ==
        IF i = 0 THEN r
        ELSE IF ads[i].shown THEN Allow(upTo[i - 1], ads[i].id, ads[i].asked) ELSE upTo[i - 1]
  IN  upTo[Len(ads)]

Observed(r, ads) == AllowShown(RefuseWithheld(r, ads), ads)

Harmless(a) == a.shown /\ "restricted" \notin a.asked.needs

Becomes(r) ==
  /\ entries' = r.entries /\ refused' = r.refused
  /\ allowed_order' = r.order /\ saturated' = r.saturated

\* What the browser was sent and what was ever withheld, for the properties.
Recorded(ads) ==
  /\ renders < MaxRenders /\ renders' = renders + 1
  /\ advertised' = [w \in Widgets |->
       IF \E i \in DOMAIN ads : ads[i].id = w
       THEN UNION {ads[i].asked.needs \cup (IF ads[i].shown THEN {} ELSE {"hidden"}) :
                     i \in {j \in DOMAIN ads : ads[j].id = w}}
       ELSE advertised[w]]
  /\ tainted' = tainted \cup {ads[i].id : i \in {j \in DOMAIN ads : ~Harmless(ads[j])}}
  /\ latest' = {ads[i].id : i \in {j \in DOMAIN ads : Harmless(ads[j])}} \ sent
  /\ sent' = sent \cup {ads[i].id : i \in DOMAIN ads}

\* PyWebIO gives an option a fresh id whenever it renders it: an id that was
\* superseded does not come back, and ids are given out in their order.
Alive(w, before) ==
  /\ w \notin superseded
  /\ w \in CallbackIds => \A v \in CallbackIds : v < w => v \in before

\* An output with one or two buttons, or one command with a task of its own.
Renders(ads) ==
  /\ open
  /\ \A i \in DOMAIN ads : Alive(ads[i].id, sent \cup {ads[j].id : j \in 1..(i - 1)})
  /\ \A i, j \in DOMAIN ads : ads[i].id = ads[j].id => i = j
  /\ Becomes(Observed(Registry, ads)) /\ Recorded(ads)
  /\ UNCHANGED <<rights, registry_capacity, pin_callbacks, superseded, open>>

\* An option is announced with the id it has from now on; to change it is an edit.
RendersOption(name, w) ==
  LET ad == [id |-> w, shown |-> TRUE, asked |-> Asking({"edit"}, "callback", {}, {})]
      old == IF name \in DOMAIN pin_callbacks THEN {pin_callbacks[name]} \ {w} ELSE {}
  IN  /\ open /\ Alive(w, sent)
      /\ Becomes(Observed(ReleaseSuperseded(Registry, name, w), <<ad>>)) /\ Recorded(<<ad>>)
      /\ pin_callbacks' = [n \in DOMAIN pin_callbacks \cup {name} |->
                             IF n = name THEN w ELSE pin_callbacks[n]]
      /\ superseded' = superseded \cup old
      /\ UNCHANGED <<rights, registry_capacity, open>>

-------------------------------------------------------------------------------
\* A click on a button or an option; a text that breaks the rules by itself ends
\* the session before the id is looked at.
CallbackAnswer(w, violates) ==
  IF violates \/ w \in refused THEN "close"
  ELSE IF w \notin DOMAIN entries THEN "drop"
  ELSE IF entries[w].needs \subseteq rights THEN "forward" ELSE "close"

\* The answer to a task: cancelled, yielded, or fields of an input group.
TaskAnswer(w, event, fields) ==
  LET e == entries[w]
      wanted == IF event = "js_yield" THEN "yield" ELSE "input"
  IN  IF w \in refused THEN "close"
      ELSE IF w \notin DOMAIN entries THEN "drop"
      ELSE IF e.kind # wanted THEN "drop"
      ELSE IF event \in {"from_cancel", "js_yield"} THEN "forward"
      ELSE IF /\ "edit" \in rights
              /\ fields \subseteq e.fields
              /\ fields \cap (e.barred \cup Forbidden) = {}
           THEN "forward" ELSE "close"

\* What is forwarded or dropped leaves the policy as it is; the rest closes the
\* connection and the policy goes with it.
ClosesOr(what) ==
  /\ open /\ open' = (what # "close")
  /\ UNCHANGED <<rights, registry_capacity, registryVars, pin_callbacks, renders, advertised, sent, tainted,
                 superseded, latest>>

Click(w) == \E violates \in BOOLEAN : ClosesOr(CallbackAnswer(w, violates))
Reply(w) ==
  \E event \in {"from_cancel", "js_yield", "input_event", "from_submit"}, fields \in SUBSET FormFields :
    ClosesOr(TaskAnswer(w, event, fields))

PolicyNext ==
  \/ \E a \in CallbackAds : Renders(<<a>>)
  \/ \E a, b \in {c \in CallbackAds : c.asked.needs = {}} :
       registry_capacity > 1 /\ Renders(<<a, b>>)
  \/ \E a \in InputAds \cup YieldAds \cup HiddenTasks : Renders(<<a>>)
  \/ \E n \in Options, w \in CallbackIds : RendersOption(n, w)
  \/ \E w \in CallbackIds : Click(w)
  \/ \E w \in TaskIds : Reply(w)

PolicySpec == PolicyInit /\ [][PolicyNext]_policyVars

-------------------------------------------------------------------------------
\* The registry stays within its capacity, an id is not both allowed and refused,
\* and every id allowed can still be found when room is needed.
RegistryBounded ==
  /\ Cardinality(DOMAIN entries) <= registry_capacity
  /\ Cardinality(refused) <= registry_capacity
  /\ DOMAIN entries \cap refused = {}
  /\ DOMAIN entries \subseteq {allowed_order[i] : i \in DOMAIN allowed_order}

\* However ids are evicted, merged and forgotten, an id is allowed only as its
\* last advertisement reached the browser, and for no less than that asked for;
\* while the registry never filled up, what was once withheld stays refused.
NeverBeyondAdvertised ==
  /\ \A w \in DOMAIN entries :
       /\ advertised[w] \cap {"hidden", "restricted"} = {}
       /\ advertised[w] \subseteq entries[w].needs
  /\ ~saturated => tainted \subseteq refused
  /\ \A w \in CallbackIds : CallbackAnswer(w, FALSE) = "forward" => advertised[w] \subseteq rights

\* A new id the browser just received is known, full registry or not: its click
\* is not lost ("it must never turn an id the browser just received into an
\* unknown one"). Not so for an id sent again, which keeps its old place in the
\* order and may be the oldest.
JustReceivedKnown == latest \subseteq DOMAIN entries

\* An option rendered again leaves no entry behind, and a late click on the old
\* one is dropped without ending the session.
StaleClickDropped ==
  \A w \in superseded : w \notin DOMAIN entries /\ (w \notin tainted => w \notin refused)

PolicySound == RegistryBounded /\ NeverBeyondAdvertised /\ JustReceivedKnown /\ StaleClickDropped
===============================================================================
