------------------------------ MODULE RunControl ------------------------------
(***************************************************************************)
(* A run from its options to its report: Syncer.Run with the folder plan,  *)
(* the search and the selection, the folders in flight, the health record  *)
(* they share, the credential their connections are dialled with, and the  *)
(* second pass.                                                            *)
(* What a folder does with its mail is FolderPipeline and MessageCopy;     *)
(* here a folder is a worker that performs one operation after another and *)
(* decides, by retry.Classify, what a failure costs.                       *)
(*                                                                         *)
(* An error is the set of things that can be found in it: errors are       *)
(* wrapped, so one error may be several at once.                           *)
(***************************************************************************)
EXTENDS FolderPlan, MessageSelection, SearchKey

CONSTANTS
  Accounts,     \* what a run may find: folders, mail, options and its troubles
  Width,        \* source connections, so folders in flight (src.Cap)
  Attempts,     \* Retry.Attempts
  Ceiling,      \* GiveUpAfter
  MaxTokens,    \* bound: the issuer mints no more than this
  Answers,      \* the errors a command may come back with
  DialErrors    \* the errors a dial may end in before the login is answered

NoToken == 0
ASSUME ControlAssumption ==
  /\ Width \in Nat \ {0} /\ Attempts \in Nat \ {0}
  /\ Ceiling \in Nat \ {0} /\ MaxTokens \in Nat \ {0}

\* Only the limiter says "rate", and what it says is no answer.
ASSUME ErrorsAssumption == \A e \in Answers \cup DialErrors : e # {} /\ "rate" \notin e

\* Listings are finite, and whatever names a mailbox is a name.
ASSUME AccountsAssumption ==
  \A a \in Accounts :
    /\ IsFiniteSet(a.source) /\ IsFiniteSet(a.dest)
    /\ \A f \in a.source \cup a.dest : f.name \in Names
    /\ {a.opts.subfolder, a.opts.srcPrefix, a.opts.dstPrefix} \subseteq Names
    /\ \A n \in DOMAIN a.opts.mappings : a.opts.mappings[n] \in Names

VARIABLES
  account,      \* the account of this run
  filter,       \* s.filter
  phase,        \* where Run is
  plan,         \* the folder.Plan
  creates,      \* createFolders: the names still to create
  made,         \* the destination's mailboxes
  queue,        \* pass: the folders its loop has not come to
  folder,       \* the folders' workers and their reports
  ctx,          \* "live", "cancelled" by the caller, "expired", "stopped" by health
  inARow,       \* health.inARow
  reason,       \* health.reason is set
  result,       \* what Run returns
  resolved,     \* the dialer's once: "not" yet, "yes", or "failed" for good
  held,         \* tokenCredential.held
  good,         \* the tokens the server accepts
  minted,       \* tokens issued so far
  troubles,     \* bound: what may still go wrong
  refused,      \* ghost: tokens the server refused
  streak,       \* ghost: failures since something was copied
  earned        \* ghost: the run was given up after Ceiling of them

runVars   == <<account, filter, phase, plan, creates, made, queue, result>>
healthVars == <<ctx, inARow, reason, streak, earned>>
tokenVars == <<resolved, held, good, minted, refused>>
vars == <<runVars, healthVars, tokenVars, folder, troubles>>

-----------------------------------------------------------------------------
(***************************************************************************)
(* retry.Classify and throttle.classifiable                                *)
(***************************************************************************)
ContextErrors == {"canceled", "deadline"}

\* What an error is asked, in this order: the first yes decides.
Questions == << <<ContextErrors, "Stop">>, << {"gone"}, "Skip">>, << {"broken"}, "Again">>,
                << {"capacity"}, "Slower">>, << {"auth"}, "Stop">>, << {"limit"}, "Slower">>,
                << {"refused", "bad"}, "Skip">>, << {"busyText"}, "Slower">>,
                << {"eof", "netTimeout"}, "Again">>, << {"connRefused"}, "Slower">>,
                << {"noHost"}, "Stop">>, << {"dns"}, "Slower">> >>

\* Classify: an error nobody recognises is skipped.
Classify(err) ==
  LET yes == { i \in DOMAIN Questions : Questions[i][1] \cap err # {} }
  IN IF yes = {} THEN "Skip" ELSE Questions[CHOOSE i \in yes : \A j \in yes : i <= j][2]

\* classifiable: a limiter that declines to wait past the context's deadline
\* says so in an error of its own.
Classifiable(err, hasDeadline) ==
  IF err \cap ContextErrors = {} /\ hasDeadline THEN err \cup {"deadline"} ELSE err

\* retryable: a folder that was cut short by its context is not tried again.
Retryable(err) == err # {} /\ err \cap ContextErrors = {}

-----------------------------------------------------------------------------
(***************************************************************************)
(* The folders' workers                                                    *)
(***************************************************************************)
\* A folder before its first pass.  step: what it does next; link: how far its
\* connection is; todo: the messages it has still to go through.
Fresh == [ step |-> "queued", link |-> "none", token |-> NoToken, attempt |-> 0,
           todo |-> {}, doubt |-> {}, err |-> {}, passes |-> 0,
           copied |-> {}, failed |-> {}, blame |-> {} ]

Over(w, err) == [w EXCEPT !.step = "over", !.err = err, !.doubt = {}]

Mail(f) == account.mail[f]
Stuck(w) == CHOOSE m \in w.todo : \A n \in w.todo : m <= n

\* There is another attempt to be had after this many.
AttemptsLeft(attempt) == attempt + 1 < Attempts

\* fail: the message that stopped the worker is recorded and passed over.
WrittenOff(w, err) ==
  LET m    == Stuck(w)
      next == [w EXCEPT !.todo = @ \ {m}, !.failed = @ \cup {m}, !.blame = @ \cup err,
                        !.attempt = 0, !.doubt = {}]
  IN IF next.todo = {} THEN Over(next, {}) ELSE next

\* What chunkMeta and the loop of fetchChunk do with an error: the run or the
\* folder stops, the operation is tried again, or the message is written off.
Decide(w, err) ==
  LET kind == Classify(err)
  IN IF w.step = "prepare" \/ kind = "Stop" THEN Over(w, err)
     ELSE IF kind \in {"Again", "Slower"} /\ AttemptsLeft(w.attempt)
       THEN [w EXCEPT !.attempt = @ + 1, !.doubt = {}]
     ELSE IF w.step = "meta" THEN Over(w, err)
     ELSE WrittenOff(w, err)

\* A connection an error has spoilt is not used again.
Discarded(w, err) ==
  IF err \cap {"broken", "eof", "canceled", "deadline"} # {} THEN [w EXCEPT !.link = "none"] ELSE w

Working(f) == folder[f].step \in {"prepare", "meta", "copy"} /\ folder[f].doubt = {}
Live == ctx = "live"

\* health.trouble: one more in a row; at the ceiling the worker goes on to set
\* the reason and stop the run before it decides.
Trouble(f, w, err) ==
  LET spoilt == Discarded(w, err)
  IN IF w.step = "prepare"
       THEN /\ folder' = [folder EXCEPT ![f] = Decide(spoilt, err)]
            /\ UNCHANGED healthVars
       ELSE /\ inARow' = inARow + 1
            /\ folder' = [folder EXCEPT ![f] = IF inARow + 1 < Ceiling THEN Decide(spoilt, err)
                                               ELSE [spoilt EXCEPT !.doubt = err]]
            /\ streak' = (IF Live THEN streak + 1 ELSE streak)
            /\ earned' = (earned \/ streak' >= Ceiling)
            /\ UNCHANGED <<ctx, reason>>

\* Mutant: a success that leaves the count alone.
ForgetsNothing == inARow

\* health.progress: the count is consecutive.
Progress == 0

\* The rest of health.trouble, under the lock, and stop(reason).
GiveUp(f) ==
  /\ folder[f].doubt # {}
  /\ reason' = TRUE
  /\ ctx' = (IF Live THEN "stopped" ELSE ctx)
  /\ folder' = [folder EXCEPT ![f] = Decide(folder[f], folder[f].doubt)]
  /\ UNCHANGED <<runVars, inARow, streak, earned, tokenVars, troubles>>

-----------------------------------------------------------------------------
(***************************************************************************)
(* The credential: Secret and Refresh run under its lock, so each is one   *)
(* step.  A minting command may fail, hand out a new token, or repeat the  *)
(* one it gave last.                                                       *)
(***************************************************************************)
\* What source(ctx) may answer: a token, or NoToken for an error.
Mintable == { t \in {minted + 1} : t <= MaxTokens }
            \cup { t \in {NoToken, minted} : troubles > 0 \/ minted = MaxTokens }

\* source(ctx): only a new token is accepted by the server, and not always.
Mint(t) ==
  /\ t \in Mintable
  /\ minted' = (IF t > minted THEN t ELSE minted)
  /\ \/ t > minted /\ good' = good \cup {t} /\ UNCHANGED troubles
     \/ t > minted /\ troubles > 0 /\ troubles' = troubles - 1 /\ UNCHANGED good
     \/ t <= minted /\ UNCHANGED good
          /\ troubles' = (IF troubles > 0 THEN troubles - 1 ELSE 0)

\* dialer: the first dial resolves the endpoint for the whole pool, and what
\* came of it, an error too, is what every later dial finds.
Resolve(f) ==
  /\ Working(f) /\ folder[f].link = "none" /\ Live
  /\ \/ /\ resolved = "not"
        /\ \/ resolved' = "yes" /\ UNCHANGED <<folder, healthVars, troubles>>
           \/ /\ troubles > 0 /\ troubles' = troubles - 1
              /\ resolved' = "failed" /\ Trouble(f, folder[f], {"unknown"})
     \/ /\ resolved = "failed"
        /\ Trouble(f, folder[f], {"unknown"}) /\ UNCHANGED <<resolved, troubles>>
  /\ UNCHANGED <<runVars, held, good, minted, refused>>

\* Secret: what is held, or a token minted under the lock.
Secret(f) ==
  /\ Working(f) /\ folder[f].link = "none" /\ resolved = "yes" /\ Live
  /\ \/ /\ held # NoToken
        /\ folder' = [folder EXCEPT ![f] = [@ EXCEPT !.link = "login", !.token = held]]
        /\ UNCHANGED <<healthVars, held, minted, good, troubles>>
     \/ /\ held = NoToken
        /\ \E t \in 0..MaxTokens :
             /\ Mint(t) /\ held' = t
             /\ IF t = NoToken
                  THEN Trouble(f, folder[f], {"unknown"})
                  ELSE /\ folder' = [folder EXCEPT ![f] = [@ EXCEPT !.link = "login", !.token = t]]
                       /\ UNCHANGED healthVars
  /\ UNCHANGED <<runVars, resolved, refused>>

\* authenticate and offer: the server takes the token.
Accepted(f) ==
  /\ folder[f].token \in good
  /\ folder' = [folder EXCEPT ![f].link = "up"]
  /\ UNCHANGED <<healthVars, troubles, refused>>

\* It turns it down, or drops the line while it is being asked: the first time
\* the credential is asked for a better one, the second time the dial is over.
TurnedDown(f) ==
  LET w == folder[f] IN
  /\ w.token \notin good \/ troubles > 0
  /\ troubles' = IF w.token \in good THEN troubles - 1 ELSE troubles
  /\ refused' = refused \cup {w.token}
  /\ IF w.link = "login"
       THEN /\ folder' = [folder EXCEPT ![f].link = "renew"]
            /\ UNCHANGED healthVars
       ELSE Trouble(f, [w EXCEPT !.link = "none"], {"auth"})

\* dialRaw: the server is not reached.
Unreached(f) ==
  /\ troubles > 0 /\ troubles' = troubles - 1
  /\ \E e \in DialErrors : Trouble(f, [folder[f] EXCEPT !.link = "none"], e)
  /\ UNCHANGED refused

\* Dial and establish.
Login(f) ==
  /\ Working(f) /\ folder[f].link \in {"login", "again"} /\ Live
  /\ Accepted(f) \/ TurnedDown(f) \/ Unreached(f)
  /\ UNCHANGED <<runVars, resolved, held, good, minted>>

\* Mutant: whoever is refused mints.
AlwaysMints(token) == TRUE

\* Refresh mints when what was refused is what is still held.
MustMint(token) == held = NoToken \/ held = token

\* A password has nothing better to offer.
Declines(f) ==
  /\ account.password
  /\ Trouble(f, [folder[f] EXCEPT !.link = "none"], {"auth"})
  /\ UNCHANGED <<held, good, minted, troubles>>

\* Of a token's workers, those who find another one held take it.
TakesHeld(f) ==
  /\ ~account.password /\ ~MustMint(folder[f].token)
  /\ folder' = [folder EXCEPT ![f] = [@ EXCEPT !.link = "again", !.token = held]]
  /\ UNCHANGED <<healthVars, held, good, minted, troubles>>

\* The others mint; what fails, or is the token just refused, is no better.
MintsAnew(f) ==
  LET w == folder[f] IN
  /\ ~account.password /\ MustMint(w.token)
  /\ \E t \in 0..MaxTokens :
       /\ Mint(t)
       /\ \/ /\ t \notin {NoToken, w.token}
             /\ held' = t
             /\ folder' = [folder EXCEPT ![f] = [@ EXCEPT !.link = "again", !.token = t]]
             /\ UNCHANGED healthVars
          \/ /\ t \in {NoToken, w.token}
             /\ UNCHANGED held
             /\ Trouble(f, [w EXCEPT !.link = "none"], {"auth"})

Renew(f) ==
  /\ Working(f) /\ folder[f].link = "renew" /\ Live
  /\ Declines(f) \/ TakesHeld(f) \/ MintsAnew(f)
  /\ UNCHANGED <<runVars, resolved, refused>>

\* A token comes to its end at the server.
Expire ==
  /\ troubles > 0 /\ good # {}
  /\ troubles' = troubles - 1
  /\ good' = {}
  /\ UNCHANGED <<runVars, healthVars, resolved, held, minted, refused, folder>>

-----------------------------------------------------------------------------
(***************************************************************************)
(* The operations of a folder, on a connection that is up                  *)
(***************************************************************************)
\* searchedInto: a search narrows what is to be copied before it is read.
SearchedInto(f, todo) == todo \cap Evaluate(account.search, Mail(f))

\* prepareFolder: what an earlier pass copied is done.
Opened(f, w) ==
  LET todo == SearchedInto(f, DOMAIN Mail(f) \ w.copied)
  IN IF todo = {} THEN Over(w, {}) ELSE [w EXCEPT !.step = "meta", !.todo = todo]

\* chunkMeta and selected: what the filter excludes is not gone through.
Read(f, w) ==
  LET todo == { m \in w.todo : Active(filter) => Wants(filter, Mail(f)[m], account.now) }
  IN IF todo = {} THEN Over(w, {}) ELSE [w EXCEPT !.step = "copy", !.todo = todo, !.attempt = 0]
Copied(w) ==
  LET m    == Stuck(w)
      next == [w EXCEPT !.todo = @ \ {m}, !.copied = @ \cup {m}, !.attempt = 0]
  IN IF next.todo = {} THEN Over(next, {}) ELSE next

Succeed(f) ==
  LET w == folder[f] IN
  /\ Working(f) /\ w.link = "up"
  /\ \/ /\ w.step = "prepare" /\ folder' = [folder EXCEPT ![f] = Opened(f, w)]
        /\ UNCHANGED <<inARow, streak>>
     \/ /\ w.step = "meta" /\ folder' = [folder EXCEPT ![f] = Read(f, w)]
        /\ UNCHANGED <<inARow, streak>>
     \/ /\ w.step = "copy" /\ w.todo # {}
        /\ folder' = [folder EXCEPT ![f] = Copied(w)]
        /\ inARow' = Progress /\ streak' = 0
  /\ UNCHANGED <<runVars, ctx, reason, earned, tokenVars, troubles>>

\* The server, or the network, answers with an error.
Refuse(f) ==
  /\ Working(f) /\ folder[f].link = "up" /\ Live /\ troubles > 0
  /\ troubles' = troubles - 1
  /\ \E e \in Answers : Trouble(f, folder[f], e)
  /\ UNCHANGED <<runVars, tokenVars>>

\* Limiter.Wait: the allowance would come after the context's deadline.
Throttled(f) ==
  /\ Working(f) /\ folder[f].step = "copy" /\ folder[f].link = "up"
  /\ Live /\ account.throttled /\ account.deadline
  /\ Trouble(f, folder[f], Classifiable({"rate"}, account.deadline))
  /\ UNCHANGED <<runVars, tokenVars, troubles>>

\* Whatever a worker is at when its context is done, dial, command or pause,
\* fails; the failure may look like a broken connection as well.
Interrupted(f) ==
  /\ Working(f) /\ ~Live
  /\ \E e \in IF ctx = "expired" THEN { {"deadline"} } ELSE { {"canceled"}, {"broken", "canceled"} } :
       Trouble(f, folder[f], e)
  /\ UNCHANGED <<runVars, tokenVars, troubles>>

\* The caller cancels, or the deadline passes.
End ==
  /\ Live /\ phase # "over"
  /\ \/ troubles > 0 /\ troubles' = troubles - 1 /\ ctx' = "cancelled"
     \/ account.deadline /\ troubles' = troubles /\ ctx' = "expired"
  /\ UNCHANGED <<runVars, inARow, reason, streak, earned, tokenVars, folder>>

-----------------------------------------------------------------------------
(***************************************************************************)
(* Run                                                                     *)
(***************************************************************************)
Return(r) == phase' = "over" /\ result' = r

\* searchFlag: a search that cannot be read ends the run before it starts.
ReadSearch ==
  /\ phase = "options"
  /\ \/ account.search # <<>> /\ ~Parses(account.search) /\ Return("unsearchable")
     \/ (account.search # <<>> => Parses(account.search)) /\ phase' = "filter" /\ UNCHANGED result
  /\ UNCHANGED <<account, filter, plan, creates, made, queue, healthVars, tokenVars, folder, troubles>>

\* resolveFilter: a destination that is not reached leaves the filter as it is.
ResolveFilter ==
  /\ phase = "filter"
  /\ \/ /\ ~Valid(account.filter) /\ Return("invalid") /\ UNCHANGED <<filter, troubles>>
     \/ /\ Valid(account.filter) /\ phase' = "plan" /\ UNCHANGED result
        /\ \/ /\ Live /\ filter' = CapSize(account.filter, account.appendLimit)
              /\ UNCHANGED troubles
           \/ /\ ~Live \/ troubles > 0
              /\ troubles' = (IF Live THEN troubles - 1 ELSE troubles)
              /\ filter' = account.filter
  /\ UNCHANGED <<account, plan, creates, made, queue, healthVars, tokenVars, folder>>

\* plan: both listings, and folder.Build.
PlanRun ==
  /\ phase = "plan"
  /\ \/ /\ ~Live \/ troubles > 0
        /\ troubles' = (IF Live THEN troubles - 1 ELSE troubles)
        /\ Return("unplanned") /\ UNCHANGED <<plan, creates, folder>>
     \/ /\ Live /\ UNCHANGED troubles
        /\ LET p == Build(account.source, account.dest, account.opts) IN
             \/ /\ ~p.ok /\ Return("collision") /\ UNCHANGED <<plan, creates, folder>>
             \/ /\ p.ok /\ phase' = "create" /\ UNCHANGED result
                /\ plan' = p.pairs /\ creates' = p.creates
                /\ folder' = [f \in { q.source : q \in p.pairs } |-> Fresh]
  /\ UNCHANGED <<account, filter, made, queue, healthVars, tokenVars>>

\* A server that creates no missing parents.
TakesName(name) == \A p \in Parents(name) : Existing(p, made) # {}

\* createFolders: one CREATE after another; the first that fails ends the run.
CreateNext ==
  /\ phase = "create" /\ creates # <<>>
  /\ \/ /\ Live /\ TakesName(Head(creates))
        /\ made' = made \cup { [name |-> Head(creates), attr |-> NoRole, selectable |-> TRUE] }
        /\ creates' = Tail(creates)
        /\ UNCHANGED <<phase, result, troubles>>
     \/ /\ ~Live \/ ~TakesName(Head(creates)) \/ troubles > 0
        /\ troubles' = (IF Live /\ troubles > 0 THEN troubles - 1 ELSE troubles)
        /\ Return("uncreated") /\ UNCHANGED <<made, creates>>
  /\ UNCHANGED <<account, filter, plan, queue, healthVars, tokenVars, folder>>

\* Folders in the order of their names.
Listed(names) == InOrder(names, ByName(names))

StartPass ==
  /\ phase = "create" /\ creates = <<>>
  /\ phase' = "first" /\ queue' = Listed(DOMAIN folder)
  /\ UNCHANGED <<account, filter, plan, creates, made, result, healthVars, tokenVars, folder, troubles>>

Passing == phase \in {"first", "second"}
Cleared == { f \in DOMAIN folder : folder[f].step = "cleared" }
InFlight == { f \in DOMAIN folder : folder[f].step \in {"prepare", "meta", "copy"} }

\* The loop of pass: the context is looked at, then g.Go waits for a free place.
NextFolder ==
  /\ Passing /\ queue # <<>> /\ Cleared = {}
  /\ \/ Live /\ queue' = Tail(queue) /\ folder' = [folder EXCEPT ![Head(queue)].step = "cleared"]
     \/ ~Live /\ queue' = <<>> /\ UNCHANGED folder
  /\ UNCHANGED <<account, filter, phase, plan, creates, made, result, healthVars, tokenVars, troubles>>

LaunchFolder(f) ==
  LET w == folder[f] IN
  /\ f \in Cleared /\ Cardinality(InFlight) < Width
  /\ folder' = [folder EXCEPT ![f] =
       [w EXCEPT !.step = "prepare", !.err = {}, !.failed = {}, !.attempt = 0, !.passes = w.passes + 1]]
  /\ UNCHANGED <<runVars, healthVars, tokenVars, troubles>>

\* The folders of the second pass.
Again == { f \in DOMAIN folder : folder[f].step = "over" /\ Retryable(folder[f].err) }

\* The run's own verdict outranks the cancellation it caused.
Verdict == IF reason THEN "verdict" ELSE IF Live THEN "ok" ELSE ctx

\* g.Wait, then the second pass or the report.
EndPass ==
  /\ Passing /\ queue = <<>>
  /\ \A f \in DOMAIN folder : folder[f].step \in {"queued", "over"}
  /\ \/ /\ phase = "first" /\ Again # {} /\ Live
        /\ phase' = "second" /\ queue' = Listed(Again) /\ UNCHANGED result
        /\ folder' = [f \in DOMAIN folder |->
                        IF f \in Again THEN [folder[f] EXCEPT !.step = "queued"] ELSE folder[f]]
     \/ /\ phase = "second" \/ Again = {} \/ ~Live
        /\ Return(Verdict) /\ UNCHANGED <<queue, folder>>
  /\ UNCHANGED <<account, filter, plan, creates, made, healthVars, tokenVars, troubles>>

Finished == phase = "over" /\ UNCHANGED vars

-----------------------------------------------------------------------------
\* CredentialFor: a password is held from the start, a token has to be fetched.
HeldAtFirst == IF account.password THEN 1 ELSE NoToken

Init ==
  /\ account \in Accounts
  /\ filter = account.filter /\ phase = "options" /\ plan = {} /\ creates = <<>>
  /\ made = account.dest /\ queue = <<>> /\ folder = [f \in {} |-> Fresh]
  /\ ctx = "live" /\ inARow = 0 /\ reason = FALSE /\ result = "running"
  /\ resolved = "not" /\ troubles = account.troubles
  /\ held = HeldAtFirst
  /\ good = (IF account.password THEN {held} ELSE {}) /\ minted = held
  /\ refused = {} /\ streak = 0 /\ earned = FALSE

FolderStep(f) ==
  \/ GiveUp(f) \/ Resolve(f) \/ Secret(f) \/ Login(f) \/ Renew(f) \/ Succeed(f) \/ Refuse(f)
  \/ Throttled(f) \/ Interrupted(f) \/ LaunchFolder(f)

Next ==
  \/ ReadSearch \/ ResolveFilter \/ PlanRun \/ CreateNext \/ StartPass \/ NextFolder \/ EndPass
  \/ Finished \/ Expire \/ End
  \/ \E f \in DOMAIN folder : FolderStep(f)

Spec == Init /\ [][Next]_vars

-----------------------------------------------------------------------------
(***************************************************************************)
(* Properties                                                              *)
(***************************************************************************)
\* The plan never merges two source mailboxes into one destination.
NeverMerged ==
  \A p, q \in plan : p.source # q.source => FoldName(p.dest) # FoldName(q.dest)

\* No CREATE meets a server that has not got its parent yet.
ParentsFirst == creates # <<>> => TakesName(Head(creates))

\* No folder is copied before every destination mailbox exists.
DestinationReady ==
  InFlight # {} => \A p \in plan : Existing(p.dest, made) # {}

\* The plan is safe to carry out: nothing is merged, every CREATE can be
\* answered, and no worker starts before the tree stands (folder.Build,
\* createOrder, createFolders).
PlanHonoured == NeverMerged /\ ParentsFirst /\ DestinationReady

\* A run that gave up had met Ceiling failures with nothing copied in between,
\* and one that met them gives up; what it returns is that verdict.  (A caller
\* that cancels makes every worker count one more; nothing is claimed then.)
VerdictEarned ==
  /\ reason /\ ctx = "stopped" => earned
  /\ earned => reason \/ \E f \in DOMAIN folder : folder[f].doubt # {}
  /\ phase = "over" /\ reason => result = "verdict"
  /\ result \in {"cancelled", "expired"} => ctx = result

\* A message is written off for what the server or the network said of it, never
\* because the run was ending, or would end before its turn came.
NobodyBlamedForTheEnd ==
  \A f \in DOMAIN folder : folder[f].blame \cap (ContextErrors \cup {"rate"}) = {}

\* A run that returns without an error has reported every folder, and has tried
\* again each one that failed for a reason of its own.
SecondChance ==
  result = "ok" => \A f \in DOMAIN folder :
    \/ folder[f].passes = 2
    \/ folder[f].passes = 1 /\ ~Retryable(folder[f].err)

\* What the options ask for, by regions instead of comparisons: an age bound
\* keeps a region of days, and two bounds keep the band their regions share or,
\* if they share none, both.
Days == -5..50
KeptDays ==
  LET recent == { d \in Days : account.filter.maxAge > 0 => d <= account.filter.maxAge }
      old    == { d \in Days : account.filter.minAge > 0 => d >= account.filter.minAge }
  IN IF recent \cap old # {} THEN recent \cap old ELSE recent \cup old
AskedFor(f) ==
  { m \in DOMAIN Mail(f) :
      /\ account.search # <<>> => m \in UNION Meaning(account.search, Mail(f))
      /\ account.now - BasisDate(account.filter, Mail(f)[m]) \in KeptDays
      /\ ~ \E bound \in {account.filter.maxSize} \ {0} : Mail(f)[m].size >= bound
      /\ ~ \E bound \in {account.filter.minSize} \ {0} : Mail(f)[m].size <= bound }
Storable(f) ==
  { m \in DOMAIN Mail(f) : account.appendLimit > 0 => Mail(f)[m].size <= account.appendLimit }

\* A folder without an error has gone through the messages asked for, those the
\* destination can store at least, and through no other.
SelectionKept ==
  \A f \in DOMAIN folder : folder[f].step = "over" /\ folder[f].err = {} =>
    LET through == folder[f].copied \cup folder[f].failed IN
      /\ through \subseteq AskedFor(f)
      /\ AskedFor(f) \cap Storable(f) \subseteq through
      /\ filter # account.filter => through \subseteq Storable(f)

\* The report can be believed: why the run ended, what was written off, and
\* which folders had their second chance (health, retry.Classify, classifiable,
\* retryable).
ReportTells == VerdictEarned /\ NobodyBlamedForTheEnd /\ SecondChance

\* A search is refused, before anything is connected, unless it is a sentence of
\* the grammar; the criteria made of it select what the sentence means, however
\* its keys are nested and in whatever row they stand (searchkey.Parse, and,
\* matches).
SearchMeansWhatItSays ==
  account.search # <<>> =>
    /\ result = "unsearchable" => \A f \in DOMAIN account.mail : Meaning(account.search, Mail(f)) = {}
    /\ phase = "filter" => \A f \in DOMAIN account.mail :
         Meaning(account.search, Mail(f)) = {Evaluate(account.search, Mail(f))}

\* What is copied is what the options ask for, and what the search means
\* (searchkey.Parse, CapSize, Wants).
SelectionHonoured == SelectionKept /\ SearchMeansWhatItSays

\* A token is replaced only after the server refused that very token: of the
\* workers that meet one expiry, one mints and the others take what it got
\* (tokenCredential.Refresh).
MintsOnlyRefused == [][held' # held => held = NoToken \/ held \in refused]_vars
=============================================================================
