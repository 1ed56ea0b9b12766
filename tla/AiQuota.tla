------------------------------- MODULE AiQuota --------------------------------
(* AI chats of one tenant: the dashboard assistant (services/ai_gateway.py)   *)
(* and the storefront's (services/storefront_ai_gateway.py), which share the  *)
(* tenant's monthly token quota in Redis (services/ai_quota.py).              *)
(*                                                                            *)
(* A Redis command is atomic and survives a failed request; what a request    *)
(* writes to the database is private until it commits, and the row or unique  *)
(* key it has written is locked until it ends.                                *)
EXTENDS Integers, Sequences, FiniteSetsExt

CONSTANTS
    Chats,      \* chat requests
    Users,      \* dashboard users and visitor sessions, one conversation each
    UserOf,     \* who sends a chat
    Estimate,   \* _ESTIMATED_TOKENS of the gateway a chat goes through
    Usages,     \* tokens_in + tokens_out a provider may report
    HardLimit,  \* the plan's ai_token_quota, 0 for unlimited
    RateLimit,  \* messages a user may send in a window
    LastMonth,  \* bound: the months of a run are 1..LastMonth
    Nobody

Months == 1..LastMonth

ASSUME QuotaAssumption ==
    /\ IsFiniteSet(Chats)
    /\ UserOf \in [Chats -> Users]
    /\ Estimate \in [Chats -> Nat \ {0}]
    /\ Usages \subseteq Nat
    /\ HardLimit \in Nat
    /\ RateLimit \in [Users -> Nat]
    /\ LastMonth \in Nat \ {0}
    /\ Nobody \notin Chats

VARIABLES
    used,       \* used[m]: the counter ai:quota:{tenant}:month:{m}
    month,      \* the current month
    hits,       \* hits[k]: the counter of the rate key of user k
    timed,      \* the rate keys that have an expiry
    conv,       \* conv[k]: the chats in the messages of k's conversation, older
                \* messages left out
    created,    \* the users whose conversation row is committed
    log,        \* committed usage-log rows, in commit order
    holder,     \* holder[k]: who has k's conversation row or unique key locked
    pc,         \* what each chat does next
    count,      \* count[c]: what INCR of the rate key returned
    loaded,     \* loaded[c]: the messages c has read
    tokens,     \* tokens[c]: what the provider reported
    booked,     \* history: the month c was reserved in, 0 if it was not
    settled     \* history: the month c was adjusted or given back in, or 0

redis == <<used, hits, timed>>
database == <<conv, created, log>>
local == <<count, loaded, tokens>>
vars == <<redis, month, database, holder, pc, local, booked, settled>>

-----------------------------------------------------------------------------
Goto(c, s) == pc' = [pc EXCEPT ![c] = s]

\* The transaction of c ends; what it had locked is free.
End(c, outcome) ==
    /\ Goto(c, outcome)
    /\ holder' = [k \in Users |-> IF holder[k] = c THEN Nobody ELSE holder[k]]

\* INCRBY or DECRBY of the counter of month m.
Count(m, delta) == used' = [used EXCEPT ![m] = @ + delta]

Init ==
    /\ used = [m \in Months |-> 0]
    /\ month = 1
    /\ hits = [k \in Users |-> 0]
    /\ timed = {}
    /\ conv = [k \in Users |-> <<>>]
    /\ created \in SUBSET Users
    /\ log = <<>>
    /\ holder = [k \in Users |-> Nobody]
    /\ pc = [c \in Chats |-> "idle"]
    /\ count = [c \in Chats |-> 0]
    /\ loaded = [c \in Chats |-> <<>>]
    /\ tokens = [c \in Chats |-> 0]
    /\ booked = [c \in Chats |-> 0]
    /\ settled = [c \in Chats |-> 0]

\* check_rate_limit: INCR of the user's key.
HitRate(c) ==
    LET k == UserOf[c] IN
    /\ pc[c] = "idle"
    /\ hits' = [hits EXCEPT ![k] = @ + 1]
    /\ count' = [count EXCEPT ![c] = hits[k] + 1]
    /\ Goto(c, IF hits[k] = 0 THEN "expire" ELSE "reserve")
    /\ UNCHANGED <<used, timed, month, database, holder, loaded, tokens, booked, settled>>

\* EXPIRE, when INCR returned 1.
SetExpiry(c) ==
    /\ pc[c] = "expire"
    /\ timed' = timed \cup {UserOf[c]}
    /\ Goto(c, "reserve")
    /\ UNCHANGED <<used, hits, month, database, holder, local, booked, settled>>

\* 429: more messages than the window allows.
RateLimited(c) ==
    /\ pc[c] = "reserve" /\ count[c] > RateLimit[UserOf[c]]
    /\ End(c, "refused")
    /\ UNCHANGED <<redis, month, database, local, booked, settled>>

\* Mutant: the total is compared before the estimate is added.
ReserveOnOldTotal(c) ==
    /\ pc[c] = "reserve" /\ count[c] <= RateLimit[UserOf[c]]
    /\ HardLimit > 0
    /\ Count(month, Estimate[c])
    /\ booked' = [booked EXCEPT ![c] = month]
    /\ Goto(c, IF used[month] > HardLimit THEN "deny" ELSE "load")
    /\ UNCHANGED <<hits, timed, month, database, holder, local, settled>>

\* reserve_tokens: INCRBY, and the new total decides. No quota, no reservation.
Reserve(c) ==
    /\ pc[c] = "reserve" /\ count[c] <= RateLimit[UserOf[c]]
    /\ IF HardLimit > 0
       THEN /\ Count(month, Estimate[c])
            /\ booked' = [booked EXCEPT ![c] = month]
            /\ Goto(c, IF used'[month] > HardLimit THEN "deny" ELSE "load")
       ELSE Goto(c, "load") /\ UNCHANGED <<used, booked>>
    /\ UNCHANGED <<hits, timed, month, database, holder, local, settled>>

\* Over the limit: DECRBY of the same key, 429.
Deny(c) ==
    /\ pc[c] = "deny"
    /\ Count(booked[c], -Estimate[c])
    /\ settled' = [settled EXCEPT ![c] = booked[c]]
    /\ End(c, "refused")
    /\ UNCHANGED <<hits, timed, month, database, local, booked>>

\* Mutant: the conversation is looked up by tenant alone.
LoadAnyConversation(c) ==
    /\ pc[c] = "load"
    /\ IF created # {}
       THEN \E k \in created : loaded' = [loaded EXCEPT ![c] = conv[k]] /\ Goto(c, "call")
       ELSE Goto(c, "insert") /\ UNCHANGED loaded
    /\ UNCHANGED <<redis, month, database, holder, count, tokens, booked, settled>>

\* _get_or_create_conversation, the select.
LoadConversation(c) ==
    LET k == UserOf[c] IN
    /\ pc[c] = "load"
    /\ IF k \in created
       THEN loaded' = [loaded EXCEPT ![c] = conv[k]] /\ Goto(c, "call")
       ELSE Goto(c, "insert") /\ UNCHANGED loaded
    /\ UNCHANGED <<redis, month, database, holder, count, tokens, booked, settled>>

\* The insert of a new one. It waits for another chat that is writing the row;
\* a row that is there by then is an IntegrityError, which gives nothing back.
InsertConversation(c) ==
    LET k == UserOf[c] IN
    /\ pc[c] = "insert" /\ holder[k] = Nobody
    /\ IF k \in created
       THEN End(c, "failed")
       ELSE holder' = [holder EXCEPT ![k] = c] /\ Goto(c, "call")
    /\ UNCHANGED <<redis, month, database, local, booked, settled>>

\* The provider answers, having used u tokens.
Answer(c) ==
    /\ pc[c] = "call"
    /\ \E u \in Usages : tokens' = [tokens EXCEPT ![c] = u]
    /\ Goto(c, "adjust")
    /\ UNCHANGED <<redis, month, database, holder, count, loaded, booked, settled>>

\* The provider fails or times out: rollback_tokens, of the current month's key.
ProviderFails(c) ==
    /\ pc[c] = "call"
    /\ Count(month, -Estimate[c])
    /\ settled' = [settled EXCEPT ![c] = month]
    /\ End(c, "failed")
    /\ UNCHANGED <<hits, timed, month, database, local, booked>>

\* Mutant: the actual usage is added to the estimate instead of replacing it.
AdjustByActual(c) ==
    /\ pc[c] = "adjust"
    /\ Count(month, tokens[c])
    /\ settled' = [settled EXCEPT ![c] = month]
    /\ Goto(c, "save")
    /\ UNCHANGED <<hits, timed, month, database, holder, local, booked>>

\* adjust_tokens by actual - estimated, of the current month's key.
Adjust(c) ==
    /\ pc[c] = "adjust"
    /\ Count(month, tokens[c] - Estimate[c])
    /\ settled' = [settled EXCEPT ![c] = month]
    /\ Goto(c, "save")
    /\ UNCHANGED <<hits, timed, month, database, holder, local, booked>>

\* flush: UPDATE of the conversation by id with the messages read and two more.
Save(c) ==
    /\ pc[c] = "save" /\ holder[UserOf[c]] \in {c, Nobody}
    /\ holder' = [holder EXCEPT ![UserOf[c]] = c]
    /\ Goto(c, "commit")
    /\ UNCHANGED <<redis, month, database, local, booked, settled>>

\* Conversation and usage log commit together.
Commit(c) ==
    /\ pc[c] = "commit"
    /\ conv' = [conv EXCEPT ![UserOf[c]] = Append(loaded[c], c)]
    /\ created' = created \cup {UserOf[c]}
    /\ log' = Append(log, c)
    /\ End(c, "done")
    /\ UNCHANGED <<redis, month, local, booked, settled>>

Ended == {"done", "refused", "failed"}

\* Any other exception, or the end of the process: the database forgets c, Redis
\* does not.
Crash(c) ==
    /\ pc[c] \notin {"idle"} \cup Ended
    /\ End(c, "failed")
    /\ UNCHANGED <<redis, month, database, local, booked, settled>>

\* Redis drops a rate key whose time is over.
WindowEnds(k) ==
    /\ k \in timed
    /\ hits' = [hits EXCEPT ![k] = 0]
    /\ timed' = timed \ {k}
    /\ UNCHANGED <<used, month, database, holder, pc, local, booked, settled>>

NextMonth ==
    /\ month < LastMonth
    /\ month' = month + 1
    /\ UNCHANGED <<redis, database, holder, pc, local, booked, settled>>

\* A chat that waits for a lock which nobody frees would be a deadlock here.
AllEnded == (\A c \in Chats : pc[c] \in Ended) /\ UNCHANGED vars

Step(c) ==
    \/ HitRate(c) \/ SetExpiry(c) \/ RateLimited(c) \/ Reserve(c) \/ Deny(c)
    \/ LoadConversation(c) \/ InsertConversation(c)
    \/ Answer(c) \/ ProviderFails(c) \/ Adjust(c) \/ Save(c) \/ Commit(c)

Next ==
    \/ \E c \in Chats : Step(c) \/ Crash(c)
    \/ \E k \in Users : WindowEnds(k)
    \/ NextMonth
    \/ AllEnded

Spec == Init /\ [][Next]_vars

-----------------------------------------------------------------------------
QuotaTypeOK ==
    /\ used \in [Months -> Int]
    /\ month \in Months
    /\ hits \in [Users -> Nat]
    /\ timed \subseteq Users
    /\ conv \in [Users -> Seq(Chats)]
    /\ created \subseteq Users
    /\ log \in Seq(Chats)
    /\ holder \in [Users -> Chats \cup {Nobody}]
    /\ pc \in [Chats -> {"idle", "expire", "reserve", "deny", "load", "insert",
                         "call", "adjust", "save", "commit"} \cup Ended]
    /\ count \in [Chats -> Nat]
    /\ loaded \in [Chats -> Seq(Chats)]
    /\ tokens \in [Chats -> Nat]
    /\ booked \in [Chats -> {0} \cup Months]
    /\ settled \in [Chats -> {0} \cup Months]

Total(f, cs) == MapThenSumSet(LAMBDA c : f[c], cs)
Excess == [c \in Chats |-> IF tokens[c] > Estimate[c] THEN tokens[c] - Estimate[c] ELSE 0]

\* ADR-0004 line 48, "Hard limit: request blocked": the tokens of the chats
\* admitted in a month, with the estimates of those still running, exceed the
\* quota by no more than the answers exceeded their estimates and the chats that
\* came over from an earlier month have taken off the counter, however the
\* reservations race.
HardLimitHolds ==
    HardLimit > 0 =>
        \A m \in Months :
            LET of_m == {c \in Chats : booked[c] = m}
                carried == {c \in Chats : settled[c] = m /\ booked[c] # m}
            IN  Total(tokens, of_m)
                  + Total(Estimate, {c \in of_m : pc[c] \in {"load", "insert", "call"}})
                <= HardLimit + Total(Excess, of_m) + Total(Estimate, carried)

\* ADR-0004 line 100, "Failed provider calls do not consume quota": once every
\* chat that touched a month's counter has been settled in it, the counter is
\* the sum of what the provider reported, whatever was denied or failed.
FailedCallsFree ==
    HardLimit > 0 =>
        \A m \in Months :
            LET touched == {c \in Chats : m \in {booked[c], settled[c]}}
            IN  (\A c \in touched : booked[c] = settled[c])
                    => used[m] = Total(tokens, touched)

\* A conversation is of its own user and the usage log knows all of it: its
\* messages are committed chats of that user, each once, in commit order.
ConversationIsOwn ==
    \A k \in Users : \A i \in DOMAIN conv[k] :
        /\ UserOf[conv[k][i]] = k
        /\ \E n \in DOMAIN log :
              /\ log[n] = conv[k][i]
              /\ \A j \in 1..(i - 1) : \E p \in 1..(n - 1) : log[p] = conv[k][j]

\* ai_gateway.py line 197, "Save conversation (append user + assistant
\* messages)": an answered message stays in its user's conversation.
HistoryKeepsChats ==
    \A c \in Chats : pc[c] = "done" =>
        \E i \in DOMAIN conv[UserOf[c]] : conv[UserOf[c]][i] = c
=============================================================================
