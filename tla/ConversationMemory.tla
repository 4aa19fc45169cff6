------------------------- MODULE ConversationMemory -------------------------
(***************************************************************************)
(* The dialogue a session remembers (src/agent/conversation-memory.ts).    *)
(* After a run its question and its reply are appended; what no longer     *)
(* fits is folded into one summary.  When the customer approves a switch   *)
(* to another message (resolveTargetSwitch) all of it is dropped, and the  *)
(* dialogue starts anew.  A text is its length.                            *)
(***************************************************************************)
EXTENDS Integers, Sequences

CONSTANTS
    Lengths,             \* lengths of the texts users and models write
    MaxEntries,          \* 6 in the code
    MaxSingleMessage, MaxRecentConversation, MaxHistorySummary,  \* ContextBudget
    MaxTurns             \* bound of the number of exchanges

ASSUME BudgetAssumption ==
    /\ Lengths \subseteq Nat \ {0}
    /\ MaxEntries \in Nat /\ MaxEntries >= 2
    /\ MaxSingleMessage \in Nat \ {0} /\ MaxHistorySummary \in Nat \ {0}
    /\ MaxRecentConversation \in Nat /\ MaxRecentConversation >= 2
    /\ MaxTurns \in Nat

VARIABLES
    turns,         \* exchanges so far
    dropped,       \* how many of them were before the last approved switch
    recent,        \* recentConversation
    summarized,    \* historySummary.summarizedMessages, 0 without a summary
    summary        \* length of historySummary.text

memory == <<turns, dropped, recent, summarized, summary>>

-----------------------------------------------------------------------------
LesserOf(m, n) == IF m <= n THEN m ELSE n

Roles == {"user", "assistant"}

Entries == [turn : 1..MaxTurns, role : Roles, length : Nat]

Characters(entries) ==
    LET total[n \in 0..Len(entries)] ==
            IF n = 0 THEN 0 ELSE total[n - 1] + entries[n].length
    IN  total[Len(entries)]

\* Mutated form: a question and its reply may each take all the room.
PerEntryUnshared == LesserOf(MaxSingleMessage, MaxRecentConversation)

\* So that an exchange always fits, however long its texts.
PerEntryBudget == LesserOf(MaxSingleMessage, MaxRecentConversation \div 2)

Exchange(question, reply) ==
    LET entry(role, length) ==
            [turn |-> turns + 1, role |-> role,
             length |-> LesserOf(length, PerEntryBudget)]
    IN  <<entry("user", question), entry("assistant", reply)>>

Fits(entries) ==
    /\ Len(entries) <= MaxEntries
    /\ Characters(entries) <= MaxRecentConversation

\* The oldest entries go until the rest fits: as few as possible.
Evicted(entries) ==
    CHOOSE n \in 0..Len(entries) :
        /\ Fits(SubSeq(entries, n + 1, Len(entries)))
        /\ \A m \in 0..(n - 1) : ~Fits(SubSeq(entries, m + 1, Len(entries)))

RecordConversationExchange ==
    /\ turns < MaxTurns
    /\ \E question, reply \in Lengths :
        LET entries == recent \o Exchange(question, reply)
            n == Evicted(entries)
        IN  /\ recent' = SubSeq(entries, n + 1, Len(entries))
            /\ summarized' = summarized + n
            /\ summary' = LesserOf(summary + Characters(SubSeq(entries, 1, n)),
                                   MaxHistorySummary)
    /\ turns' = turns + 1
    /\ UNCHANGED dropped

\* A run that starts with an approved switch.  Two runs since the last one have
\* recorded their exchange: that which located the message that is left, and
\* that which offered the switch.  This run's own exchange is recorded when it
\* ends; if it fails the session stays as it was before.
ApproveTargetSwitch ==
    /\ dropped + 2 <= turns
    /\ recent' = <<>> /\ summarized' = 0 /\ summary' = 0
    /\ dropped' = turns
    /\ UNCHANGED turns

MemoryInit == turns = 0 /\ dropped = 0 /\ recent = <<>> /\ summarized = 0 /\ summary = 0

-----------------------------------------------------------------------------
(* Properties.                                                             *)

\* Of what was said since the last approved switch nothing is lost uncounted:
\* the entries kept are the latest ones, in order, the others are counted in
\* the summary, and the exchange that was just recorded is kept, however long
\* its texts are.  Of what was said before, nothing is kept, counted or
\* summarized.
MemoryConserved ==
    /\ summarized + Len(recent) = 2 * (turns - dropped)
    /\ \A i \in 1..Len(recent) :
          LET n == summarized + i IN
          /\ recent[i].turn = dropped + (n + 1) \div 2
          /\ recent[i].role = IF n % 2 = 1 THEN "user" ELSE "assistant"
    /\ turns > dropped => Len(recent) >= 2
    /\ summarized = 0 => summary = 0
    /\ Fits(recent)
=============================================================================
