--------------------------- MODULE FeedbackSummaries --------------------------
(***************************************************************************)
(* What FaivrReputationRegistry computes from the feedback of one agent:   *)
(* the reads that walk the clients and their entries, their pages, and the *)
(* summary value with its decimals.  The feedback is a book of the clients *)
(* in the order they were listed and the entries of each; it grows by one  *)
(* entry or one revocation at a time.                                      *)
(***************************************************************************)
EXTENDS Integers, Sequences, FiniteSets

LOCAL INSTANCE SequencesExt

CONSTANTS
    Clients,          \* the clients of the agent
    BookValues,       \* the values they give
    BookDecimals,     \* the decimals they give them with
    BookTags,         \* the tags
    MaxEntries,       \* bound: entries in the book
    SUMMARY_DECIMALS, \* 18 in the code; small, since TLC counts to 2^31
    MAX_INT128        \* type(int128).max, 2^127 - 1; small for the same reason

Int128 == -MAX_INT128 - 1 .. MAX_INT128

ASSUME BookAssumption ==
    MAX_INT128 \in Nat /\ SUMMARY_DECIMALS \in Nat /\ BookValues \subseteq Int128

VARIABLES listed, entries

bookVars == <<listed, entries>>

BookInit == listed = <<>> /\ entries = [c \in Clients |-> <<>>]

AddEntry(c, value, decimals, tag) ==
    /\ Len(FlattenSeq([i \in DOMAIN listed |-> entries[listed[i]]])) < MaxEntries
    /\ decimals <= SUMMARY_DECIMALS
    /\ listed' = IF Contains(listed, c) THEN listed ELSE Append(listed, c)
    /\ entries' = [entries EXCEPT ![c] =
          Append(@, [value |-> value, decimals |-> decimals, tag |-> tag,
                     revoked |-> FALSE])]

RevokeEntry(c, i) ==
    /\ i \in DOMAIN entries[c]
    /\ ~entries[c][i].revoked
    /\ entries' = [entries EXCEPT ![c][i].revoked = TRUE]
    /\ UNCHANGED listed

-------------------------------------------------------------------------------
\* The filter of every read: not revoked, unless those are asked for, and of
\* the tag, unless none is asked for.
Wanted(e, tag, includeRevoked) ==
    (includeRevoked \/ ~e.revoked) /\ (tag # "" => e.tag = tag)

\* readAllFeedback: client by client, in the order of their indexes.  With no
\* clients named, all that are listed.
Walk(clients, tag, includeRevoked) ==
    LET Of(c) == SelectSeq([i \in DOMAIN entries[c] |->
                              [client |-> c, index |-> i, entry |-> entries[c][i]]],
                           LAMBDA x : Wanted(x.entry, tag, includeRevoked))
    IN  FlattenSeq([i \in DOMAIN clients |-> Of(clients[i])])

ReadAll(clients, tag, includeRevoked) ==
    Walk(IF clients = <<>> THEN listed ELSE clients, tag, includeRevoked)

\* Mutated form of Take: the entry at the offset is skipped too.
TakeLate(x, acc, offset, limit) ==
    IF Len(acc.out) >= limit THEN acc
    ELSE [out |-> IF acc.seen > offset THEN Append(acc.out, x) ELSE acc.out,
          seen |-> acc.seen + 1]

\* One matching entry of a paginated read: counted as seen, and collected
\* once the offset is reached and while there is room.
Take(x, acc, offset, limit) ==
    IF Len(acc.out) >= limit THEN acc
    ELSE [out |-> IF acc.seen >= offset THEN Append(acc.out, x) ELSE acc.out,
          seen |-> acc.seen + 1]

Page(clients, tag, includeRevoked, offset, limit) ==
    FoldLeft(LAMBDA acc, x : Take(x, acc, offset, limit),
             [out |-> <<>>, seen |-> 0],
             ReadAll(clients, tag, includeRevoked)).out

\* Signed division truncates towards zero.
TruncatedDiv(a, b) == IF a >= 0 THEN a \div b ELSE -((-a) \div b)

NormalizeSummaryValue(e) == e.value * 10 ^ (SUMMARY_DECIMALS - e.decimals)

\* Mutated form of Stripped: a zero too few is stripped.
StrippedTooLittle(avg, d) == d > 1 /\ avg % 10 = 0

\* The loop of _finalizeSummary strips while this holds.
Strips(avg, d) == d > 0 /\ avg % 10 = 0

Summary(count, value, decimals) ==
    [reverted |-> FALSE, count |-> count, value |-> value, decimals |-> decimals]

Reverted == [reverted |-> TRUE, count |-> 0, value |-> 0, decimals |-> 0]

\* Mutated form of Cast: the check before the cast is missing.
CastUnchecked(count, value, decimals) == Summary(count, value, decimals)

\* What is left of the average has to fit; the read reverts when it does not.
Cast(count, value, decimals) ==
    IF value \in Int128 THEN Summary(count, value, decimals) ELSE Reverted

FinalizeSummary(total, count) ==
    IF count = 0 THEN Summary(0, 0, 0)
    ELSE LET Stripped[avg \in Int, d \in 0 .. SUMMARY_DECIMALS] ==
                IF Strips(avg, d) THEN Stripped[TruncatedDiv(avg, 10), d - 1]
                                  ELSE Cast(count, avg, d)
         IN  Stripped[TruncatedDiv(total, count), SUMMARY_DECIMALS]

SummaryOver(found) ==
    FinalizeSummary(
        FoldLeft(LAMBDA sum, x : sum + NormalizeSummaryValue(x.entry), 0, found),
        Len(found))

\* getSummary and getSummaryPaginated (both refuse an empty list of clients).
GetSummary(clients, tag) == SummaryOver(Walk(clients, tag, FALSE))

GetSummaryPage(clients, tag, offset, limit) ==
    SummaryOver(Page(clients, tag, FALSE, offset, limit))

-------------------------------------------------------------------------------
BookStep ==
    \E c \in Clients :
       \/ \E value \in BookValues, decimals \in BookDecimals, tag \in BookTags :
             AddEntry(c, value, decimals, tag)
       \/ \E i \in 1 .. MaxEntries : RevokeEntry(c, i)

\* The pages of a read, put one after another, are the read, for every page
\* size, tag, and choice about revoked entries (_fillPaginatedFeedback).
FeedbackPagesAddUp ==
    \A tag \in BookTags \union {""}, includeRevoked \in BOOLEAN,
       limit \in 1 .. MaxEntries :
          FlattenSeq([p \in 1 .. MaxEntries |->
                         Page(<<>>, tag, includeRevoked, (p - 1) * limit, limit)])
             = ReadAll(<<>>, tag, includeRevoked)

\* The summary is the exact mean cut off after SUMMARY_DECIMALS digits, in
\* its shortest form, positive and negative values alike, and it is the mean
\* over the entries nobody revoked.  It is refused exactly when no form of
\* that mean fits the type: digits that are all zeros never cost a reader the
\* answer, and values that fit each can have a mean that does not.
\* (_finalizeSummary)
SummaryIsTheMean ==
    \A tag \in BookTags \union {""} :
       LET s == GetSummary(SetToSeq(Clients), tag)
           scaled == s.value * 10 ^ (SUMMARY_DECIMALS - s.decimals)
           valid == {<<c, i>> \in Clients \X (1 .. MaxEntries) :
                        /\ i \in DOMAIN entries[c]
                        /\ ~entries[c][i].revoked
                        /\ tag # "" => entries[c][i].tag = tag}
           total == FoldLeft(LAMBDA sum, k :
                                sum + entries[k[1]][k[2]].value
                                    * 10 ^ (SUMMARY_DECIMALS - entries[k[1]][k[2]].decimals),
                             0, SetToSeq(valid))
           count == Cardinality(valid)
           fits == \E d \in 0 .. SUMMARY_DECIMALS, value \in Int128 :
                      value * 10 ^ (SUMMARY_DECIMALS - d) = TruncatedDiv(total, count)
       IN  /\ s.reverted <=> count > 0 /\ ~fits
           /\ ~s.reverted => s.count = count
           /\ s.count > 0 =>
                 /\ scaled * s.count - total \in (1 - s.count) .. (s.count - 1)
                 /\ total >= 0 => scaled * s.count <= total
                 /\ total <= 0 => scaled * s.count >= total
                 /\ s.decimals > 0 => s.value % 10 # 0
===============================================================================
