---------------------------- MODULE Renumbering ----------------------------
(***************************************************************************)
(* The migrations that renumber what is there: every sales document twice, *)
(* when numbers got new starts and when they came to hold the customer's   *)
(* code, and one customer's once more.  Journal memos repeat the numbers.  *)
(***************************************************************************)
EXTENDS Naturals, FiniteSets
LOCAL INSTANCE SequencesExt

\* The customers there are, in id order, and the documents by id: deleted drafts leave
\* gaps.  number stands for <prefix>-<n> or <prefix>-<code>-<n>; memo, for the numbers
\* the memo of a document's entry repeats.
Customers == <<1, 2>>
STARTS == [quotation |-> 3817, invoice |-> 5294, receipt |-> 7461]
CodesTried == {4018, 4019, 4020}

OfType(docs, type) == {d \in DOMAIN docs : docs[d].type = type}
OfCustomer(docs, customer) == {d \in DOMAIN docs : docs[d].customer = customer}
Nth(d, ids) == Cardinality({e \in ids : e <= d})

Memo(docs, d) ==
    IF docs[d].type = "receipt" THEN <<docs[d].number, docs[docs[d].source].number>>
    ELSE <<docs[d].number>>
RebuildMemos(docs) == [d \in DOMAIN docs |-> [docs[d] EXCEPT !.memo = Memo(docs, d)]]

\* 20261015T0849: from the new starts, in id order, and the sequence goes on from there.
numberStarts(docs) ==
    RebuildMemos([d \in DOMAIN docs |->
        LET type == docs[d].type
        IN  [docs[d] EXCEPT !.number = <<type, STARTS[type] - 1 + Nth(d, OfType(docs, type))>>]])
SequenceAfter(docs, type) == STARTS[type] - 1 + Cardinality(OfType(docs, type))

\* 20261015T1528: a random unused code for one customer after the other, each seeing the
\* codes before it and the old ones still to go.
randomCodes(code) ==
    LET give(results, c) ==
            UNION {{[r EXCEPT ![c] = k] : k \in CodesTried \ {r[x] : x \in DOMAIN r}} : r \in results}
    IN  FoldLeft(give, {code}, Customers)

recode(docs, code) ==
    RebuildMemos([d \in DOMAIN docs |->
        LET same == OfType(docs, docs[d].type) \cap OfCustomer(docs, docs[d].customer)
        IN  [docs[d] EXCEPT !.number = <<docs[d].type, code[docs[d].customer], Nth(d, same)>>]])

\* 20261104T1048: customer 4019 becomes 75, and the old code is replaced where its
\* documents' numbers and memos hold it.
Holds4019(code) == {c \in DOMAIN code : code[c] = 4019}
C4019Refused(code) == Holds4019(code) # {} /\ \E c \in DOMAIN code : code[c] = 75
C4019Code(code) == [c \in DOMAIN code |-> IF c \in Holds4019(code) THEN 75 ELSE code[c]]
Replaced(number) == [number EXCEPT ![2] = IF @ = 4019 THEN 75 ELSE @]
C4019Documents(docs, code) ==
    [d \in DOMAIN docs |->
        IF docs[d].customer \notin Holds4019(code) THEN docs[d]
        ELSE [docs[d] EXCEPT !.number = Replaced(@),
                             !.memo = [i \in DOMAIN @ |-> Replaced(@[i])]]]

-----------------------------------------------------------------------------

\* Up to three documents; a receipt is for an invoice of its customer before it.
DocumentSets ==
    LET of(ids) == {docs \in [ids -> [type : DOMAIN STARTS, customer : {1, 2}, source : 0..3,
                                      number : {<<>>}, memo : {<<>>}]] :
              \A d \in ids :
                 LET s == docs[d].source
                 IN  IF docs[d].type # "receipt" THEN s = 0
                     ELSE s \in ids /\ s < d /\ docs[s].type = "invoice"
                          /\ docs[s].customer = docs[d].customer}
    IN  UNION {of(ids) : ids \in {{1}, {1, 2}, {2, 3}, {1, 2, 3}}}

\* The numbers are unique, as their key demands, and the memos repeat them.
NumbersStand(docs) ==
    /\ Cardinality({docs[d].number : d \in DOMAIN docs}) = Cardinality(DOMAIN docs)
    /\ \A d \in DOMAIN docs : docs[d].memo = Memo(docs, d)

\* "Numbers stay sequential from there": without a gap from the start to the sequence.
ASSUME StartsAreSequential ==
    \A docs \in DocumentSets :
        LET now == numberStarts(docs)
        IN  /\ NumbersStand(now)
            /\ \A type \in DOMAIN STARTS :
                  {now[d].number[2] : d \in OfType(now, type)} = STARTS[type]..SequenceAfter(docs, type)

\* Whatever codes are drawn, no two customers share one; every document holds its
\* customer's code, and counts without a gap, which the next number goes on from.  Both
\* still hold once 4019 has become 75.
ASSUME CodesAndNumbersAgree ==
    \A code \in randomCodes([c \in {1, 2} |-> 4017 + c]) :
        /\ code[1] # code[2]
        /\ ~C4019Refused(code)
        /\ \A docs \in DocumentSets :
              LET now == recode(numberStarts(docs), code)
                  moved == C4019Documents(now, code)
                  agree(ds, k) ==
                      /\ NumbersStand(ds)
                      /\ \A c \in {1, 2}, type \in DOMAIN STARTS :
                            LET ids == OfType(ds, type) \cap OfCustomer(ds, c)
                            IN  {ds[d].number : d \in ids} = {<<type, k[c], n>> : n \in 1..Cardinality(ids)}
              IN  agree(now, code) /\ agree(moved, C4019Code(code))

=============================================================================
