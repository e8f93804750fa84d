---------------------------------- MODULE DetBcrypt ----------------------------------
(***********************************************************************************)
(* The hash of lab1/det_bcrypt and the scores that lab1/ranker makes of it.         *)
(*                                                                                  *)
(* A string is the sequence of its bytes (ASCII codes). What blowfish and the hash  *)
(* functions of the library compute is left to operators. A result that is an error *)
(* is a record without bytes.                                                       *)
(***********************************************************************************)
EXTENDS Integers, Sequences, SequencesExt

CONSTANTS
    Encrypted(_, _, _),   \* password, cost and salt -> the 24 bytes of the cipher text
    Sum32(_), Sum64(_),   \* fnv hashes
    Word                  \* 2^64: where products and sums wrap around

ASSUME WordAssumption == Word \in Nat \ {0}

MinCost == 1
MaxCost == 31
DefaultCost == 10
maxSaltSize == 16
maxCryptedHashSize == 23
encodedSaltSize == 22
encodedHashSize == 31
minHashSize == 59
dollar == 36
majorVersion == 50   \* '2'
minorVersion == 97   \* 'a'

Result(value) == [err |-> "nil", value |-> value]
Err(e) == [err |-> e, value |-> <<>>]

--------------------------------------------------------------------------------------
(* base64 over the alphabet ./A-Za-z0-9                                                *)

Char(k) == CASE k < 2 -> 46 + k [] k \in 2 .. 27 -> 63 + k [] k \in 28 .. 53 -> 69 + k [] OTHER -> k - 6
Sextet(c) == IF \E k \in 0 .. 63 : Char(k) = c THEN CHOOSE k \in 0 .. 63 : Char(k) = c ELSE -1

\* The k-th element of s, or zeros after its end.
At(s, k) == IF k \in DOMAIN s THEN s[k] ELSE 0

\* Six bits a character. The '=' at the end are taken off.
base64Encode(src) ==
    [k \in 1 .. (8 * Len(src) + 5) \div 6 |->
        LET bit == 6 * (k - 1)
            i == (bit \div 8) + 1
        IN  Char(((At(src, i) * 256 + At(src, i + 1)) \div 2^(10 - (bit % 8))) % 64)]

\* Between one and four '=' are put on. Only one or two of them make a proper ending.
base64Decode(src) ==
    LET s == [k \in DOMAIN src |-> Sextet(src[k])]
        Byte(k) == LET bit == 8 * (k - 1)
                       j == (bit \div 6) + 1
                   IN  ((At(s, j) * 4096 + At(s, j + 1) * 64 + At(s, j + 2)) \div 2^(10 - (bit % 6))) % 256
    IN  IF 4 - (Len(src) % 4) \in {1, 2} /\ \A k \in DOMAIN s : s[k] >= 0
        THEN Result([k \in 1 .. (6 * Len(src)) \div 8 |-> Byte(k)])
        ELSE Err("CorruptInputError")

--------------------------------------------------------------------------------------
(* Hashes as records and as strings.                                                  *)

checkCost(cost) == IF cost \in MinCost .. MaxCost THEN "nil" ELSE "InvalidCostError"

\* expensiveBlowfishSetup and the 64 encryptions; the last of 24 bytes is dropped.
bcrypt(password, cost, salt) ==
    LET csalt == base64Decode(salt) IN
    IF csalt.err # "nil" THEN csalt
    ELSE Result(base64Encode(SubSeq(Encrypted(password, cost, csalt.value), 1, maxCryptedHashSize)))

\* The salt is always the same.
newFromPassword(password, asked) ==
    LET cost == IF asked < MinCost THEN DefaultCost ELSE asked
        salt == base64Encode([k \in 1 .. maxSaltSize |-> 97])
        hash == bcrypt(password, cost, salt)
    IN  CASE checkCost(cost) # "nil" -> Err(checkCost(cost))
          [] hash.err # "nil"        -> hash
          [] OTHER -> Result([hash |-> hash.value, salt |-> salt, cost |-> cost,
                              major |-> majorVersion, minor |-> minorVersion])

\* copy into a slice of n bytes, which are zero at first.
Copied(s, n) == [k \in 1 .. n |-> At(s, k)]

Hash(p) ==
    <<dollar, p.major>> \o (IF p.minor # 0 THEN <<p.minor>> ELSE <<>>)
        \o <<dollar, 48 + (p.cost \div 10), 48 + (p.cost % 10), dollar>>
        \o Copied(p.salt, encodedSaltSize) \o Copied(p.hash, encodedHashSize)

\* The major and minor version, and where they end.
decodeVersion(s) ==
    CASE s[1] # dollar                       -> Err("InvalidHashPrefixError")
      [] s[1] = dollar /\ s[2] > majorVersion -> Err("HashVersionTooNewError")
      [] OTHER -> Result(IF s[3] = dollar THEN [major |-> s[2], minor |-> 0, n |-> 3]
                                          ELSE [major |-> s[2], minor |-> s[3], n |-> 4])

\* strconv.Atoi takes a sign, too.
Atoi(a, b) ==
    LET digit == 48 .. 57 IN
    CASE a \in digit /\ b \in digit -> Result(10 * (a - 48) + (b - 48))
      [] a = 43 /\ b \in digit      -> Result(b - 48)
      [] a = 45 /\ b \in digit      -> Result(48 - b)
      [] OTHER                      -> Err("NumError")

decodeCost(s) ==
    LET cost == Atoi(s[1], s[2]) IN
    CASE cost.err # "nil"                  -> cost
      [] cost.err = "nil" /\ checkCost(cost.value) # "nil" -> Err(checkCost(cost.value))
      [] OTHER                             -> Result([cost |-> cost.value, n |-> 3])

From(s, n) == SubSeq(s, n + 1, Len(s))

newFromHash(s) ==
    LET version == decodeVersion(s)
        afterVersion == From(s, version.value.n)
        cost == decodeCost(afterVersion)
        afterCost == From(afterVersion, cost.value.n)
    IN  CASE Len(s) < minHashSize -> Err("ErrHashTooShort")
          [] Len(s) >= minHashSize /\ version.err # "nil" -> version
          [] Len(s) >= minHashSize /\ version.err = "nil" /\ cost.err # "nil" -> cost
          [] OTHER -> Result([major |-> version.value.major, minor |-> version.value.minor,
                              cost |-> cost.value.cost,
                              salt |-> SubSeq(afterCost, 1, encodedSaltSize),
                              hash |-> From(afterCost, encodedSaltSize)])

--------------------------------------------------------------------------------------
(* The exported functions.                                                            *)

GenerateFromPassword(password, cost) ==
    LET p == newFromPassword(password, cost) IN
    IF p.err # "nil" THEN p ELSE Result(Hash(p.value))

CompareHashAndPassword(s, password) ==
    LET p == newFromHash(s)
        other == bcrypt(password, p.value.cost, p.value.salt)
    IN  CASE p.err # "nil" -> p.err
          [] p.err = "nil" /\ other.err # "nil" -> other.err
          [] OTHER -> IF Hash(p.value) = Hash([p.value EXCEPT !.hash = other.value])
                      THEN "nil" ELSE "ErrMismatchedHashAndPassword"

Cost(s) == LET p == newFromHash(s) IN IF p.err # "nil" THEN p ELSE Result(p.value.cost)

--------------------------------------------------------------------------------------
(* The ranker.                                                                        *)

costHash(id) == (Sum32(id) % (4 - MinCost)) + MinCost

\* One turn of the loop: a feature of the user that the video may not have.
Plus(sum, product) == (sum + product) % Word

\* dotProduct that leaves the loop at the first feature that the video lacks.
dotProductBreaking(order, userCoeffs, videoCoeffs) ==
    LET lacks(f) == f \notin DOMAIN videoCoeffs
        upTo == IF \E k \in DOMAIN order : lacks(order[k])
                THEN (CHOOSE k \in DOMAIN order :
                        lacks(order[k]) /\ \A j \in 1 .. (k - 1) : ~lacks(order[j])) - 1
                ELSE Len(order)
    IN  FoldLeft(LAMBDA sum, f : Plus(sum, (userCoeffs[f] * videoCoeffs[f]) % Word),
                 0, SubSeq(order, 1, upTo))

\* The loop goes over the features of the user in any order.
dotProduct(order, userCoeffs, videoCoeffs) ==
    FoldLeft(LAMBDA sum, f : IF f \in DOMAIN videoCoeffs
                             THEN Plus(sum, (userCoeffs[f] * videoCoeffs[f]) % Word) ELSE sum,
             0, order)

\* The password is the product in twenty digits, enough for any word.
Rank(order, userCoeffs, videoCoeffs) ==
    LET dot == dotProduct(order, userCoeffs, videoCoeffs) IN
    Sum64(GenerateFromPassword(<<dot>>, costHash(dot)).value)

--------------------------------------------------------------------------------------
(* What the layout of the hash promises, over bounded inputs.                          *)

SomeCosts == -1 .. 33
SomePasswords == {<<0>>, <<1>>, <<2>>}

\* A hash that GenerateFromPassword makes is one that newFromHash reads, field by field,
\* at every cost it allows: the password it was made of is accepted, another one only if
\* the cipher text is the same, and the cost is told. The shorter layout, without a minor
\* version, is read and written back as well.
LayoutAgrees ==
    \A asked \in SomeCosts, password \in SomePasswords :
        LET made == GenerateFromPassword(password, asked)
            s == made.value
            old == RemoveAt(s, 3)
            cost == IF asked < MinCost THEN DefaultCost ELSE asked
            Text(pw) == SubSeq(Encrypted(pw, cost, [k \in 1 .. maxSaltSize |-> 97]), 1, maxCryptedHashSize)
        IN  IF asked > MaxCost THEN made = Err("InvalidCostError")
            ELSE /\ Len(s) = 60 /\ Len(old) = minHashSize
                 /\ Cost(s) = Result(cost) /\ Cost(old) = Result(cost)
                 /\ Hash(newFromHash(s).value) = s /\ Hash(newFromHash(old).value) = old
                 /\ \A other \in SomePasswords :
                        CompareHashAndPassword(s, other) = "nil" <=> Text(other) = Text(password)
                 /\ CompareHashAndPassword(old, password) = "nil"
======================================================================================
