-------------------------------- MODULE Tools --------------------------------
(***************************************************************************)
(* What the commands of the tools work out: the configuration they read,    *)
(* the keys they encode and decode, the nodes they count and the messages   *)
(* they take apart. A command runs alone and keeps nothing, so it is an     *)
(* operator of its input; the input is a state.                             *)
(***************************************************************************)
EXTENDS Integers, SequencesExt, FiniteSetsExt, Bitwise, TLC

VARIABLE command   \* what the user gives: [name, and what that command reads]

(***************************************************************************)
(* Configuration: lines of a file, after what the command line has set.     *)
(***************************************************************************)
\* ToolsInterpretBool: an empty value is true, else what atoi finds.
InterpretBool(v) == v # "0"

\* ToolsInterpretNegativeSetting turns -noX into -X with the value turned round.
Negated(line) ==
    IF line.no THEN [line EXCEPT !.no = FALSE, !.value = IF InterpretBool(@) THEN "0" ELSE "1"]
    ELSE line

Setting(line) == [no |-> FALSE, key |-> line.key, value |-> line.value]

\* Code that lets the last line of a file win.
LastWins(line, s) == (line.key :> line.value) @@ s
FirstWins(line, s) == s @@ (line.key :> line.value)

\* LoadConfigFile: what is set stays, and every value of a key is kept besides.
LoadConfigFile(given, lines) ==
    [settings |-> FoldSeq(LAMBDA l, s : FirstWins(Negated(l), s), given, Reverse(lines)),
     multi |-> [k \in {l.key : l \in ToSet(lines)} |->
                   LET own == SelectSeq(lines, LAMBDA l : l.key = k)
                   IN [i \in DOMAIN own |-> Negated(own[i]).value]]]

(***************************************************************************)
(* Keys: a base58 string is its bytes, here a version, one byte for the 32  *)
(* of the key, and perhaps a byte that says it is compressed.               *)
(***************************************************************************)
SecretKey == 128    \* Base58Prefix(SECRET_KEY)
CodeWord == 170     \* CODE_WORD
KeySize == 1        \* 32 of the code

Coded(bytes) == [i \in DOMAIN bytes |-> bytes[i] ^^ CodeWord]

\* IsValid() of version and data.
ValidData(data) == \/ Len(data) = KeySize
                   \/ Len(data) = KeySize + 1 /\ data[KeySize + 1] = 1

\* Code that does not look at the version.
AnyVersion(bytes) == TRUE
ValidVersion(bytes) == bytes[1] = SecretKey

IsValidKey(bytes) == Len(bytes) >= 1 /\ ValidVersion(bytes) /\ ValidData(Tail(bytes))

\* CKeyExtension of a string, plain (keyshow, keymatch, keyencode) or encoded with a
\* version of one byte (keydecode); <<>> stands for the exception.
PlainKey(bytes) == IF IsValidKey(bytes) THEN bytes ELSE <<>>
CodedKey(bytes) == PlainKey(Coded(bytes))

\* Encode() of a key, and ToString() of what keydecode makes of a string.
EncodeKey(bytes) == IF PlainKey(bytes) = <<>> THEN <<>> ELSE Coded(bytes)

\* GetKey(): the key and whether it is compressed, which decide the public key, the
\* address, and what Match() says of a public key.
GetKey(bytes) == [key |-> SubSeq(bytes, 2, KeySize + 1), compressed |-> Len(bytes) > KeySize + 1]

(***************************************************************************)
(* Nodes: what dbcheckall and dbgetall say of the rows they read.           *)
(***************************************************************************)
\* CMNode::Check, with CMNode::IsNull, which is true of a row with every field.
CheckNode(n, now, ahead) ==
    \/ n.status # 1
    \/ /\ n.keyValid /\ n.period >= now /\ n.licensed >= now + ahead
       /\ ~n.null

\* dbcheckall reads the rows with status 1 and counts those that check and verify;
\* dbgetall shows the rows that check and counts the others (as "check ok",
\* dbtool.cc:96).
CheckAll(rows, now, ahead) ==
    Len(SelectSeq(rows, LAMBDA n : n.status = 1 /\ CheckNode(n, now, ahead) /\ n.verifies))

GetAll(rows, now, ahead) ==
    LET shown == SelectSeq(rows, LAMBDA n : CheckNode(n, now, ahead))
    IN [shown |-> shown, count |-> Len(rows) - Len(shown)]

(***************************************************************************)
(* Numbers in messages: eight or sixteen hex digits, low byte first.        *)
(***************************************************************************)
Pow2(n) == 2 ^ n

\* The shift of the digit i, from 0: two digits make a byte, the high one first.
BigEndianShift(i) == 4 * (7 - i)
DigitShift(i) == (i \div 2) * 8 + (IF i % 2 = 0 THEN 4 ELSE 0)

\* What Hex2Int adds up; digits fill the 31 bits that TLC's integers have.
Hex2Int(digits) ==
    IF Len(digits) # 8 THEN 0
    ELSE FoldSet(LAMBDA i, r : r + digits[i + 1] * Pow2(DigitShift(i)), 0,
                 {i \in 0 .. 7 : digits[i + 1] # 0})

\* Hex2Int64 keeps its result in an int: the digits of the upper four bytes are
\* shifted out of it.
Hex2Int64(digits) == IF Len(digits) # 16 THEN 0 ELSE Hex2Int(SubSeq(digits, 1, 8))

\* The digits of a number of up to four bytes, as the message has them.
LittleEndian(n) ==
    LET Byte(j) == (n \div 256 ^ j) % 256
    IN [i \in 1 .. 8 |-> LET byte == Byte((i - 1) \div 2)
                         IN IF i % 2 = 1 THEN byte \div 16 ELSE byte % 16]

(***************************************************************************)
(* Answers: asklicense and asknewlic show the certificate of the coin they  *)
(* asked for, askkeyversion and asknewversion every key of the answer.      *)
(***************************************************************************)
AskLicense(coin, answer) ==
    IF answer.num = 1 /\ answer.type = "one"
      THEN IF answer.coin # coin THEN "invalid msg mn" ELSE "certificate"
      ELSE "invalid msg"

AskKeyVersion(answer) == IF answer.type = "key" THEN answer.num ELSE -1

(***************************************************************************)
(* The inputs that are looked at.                                           *)
(***************************************************************************)
ConfigLine == [no : BOOLEAN, key : {"a", "b"}, value : {"", "0", "1"}]
KeyByte == {SecretKey, SecretKey ^^ CodeWord, 1, 1 ^^ CodeWord}
ToolNode == [status : {0, 1}, keyValid : BOOLEAN, period : {1, 5}, licensed : {0, 1, 2, 5},
             null : {FALSE}, verifies : BOOLEAN]
ToolAnswer == [num : 0 .. 2, type : {"one", "key"}, coin : {"x", "y"}]

ToolInit == command \in
    [name : {"config"}, given : {<<>>, "a" :> "1"}, lines : BoundedSeq(ConfigLine, 2)]
    \cup [name : {"key"}, bytes : BoundedSeq(KeyByte, KeySize + 2)]
    \cup [name : {"db"}, rows : {<<n>> : n \in ToolNode}]
    \cup [name : {"hex"}, number : {0, 1, 15, 16, 4095, 65535, 2147483647, 305419896}]
    \cup [name : {"ask"}, answer : ToolAnswer]

-----------------------------------------------------------------------------
\* A setting of the command line stays, and otherwise the first line of a key decides,
\* turned round when it is a -no line (utils.cc:100).
ConfigRight == command.name = "config" =>
    LET conf == LoadConfigFile(command.given, command.lines)
        Of(k) == SelectSeq(command.lines, LAMBDA l : l.key = k)
    IN \A k \in {l.key : l \in ToSet(command.lines)} :
          /\ conf.settings[k] = IF k \in DOMAIN command.given THEN command.given[k]
                                ELSE IF ~Of(k)[1].no THEN Of(k)[1].value
                                ELSE IF Of(k)[1].value = "0" THEN "1" ELSE "0"
          /\ Len(conf.multi[k]) = Len(Of(k))

\* keydecode gives back the key that keyencode was given, and takes no key that is not
\* encoded, as the others take none that is (ulord.cc:19, 72).
KeysRight == command.name = "key" =>
    LET b == command.bytes
    IN /\ PlainKey(b) # <<>> =>
             /\ CodedKey(EncodeKey(b)) = b /\ GetKey(CodedKey(EncodeKey(b))) = GetKey(b)
             /\ PlainKey(EncodeKey(b)) = <<>> /\ CodedKey(b) = <<>>
       /\ CodedKey(b) # <<>> => EncodeKey(CodedKey(b)) = b

\* What dbcheckall counts is no row that licensetool would renew or that has expired,
\* and dbgetall shows it (dbtool.cc:52, 78; ulordDB.cc:27).
NodesRight == command.name = "db" =>
    LET rows == command.rows
    IN /\ CheckAll(rows, 1, 1) <= Len(GetAll(rows, 1, 1).shown)
       /\ CheckAll(rows, 1, 1) > 0 => rows[1].licensed > 1 /\ rows[1].period > 0 /\ rows[1].verifies
       /\ rows[1].status = 0 => GetAll(rows, 1, 1).shown = rows

\* mnbstunseri reads numbers as the boost archive of a little endian machine has them,
\* of a number of eight bytes the lower four (utils.cc:177, 190).
NumbersRight == command.name = "hex" =>
    LET digits == LittleEndian(command.number)
    IN Hex2Int(digits) = command.number /\ Hex2Int64(digits \o LittleEndian(7)) = command.number

\* A certificate is shown of the coin asked for only, and no answer passes both for a
\* certificate and for the list of keys.
AnswersRight == command.name = "ask" =>
    (AskLicense("x", command.answer) = "certificate" =>
        command.answer.coin = "x" /\ AskKeyVersion(command.answer) = -1)

ToolsRight == ConfigRight /\ KeysRight /\ NodesRight /\ NumbersRight /\ AnswersRight

-----------------------------------------------------------------------------
(***************************************************************************)
(* The reward commands of the tools: three walks over the heights of the    *)
(* chain that add up what GetBlockReward gives to the miner, the budget,    *)
(* the masternodes and the founders. How much ulord's own functions pay is  *)
(* a parameter.                                                             *)
(***************************************************************************)
CONSTANTS Subsidy(_),    \* GetMinerSubsidy, of a height
          Budget(_), MasternodePayment(_), FoundersReward(_),
          PaymentsStart, SuperblockStart, SuperblockCycle, FoundersEnd,
          YearBlocks,    \* YEARBLOCKS
          MaxHeight      \* bound of the walks

ASSUME RewardLimits == SuperblockCycle \in Nat \ {0} /\ YearBlocks \in Nat \ {0}

VARIABLES walk,      \* "show" (rewardshow) | "status" (rewardstatus) | "block" (rewardblock)
          rounds,    \* iRounds, or the height of rewardblock
          years,     \* iYears
          height,    \* the height whose reward is added next
          sums, rowSums, \* the sums since 0 and since the last row of "status"
          previous,  \* tmp...: the last row of "show"
          rows, stopped

rewardVars == <<walk, rounds, years, height, sums, rowSums, previous, rows, stopped>>

Payee == {"miner", "budget", "masternode", "founders"}
Nothing == [k \in Payee |-> 0]
Plus(a, b) == [k \in Payee |-> a[k] + b[k]]

IsSuperBlock(h) == h >= PaymentsStart /\ h >= SuperblockStart /\ h % SuperblockCycle = 0

GetBlockReward(h) ==
    [miner |-> IF h = 1 THEN 0 ELSE Subsidy(h),
     budget |-> IF IsSuperBlock(h) THEN Budget(h) ELSE 0,
     masternode |-> IF h >= PaymentsStart /\ ~IsSuperBlock(h) THEN MasternodePayment(h) ELSE 0,
     founders |-> IF h > 1 /\ h < FoundersEnd THEN FoundersReward(h)
                  ELSE IF h = 1 THEN Subsidy(h) ELSE 0]

\* The end of the rewards: a superblock that pays nothing.
Over(h) == GetBlockReward(h) = Nothing /\ IsSuperBlock(h)

\* rewardshow: a row for every change, and the sums at the end; with a number of
\* rounds it stops there without them. The last row is remembered, or it is not.
RemembersNothing(r) == Nothing
Remembers(r) == r

ShowReward ==
    LET r == GetBlockReward(height)
        shown == IF r = previous THEN rows ELSE Append(rows, [from |-> height, pays |-> r])
    IN /\ walk = "show"
       /\ IF Over(height)
            THEN /\ rows' = Append(rows, [from |-> height, pays |-> sums]) /\ stopped' = TRUE
                 /\ UNCHANGED <<height, sums, previous>>
            ELSE /\ rows' = shown /\ previous' = Remembers(r) /\ sums' = Plus(sums, r)
                 /\ height' = height + 1 /\ stopped' = (rounds # 0 /\ height' >= rounds)
       /\ UNCHANGED <<walk, rounds, years, rowSums>>

\* rewardstatus: a row for every iYears years, the last of them cut short by the end
\* of the rewards, and a row of the total. The sums of the row start again, or not.
GoesOnSumming(p) == p
StartsAgain(p) == Nothing

ShowRewardStatus ==
    LET r == GetBlockReward(height)
        span == years * YearBlocks
        added == IF Over(height) THEN rowSums ELSE Plus(rowSums, r)
        sum == IF Over(height) THEN sums ELSE Plus(sums, r)
        rowEnds == Over(height) \/ (height + 1) % span = 0
        row == [from |-> (height \div span) * span, pays |-> added]
        last == Over(height) \/ (rounds > 0 /\ Len(rows) + 1 >= rounds)
    IN /\ walk = "status"
       /\ sums' = sum /\ height' = IF Over(height) THEN height ELSE height + 1
       /\ IF ~rowEnds THEN rowSums' = added /\ UNCHANGED <<rows, stopped>>
          ELSE /\ rowSums' = StartsAgain(added) /\ stopped' = last
               /\ rows' = IF last THEN rows \o <<row, [from |-> 0, pays |-> sum]>>
                          ELSE Append(rows, row)
       /\ UNCHANGED <<walk, rounds, years, previous>>

\* rewardblock: the sum up to a height and with it. (With details every row has the
\* height asked for, reward.cc:218.)
ShowRewardBlock ==
    LET sum == Plus(sums, GetBlockReward(height))
    IN /\ walk = "block" /\ sums' = sum /\ height' = height + 1
       /\ stopped' = (height >= rounds)
       /\ rows' = IF stopped' THEN <<[from |-> rounds, pays |-> sum]>> ELSE rows
       /\ UNCHANGED <<walk, rounds, years, rowSums, previous>>

RewardInit ==
    /\ walk \in {"show", "status", "block"} /\ rounds \in 0 .. 3 /\ years \in 1 .. 2
    /\ walk # "status" => years = 1
    /\ height = 0 /\ sums = Nothing /\ rowSums = Nothing /\ previous = Nothing
    /\ rows = <<>> /\ stopped = FALSE

RewardNext == /\ ~stopped /\ height < MaxHeight
              /\ ShowReward \/ ShowRewardStatus \/ ShowRewardBlock

-----------------------------------------------------------------------------
PaidBefore(h, k) == MapThenSumSet(LAMBDA i : GetBlockReward(i)[k], 0 .. h - 1)
PaidInRows(rs, k) == MapThenSumSet(LAMBDA i : rs[i].pays[k], DOMAIN rs)

\* rewardshow leaves nothing out: the row before a height says what the height pays
\* (reward.cc:113). The rows of rewardstatus follow one another and add up to its
\* total, which is what the blocks pay (reward.cc:160); rewardblock's sum is that of
\* the blocks up to and with the height.
RewardsAddUp ==
    /\ \A k \in Payee : sums[k] = PaidBefore(height, k)
    /\ walk = "show" /\ ~stopped => \A h \in 0 .. height - 1 :
          LET shown == {i \in DOMAIN rows : rows[i].from <= h}
          IN GetBlockReward(h) = IF shown = {} THEN Nothing ELSE rows[Max(shown)].pays
    /\ walk = "show" => \A i \in DOMAIN rows : i > 1 /\ i < Len(rows) =>
          rows[i].pays # rows[i - 1].pays
    /\ walk = "status" /\ stopped =>
          LET parts == SubSeq(rows, 1, Len(rows) - 1)
          IN /\ \A k \in Payee : PaidInRows(parts, k) = rows[Len(rows)].pays[k]
             /\ \A i \in DOMAIN parts : parts[i].from = (i - 1) * years * YearBlocks
    /\ walk = "block" /\ stopped => height = rounds + 1
=============================================================================
