-------------------------------- MODULE Gid --------------------------------
(***************************************************************************)
(* ncclIbGetGidIndex (unet_ib.cc): which entry of a RoCE port's GID table  *)
(* a connection uses.  The user may name the index; otherwise the table is *)
(* searched for an address of the wanted family, subnet and RoCE version.  *)
(*                                                                         *)
(* A GID has four words of W bits; LinkLocalWord, MappedWord and           *)
(* MulticastWord are the words fe800000, 0000ffff and ff0e0000 the code    *)
(* compares with.  An entry's version is what its sysfs file says: 1, 2,   *)
(* unknown text (the code then uses an uninitialized variable), or none:   *)
(* the file cannot be read.                                                *)
(***************************************************************************)
EXTENDS Integers, FiniteSets, FiniteSetsExt

CONSTANTS W,               \* bits of a word (32)
          LinkLocalWord, MappedWord, MulticastWord,
          GidTables,       \* tables a port may have, indexed from 0
          AddrRanges,      \* values of NCCL_IB_ADDR_RANGE
          GidIndexParams   \* values of NCCL_IB_GID_INDEX

\* Powers of two, and the values of a word.
Pow2[n \in 0 .. W] == IF n = 0 THEN 1 ELSE 2 * Pow2[n - 1]
Word == 0 .. Pow2[W] - 1

UnknownVer == -1
UnreadableVer == -2
GidEntry == [words : [1 .. 4 -> Word], ver : {1, 2, UnknownVer, UnreadableVer}]
AddrRangeType == [af : {"none", "AF_INET", "AF_INET6"}, words : [1 .. 4 -> Word], len : Int]

ASSUME GidAssumption ==
    /\ W \in Nat \ {0}
    /\ \A w \in {LinkLocalWord, MappedWord, MulticastWord} : w \in Word \ {0}
    /\ \A table \in GidTables :
          /\ IsFiniteSet(DOMAIN table) /\ 0 \in DOMAIN table
          /\ DOMAIN table = 0 .. Cardinality(DOMAIN table) - 1
          /\ \A i \in DOMAIN table : table[i] \in GidEntry
    /\ AddrRanges \subseteq AddrRangeType
    /\ GidIndexParams \subseteq Int

VARIABLES gids,       \* the port's GID table
          gidParam,   \* NCCL_IB_GID_INDEX
          usrFam,     \* NCCL_IB_ADDR_FAMILY
          usrRange,   \* NCCL_IB_ADDR_RANGE: address, its family, prefix length
          usrVer,     \* NCCL_IB_ROCE_VERSION_NUM
          gidIndex, gidNext, gidRet

gidInputs == <<gids, gidParam, usrFam, usrRange, usrVer>>
gidvars == <<gids, gidParam, usrFam, usrRange, usrVer, gidIndex, gidNext, gidRet>>

Families == {"AF_INET", "AF_INET6"}

GidInit ==
    /\ gids \in GidTables /\ gidParam \in GidIndexParams
    /\ usrFam \in Families /\ usrRange \in AddrRanges /\ usrVer \in {1, 2}
    /\ gidIndex = -1 /\ gidNext = 1 /\ gidRet = "none"

----------------------------------------------------------------------------
\* getGidAddrFamily: IPv4 addresses, plain and multicast, are mapped into IPv6.
getGidAddrFamily(gid) ==
    IF /\ gid.words[1] \in {0, MulticastWord}
       /\ gid.words[2] = 0 /\ gid.words[3] = MappedWord
    THEN "AF_INET" ELSE "AF_INET6"

\* envIbAddrRange: no prefix, length 0, unless there is an address of the
\* family with a length that fits it (a negative one is not refused).
envIbAddrRange(af) ==
    IF usrRange.af = af /\ usrRange.len <= (IF af = "AF_INET" THEN W ELSE 4 * W)
    THEN usrRange ELSE [usrRange EXCEPT !.len = 0]

\* What NETMASK(bits) leaves of a word.
Masked(word, bits) == word \div Pow2[W - bits]

\* matchGidAddrPrefix: an IPv4 prefix is compared with the last word, an IPv6
\* prefix word by word and then with the rest of the mask.
matchGidAddrPrefix(range, gid) ==
    /\ range.len >= 0
    /\ IF usrFam = "AF_INET"
       THEN Masked(range.words[1], range.len) = Masked(gid.words[4], range.len)
       ELSE LET whole == range.len \div W
                rest  == range.len % W
            IN  /\ \A i \in 1 .. whole : range.words[i] = gid.words[i]
                /\ rest > 0 => Masked(range.words[whole + 1], rest)
                                  = Masked(gid.words[whole + 1], rest)

configuredGid(gid) ==
    ~(gid.words[1] \in {0, LinkLocalWord} /\ \A i \in 2 .. 4 : gid.words[i] = 0)

linkLocalGid(gid) == gid.words[1] = LinkLocalWord /\ gid.words[2] = 0

validGid(gid) == configuredGid(gid) /\ ~linkLocalGid(gid)

\* ncclIbRoceGetVersionNum: 0 is any value that is no version.
RoceVersions(gid) == IF gid.ver = UnknownVer THEN 0 .. 2 ELSE {gid.ver}

----------------------------------------------------------------------------
\* The parameter decides.
GidIndexGiven ==
    /\ gidRet = "none" /\ gidParam >= 0
    /\ gidIndex' = gidParam /\ gidRet' = "success"
    /\ UNCHANGED <<gidInputs, gidNext>>

GidSearch ==
    /\ gidRet = "none" /\ gidParam < 0
    /\ gidIndex' = 0 /\ gidRet' = "searching"
    /\ UNCHANGED <<gidInputs, gidNext>>

Candidate == gids[gidNext]
Current == gids[gidIndex]

Looking == gidRet = "searching" /\ gidNext \in DOMAIN gids
CandidateFits ==
    getGidAddrFamily(Candidate) = usrFam /\ matchGidAddrPrefix(envIbAddrRange(usrFam), Candidate)

\* The first entry of the family, whatever its version.
TakeFamily == CandidateFits /\ getGidAddrFamily(Current) # usrFam

\* The versions decide only between entries of the family.
CompareVersions == ~TakeFamily /\ CandidateFits /\ validGid(Candidate)

\* Mutant of TakeVersion: a current entry that is not valid is kept.
MutTakeVersion(ver, candidateVer) == ver # candidateVer /\ candidateVer = usrVer

TakeVersion(ver, candidateVer) ==
    (ver # candidateVer \/ ~validGid(Current)) /\ candidateVer = usrVer

Advance(index) ==
    /\ gidIndex' = index /\ gidNext' = gidNext + 1
    /\ UNCHANGED <<gidInputs, gidRet>>

\* ncclIbUpdateGidIndex, its three ways to end.
UpdateByFamily == Looking /\ TakeFamily /\ Advance(gidNext)

UpdateSkips == Looking /\ ~TakeFamily /\ ~CompareVersions /\ Advance(gidIndex)

UpdateByVersion ==
    /\ Looking /\ CompareVersions
    /\ UnreadableVer \notin {Current.ver, Candidate.ver}
    /\ \E ver \in RoceVersions(Current), candidateVer \in RoceVersions(Candidate) :
          Advance(IF TakeVersion(ver, candidateVer) THEN gidNext ELSE gidIndex)

\* The sysfs file cannot be opened or read.
UpdateFails ==
    /\ Looking /\ CompareVersions
    /\ UnreadableVer \in {Current.ver, Candidate.ver}
    /\ gidRet' = "error"
    /\ UNCHANGED <<gidInputs, gidIndex, gidNext>>

GidFound ==
    /\ gidRet = "searching" /\ gidNext \notin DOMAIN gids
    /\ gidRet' = "success"
    /\ UNCHANGED <<gidInputs, gidIndex, gidNext>>

GidNextStep ==
    \/ GidIndexGiven \/ GidSearch
    \/ UpdateByFamily \/ UpdateSkips \/ UpdateByVersion \/ UpdateFails
    \/ GidFound

GidSpec == GidInit /\ [][GidNextStep]_gidvars

----------------------------------------------------------------------------
Bit(words, b) == (words[1 + (b - 1) \div W] \div Pow2[W - 1 - ((b - 1) % W)]) % 2

\* In the user's subnet: the first bits agree, one by one.
InSubnet(gid) ==
    LET range == envIbAddrRange(usrFam)
        from  == IF usrFam = "AF_INET" THEN 3 * W ELSE 0
    IN  range.len >= 0 /\ \A b \in 1 .. range.len : Bit(range.words, b) = Bit(gid.words, from + b)

OfFamily(i) == getGidAddrFamily(gids[i]) = usrFam
Wanted(i) ==
    OfFamily(i) /\ InSubnet(gids[i]) /\ validGid(gids[i]) /\ gids[i].ver = usrVer

\* Entry 0 is kept for its family and version although it is outside the subnet.
KeptUnseen == OfFamily(0) /\ validGid(gids[0]) /\ gids[0].ver = usrVer /\ ~InSubnet(gids[0])

(***************************************************************************)
(* What a search of the table promises: an entry other than the first is   *)
(* chosen only if it is of the user's family and subnet, and the family is *)
(* right whenever some entry offers it; if some entry has everything the   *)
(* user asked for, the first such entry is chosen.  Two things the code    *)
(* does limit the last part: the subnet of entry 0 is never looked at, and *)
(* a version the sysfs file does not tell may compare as any.              *)
(***************************************************************************)
GidFits ==
    gidRet = "success" /\ gidParam < 0 =>
        LET wanted == {i \in DOMAIN gids : Wanted(i)}
        IN  /\ gidIndex # 0 => OfFamily(gidIndex) /\ InSubnet(gids[gidIndex])
            /\ (\E i \in DOMAIN gids : OfFamily(i) /\ InSubnet(gids[i])) => OfFamily(gidIndex)
            /\ wanted # {} /\ ~KeptUnseen /\ (\A i \in DOMAIN gids : gids[i].ver # UnknownVer)
                  => gidIndex = Min(wanted)
=============================================================================
