----------------------------- MODULE ContactData -----------------------------
(***************************************************************************)
(* The records of the contact server (common/db_obj.go), the user levels   *)
(* and the rights they give (service/user_level.go), and the calls of the  *)
(* DatabaseI interface (service/cfg.go) that the HTTP handlers make and    *)
(* the database backends serve.                                            *)
(*                                                                         *)
(* An account document is a record [found, level, emails].  A Get that     *)
(* finds nothing leaves the Go struct at its zero value, which is NoDoc    *)
(* with found = FALSE.  The license field is never written by the server   *)
(* and is left out.  A reflect document is the one BMail address that an   *)
(* e-mail address resolves to, "" (NoAddress) when there is none.          *)
(***************************************************************************)
EXTENDS Integers, FiniteSets

CONSTANTS
    Address,    \* BMail addresses, the keys of the account table
    Email,      \* e-mail addresses, the keys of the reflect table
    NoAddress   \* the empty string, where a BMail address is expected

ASSUME NoAddressAssumption == NoAddress \notin Address

-----------------------------------------------------------------------------

(* service/user_level.go: type UserLevel uint8, and its constants.         *)
UserLevelInActive == 0
UserLevelFree == 1
UserLevelNormalVip == 2
UserLevelPlusVip == 3
UserLevelEnterpriseVip == 4

EmailAddrNoForFree == 2
EmailAddrNoForNormal == 4
EmailAddrNoForPlus == 8

(* BMailAccount.UserLel is an int8.  int8(n) of an int32 n keeps the low   *)
(* byte, and UserLevel(l) of an int8 l reads that byte as unsigned.        *)
StoredLevel == -128 .. 127
Int8(n) == ((n + 128) % 256) - 128
UserLevel(l) == l % 256

Doc == [found : BOOLEAN, level : StoredLevel, emails : SUBSET Email]
NoDoc == [found |-> FALSE, level |-> 0, emails |-> {}]
NewDoc(level) == [found |-> TRUE, level |-> level, emails |-> {}]

(* Mutant of HasRight: the e-mail to be added is not counted.              *)
HasRightOffByOne(doc) ==
    LET resultSize == Cardinality(doc.emails)
        user == UserLevel(doc.level)
    IN  \/ user \in {UserLevelInActive, UserLevelEnterpriseVip}
        \/ user = UserLevelFree /\ resultSize <= EmailAddrNoForFree
        \/ user = UserLevelNormalVip /\ resultSize <= EmailAddrNoForNormal
        \/ user = UserLevelPlusVip /\ resultSize <= EmailAddrNoForPlus

(* checkRightsOfAction, once the account has been read: may its owner bind *)
(* one more e-mail address?  The case of UserLevelInActive is empty, and a *)
(* Go case does not fall through: it leaves the switch for "return nil".   *)
HasRight(doc) ==
    LET resultSize == Cardinality(doc.emails) + 1
        user == UserLevel(doc.level)
    IN  \/ user \in {UserLevelInActive, UserLevelEnterpriseVip}
        \/ user = UserLevelFree /\ resultSize <= EmailAddrNoForFree
        \/ user = UserLevelNormalVip /\ resultSize <= EmailAddrNoForNormal
        \/ user = UserLevelPlusVip /\ resultSize <= EmailAddrNoForPlus

=============================================================================
