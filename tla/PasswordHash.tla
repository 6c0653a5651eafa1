---------------------------- MODULE PasswordHash ----------------------------
(***************************************************************************)
(* crypto_pwhash.rs: hashing a password into a string that names its own   *)
(* algorithm, costs and salt, and verifying one.  A string is a record of  *)
(* its parts; what Argon2 computes is the tuple of what it is computed     *)
(* from.                                                                   *)
(***************************************************************************)
EXTENDS Integers, Sequences

SALT_BYTES == 16
DEFAULT_OUTPUT_LEN == 32

\* <<m_cost in KiB, t_cost>> of a preset.
m_and_t_cost(strength) ==
    CASE strength = "Interactive" -> <<65536, 2>>
      [] strength = "Moderate" -> <<262144, 3>>
      [] strength = "Sensitive" -> <<1048576, 4>>

cost(strength) == m_and_t_cost(strength) \o <<1>>

(***************************************************************************)
(* The argon2 crate.  Params::new computes p * 8 in 32 bits before it      *)
(* looks at p.                                                             *)
(***************************************************************************)
MAX_P_COST == 2 ^ 24 - 1
MIN_SALT_LEN == 8
MAX_OUTPUT_LEN == 64

Params_new(costs, len) ==
    IF costs[3] >= 2 ^ 29 THEN "panic"
    ELSE IF /\ costs[3] \in 1 .. MAX_P_COST
            /\ costs[1] >= 8 * costs[3]
            /\ costs[2] >= 1
            /\ len >= 4
         THEN "Ok" ELSE "Err"

block_count(costs) == (costs[1] \div (4 * costs[3])) * 4 * costs[3]

Argon2(algorithm, costs, password, salt, len) == <<algorithm, costs, password, salt, len>>

(***************************************************************************)
(* `free' is how many blocks the allocator can give.                       *)
(***************************************************************************)
hash_into_reserved_memory(costs, password, salt, len, free) ==
    IF block_count(costs) > free THEN [st |-> "OutOfMemory"]
    ELSE [st |-> "Ok", v |-> Argon2("argon2id", costs, password, salt, len)]

hash_with_salt(password, salt, strength, free) ==
    LET tag == hash_into_reserved_memory(cost(strength), password, salt, DEFAULT_OUTPUT_LEN, free)
        costs == cost(strength)
    IN  IF tag.st # "Ok" THEN tag
        ELSE [st |-> "Ok",
              v |-> [algorithm |-> "argon2id", version |-> 19,
                     params |-> <<<<"m", costs[1]>>, <<"t", costs[2]>>, <<"p", costs[3]>>>>,
                     salt |-> salt, hash |-> [len |-> DEFAULT_OUTPUT_LEN, tag |-> tag.v]]]

\* `drawn' is the salt the generator gives, or 0 when it fails.
hash_password(password, strength, drawn, free) ==
    IF drawn = 0 THEN [st |-> "Random"]
    ELSE hash_with_salt(password, [len |-> SALT_BYTES, id |-> drawn], strength, free)

VERIFY_MAX_M_COST == 1048576
VERIFY_MAX_WORK == 4 * 1048576
VERIFY_MIN_TAG_LEN == 16

\* Mutant: a cost of exactly the limit, the Sensitive preset's, is refused.
TooMuchWorkAtLimit(m, t) == m > 0 /\ t >= VERIFY_MAX_WORK \div m

\* m * t > VERIFY_MAX_WORK, a product of 64 bits in the code.
TooMuchWork(m, t) == m > 0 /\ t > VERIFY_MAX_WORK \div m

verify_context(algorithm, version, costs, tag_len, salt_len) ==
    IF \/ algorithm \notin {"argon2id", "argon2i"}
       \/ version # 19
       \/ costs[1] > VERIFY_MAX_M_COST
       \/ TooMuchWork(costs[1], costs[2])
       \/ tag_len \notin VERIFY_MIN_TAG_LEN .. MAX_OUTPUT_LEN
       \/ salt_len < MIN_SALT_LEN
       \/ costs[3] > MAX_P_COST
    THEN "None"
    ELSE Params_new(costs, tag_len)

\* <<m, t, p>>, or <<>> unless each is there exactly once and nothing else is; a
\* value that is no number of 32 bits is -1 here.
phc_costs(params) ==
    LET at(ident) == {i \in DOMAIN params : params[i][1] = ident}
        the(ident) == params[CHOOSE i \in at(ident) : TRUE][2]
    IN  IF /\ \A i \in DOMAIN params : params[i][1] \in {"m", "t", "p"} /\ params[i][2] # -1
           /\ \A ident \in {"m", "t", "p"} : \E i \in at(ident) : at(ident) = {i}
        THEN <<the("m"), the("t"), the("p")>> ELSE <<>>

\* The answer, and the blocks reserved for it.  A string that does not parse, or
\* has no salt or no hash, is the record with nothing in it.
verify_password(password, phc, free) ==
    LET costs == phc_costs(phc.params)
        context == verify_context(phc.algorithm, phc.version, costs, phc.hash.len, phc.salt.len)
        refused(st) == [st |-> st, blocks |-> 0]
    IN  IF DOMAIN phc = {} THEN refused("false")
        ELSE IF costs = <<>> THEN refused("false")
        ELSE IF context # "Ok" THEN refused(IF context = "panic" THEN "panic" ELSE "false")
        ELSE IF block_count(costs) > free THEN refused("false")
        ELSE [st |-> IF Argon2(phc.algorithm, costs, password, phc.salt, phc.hash.len) = phc.hash.tag
                     THEN "true" ELSE "false",
              blocks |-> block_count(costs)]
=============================================================================
