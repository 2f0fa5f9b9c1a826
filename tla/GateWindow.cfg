SPECIFICATION Spec
CONSTANTS
  loop = loop
  sess = sess
  fail = fail
  Nobody = Nobody
  Caller = {loop, sess, fail}
  Window = 2
  MaxPosts = 2
  MaxTime = 7
  MaxLost = 1
SYMMETRY CallerSymmetry
INVARIANTS WindowLimit GateBounded
CHECK_DEADLOCK FALSE
