\* One pod of the target, one of another namespace, one stray sample source.
CONSTANTS
  TargetPods = {t1}
  OtherPods = {o1}
  StrayPods = {s1}
SPECIFICATION RSpec
INVARIANT DivisorPodsAreReady
