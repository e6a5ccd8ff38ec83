SPECIFICATION Spec
CONSTANT Handler = {h1}
INVARIANT EnabledIsServed
